-------------------------- MODULE EventQueueProofs --------------------------
(***************************************************************************)
(* Proofs about EventQueue for every queue size, set of codes and set of   *)
(* parameters.  Everything rests on two facts about the ring: the slots of *)
(* the queued events are distinct (SlotsDistinct), and popping renumbers   *)
(* them by one (SlotsShift).                                               *)
(***************************************************************************)
EXTENDS EventQueue, FiniteSetTheorems, FunctionTheorems, SequenceTheorems, TLAPS

(* SlotOf, for any head: the slot k places into the queue. *)
At(h, k) == (h + k - 1) % kEventQueueSize

(* Modulo is at most one subtraction for the sums the code forms. *)
LEMMA WrapOnce ==
  ASSUME NEW a \in Index, NEW b \in 0 .. kEventQueueSize
  PROVE  (a + b) % kEventQueueSize
           = IF a + b < kEventQueueSize THEN a + b ELSE a + b - kEventQueueSize
  BY QueueAssumption DEF Index

(* At is the plain sum, less the size when it passes the end of the array. *)
LEMMA AtValue ==
  ASSUME NEW h \in Index, NEW k \in 1 .. kEventQueueSize
  PROVE  /\ At(h, k) = IF h + k - 1 < kEventQueueSize
                         THEN h + k - 1 ELSE h + k - 1 - kEventQueueSize
         /\ At(h, k) \in Index
<1>1. h + k - 1 = h + (k - 1) /\ k - 1 \in 0 .. kEventQueueSize
  BY QueueAssumption DEF Index
<1>2. At(h, k) = (h + (k - 1)) % kEventQueueSize
  BY <1>1 DEF At
<1> DEFINE j == k - 1
<1>3. j \in 0 .. kEventQueueSize
  BY <1>1
<1>4. (h + j) % kEventQueueSize
        = IF h + j < kEventQueueSize THEN h + j ELSE h + j - kEventQueueSize
  <2> HIDE DEF j
  <2> QED BY <1>3, WrapOnce
<1> QED
  BY <1>1, <1>2, <1>4, QueueAssumption DEF Index

(* Two different places of the queue never share a slot. *)
LEMMA SlotsDistinct ==
  ASSUME NEW h \in Index, NEW k \in 1 .. kEventQueueSize,
         NEW l \in 1 .. kEventQueueSize, At(h, k) = At(h, l)
  PROVE  k = l
<1>1. At(h, k) = IF h + k - 1 < kEventQueueSize
                   THEN h + k - 1 ELSE h + k - 1 - kEventQueueSize
  BY AtValue
<1>2. At(h, l) = IF h + l - 1 < kEventQueueSize
                   THEN h + l - 1 ELSE h + l - 1 - kEventQueueSize
  BY AtValue
<1>3. (IF h + k - 1 < kEventQueueSize THEN h + k - 1 ELSE h + k - 1 - kEventQueueSize)
        = (IF h + l - 1 < kEventQueueSize THEN h + l - 1 ELSE h + l - 1 - kEventQueueSize)
  BY <1>1, <1>2
<1> QED
  BY <1>3, QueueAssumption DEF Index

(* Moving the head by one renumbers the places: k + 1 becomes k. *)
LEMMA SlotsShift ==
  ASSUME NEW h \in Index
  PROVE  /\ Advance(h) \in Index
         /\ At(h, 1) = h
         /\ \A k \in 1 .. kEventQueueSize - 1 : At(Advance(h), k) = At(h, k + 1)
<1>1. Advance(h) = IF h + 1 < kEventQueueSize THEN h + 1 ELSE h + 1 - kEventQueueSize
  BY QueueAssumption DEF Advance, Index
<1>2. Advance(h) \in Index
  BY <1>1, QueueAssumption DEF Index
<1>3. At(h, 1) = h
  BY AtValue, QueueAssumption DEF Index
<1>4. ASSUME NEW k \in 1 .. kEventQueueSize - 1
      PROVE  At(Advance(h), k) = At(h, k + 1)
  <2>1. k \in 1 .. kEventQueueSize /\ k + 1 \in 1 .. kEventQueueSize
    BY QueueAssumption
  <2>2. At(h, k + 1) = IF h + k < kEventQueueSize THEN h + k ELSE h + k - kEventQueueSize
    BY <2>1, AtValue, QueueAssumption DEF Index
  <2>3. At(Advance(h), k) = IF Advance(h) + k - 1 < kEventQueueSize
                              THEN Advance(h) + k - 1
                              ELSE Advance(h) + k - 1 - kEventQueueSize
    BY <1>2, <2>1, AtValue
  <2> QED
    BY <1>1, <2>2, <2>3, QueueAssumption DEF Index
<1> QED
  BY <1>2, <1>3, <1>4

(* A further move of the tail keeps its distance to the head. *)
LEMMA TailMoves ==
  ASSUME NEW h \in Index, NEW n \in 0 .. kEventQueueSize - 1
  PROVE  /\ Advance((h + n) % kEventQueueSize) = (h + (n + 1)) % kEventQueueSize
         /\ (Advance(h) + n) % kEventQueueSize = (h + (n + 1)) % kEventQueueSize
<1>1. /\ (h + n) % kEventQueueSize
           = IF h + n < kEventQueueSize THEN h + n ELSE h + n - kEventQueueSize
      /\ (h + (n + 1)) % kEventQueueSize
           = IF h + (n + 1) < kEventQueueSize THEN h + (n + 1) ELSE h + (n + 1) - kEventQueueSize
  BY QueueAssumption DEF Index
<1>2. (h + n) % kEventQueueSize \in Index
  BY <1>1, QueueAssumption DEF Index
<1>3. \A i \in Index : Advance(i) = IF i + 1 < kEventQueueSize THEN i + 1 ELSE i + 1 - kEventQueueSize
  BY QueueAssumption DEF Advance, Index
<1>4. Advance(h) \in Index
  BY SlotsShift
<1>5. (Advance(h) + n) % kEventQueueSize
        = IF Advance(h) + n < kEventQueueSize THEN Advance(h) + n ELSE Advance(h) + n - kEventQueueSize
  BY <1>4, QueueAssumption DEF Index
<1>6. Advance((h + n) % kEventQueueSize) = (h + (n + 1)) % kEventQueueSize
  <2> DEFINE t == (h + n) % kEventQueueSize
  <2>1. t \in Index /\ t = IF h + n < kEventQueueSize THEN h + n ELSE h + n - kEventQueueSize
    BY <1>1, <1>2
  <2> HIDE DEF t
  <2>2. Advance(t) = IF t + 1 < kEventQueueSize THEN t + 1 ELSE t + 1 - kEventQueueSize
    BY <1>3, <2>1
  <2>3. Advance(t) = (h + (n + 1)) % kEventQueueSize
    BY <1>1, <2>1, <2>2, QueueAssumption DEF Index
  <2> QED
    BY <2>3 DEF t
<1>7. (Advance(h) + n) % kEventQueueSize = (h + (n + 1)) % kEventQueueSize
  BY <1>1, <1>3, <1>5, QueueAssumption DEF Index
<1> QED
  BY <1>6, <1>7
-----------------------------------------------------------------------------
(* SlotOf and Live in terms of At, before and after a step. *)
LEMMA LiveIsAt ==
  /\ \A k : SlotOf(k) = At(mEventQueueHead, k)
  /\ Live = { At(mEventQueueHead, k) : k \in 1 .. mNumEvents }
  BY DEF SlotOf, Live, At

(* queueEvent adds exactly the tail to the live slots. *)
LEMMA StoreLive ==
  ASSUME RingInv, NEW e \in Event, Store(e)
  PROVE  /\ mNumEvents + 1 \in 1 .. kEventQueueSize
         /\ mEventQueueTail = At(mEventQueueHead, mNumEvents + 1)
         /\ \A k \in 1 .. mNumEvents : /\ SlotOf(k) \in Index
                                       /\ SlotOf(k) # mEventQueueTail
         /\ \A k : SlotOf(k)' = SlotOf(k)
         /\ Live' = Live \cup {mEventQueueTail}
<1> USE DEF RingInv, TypeOK
<1>1. mNumEvents + 1 \in 1 .. kEventQueueSize
  BY QueueAssumption DEF Store, isFull
<1>2. mEventQueueTail = At(mEventQueueHead, mNumEvents + 1)
  <2>1. mEventQueueHead + (mNumEvents + 1) - 1 = mEventQueueHead + mNumEvents
    BY QueueAssumption DEF Index
  <2> QED
    BY <2>1 DEF At, TailFollowsHead
<1>3. ASSUME NEW k \in 1 .. mNumEvents
      PROVE  SlotOf(k) \in Index /\ SlotOf(k) # mEventQueueTail
  <2>1. k \in 1 .. kEventQueueSize /\ k # mNumEvents + 1
    BY QueueAssumption
  <2> QED
    BY <1>1, <1>2, <2>1, LiveIsAt, AtValue, SlotsDistinct
<1>4. \A k : SlotOf(k)' = SlotOf(k)
  BY DEF SlotOf, Store
<1>5. Live' = Live \cup {mEventQueueTail}
  <2>1. Live' = { At(mEventQueueHead, k) : k \in 1 .. mNumEvents + 1 }
    BY DEF Live, SlotOf, At, Store
  <2>2. 1 .. mNumEvents + 1 = (1 .. mNumEvents) \cup {mNumEvents + 1}
    BY QueueAssumption
  <2> QED
    BY <1>2, <2>1, <2>2, LiveIsAt
<1> QED
  BY <1>1, <1>2, <1>3, <1>4, <1>5

(* popEvent takes exactly the head from the live slots and renumbers the rest. *)
LEMMA RemoveLive ==
  ASSUME RingInv, Remove
  PROVE  /\ mNumEvents \in 1 .. kEventQueueSize
         /\ SlotOf(1) = mEventQueueHead
         /\ \A k \in 1 .. mNumEvents - 1 : /\ SlotOf(k)' = SlotOf(k + 1)
                                           /\ SlotOf(k + 1) \in Index
                                           /\ SlotOf(k + 1) # mEventQueueHead
         /\ Live' = Live \ {mEventQueueHead}
<1> USE DEF RingInv, TypeOK
<1>1. mNumEvents \in 1 .. kEventQueueSize
  BY QueueAssumption DEF Remove, isEmpty
<1>2. SlotOf(1) = mEventQueueHead
  BY LiveIsAt, SlotsShift
<1>3. ASSUME NEW k \in 1 .. mNumEvents - 1
      PROVE  /\ SlotOf(k)' = SlotOf(k + 1)
             /\ SlotOf(k + 1) \in Index
             /\ SlotOf(k + 1) # mEventQueueHead
  <2>1. /\ k \in 1 .. kEventQueueSize - 1
        /\ k + 1 \in 1 .. kEventQueueSize
        /\ 1 \in 1 .. kEventQueueSize
        /\ k + 1 # 1
    BY <1>1, QueueAssumption
  <2>2. SlotOf(k)' = At(Advance(mEventQueueHead), k)
    BY DEF SlotOf, At, Remove
  <2> QED
    BY <1>2, <2>1, <2>2, LiveIsAt, SlotsShift, SlotsDistinct, AtValue
<1>4. Live' = Live \ {mEventQueueHead}
  <2>1. Live' = { SlotOf(k)' : k \in 1 .. mNumEvents - 1 }
    BY DEF Live, Remove, SlotOf
  <2>2. Live' = { SlotOf(k + 1) : k \in 1 .. mNumEvents - 1 }
    BY <1>3, <2>1
  <2>3. \A k \in 1 .. mNumEvents : k = 1 \/ (k - 1 \in 1 .. mNumEvents - 1 /\ k = (k - 1) + 1)
    BY <1>1, QueueAssumption
  <2>4. \A k \in 1 .. mNumEvents - 1 : k + 1 \in 1 .. mNumEvents
    BY <1>1, QueueAssumption
  <2>5. ASSUME NEW i \in Live, i # mEventQueueHead
        PROVE  i \in Live'
    <3>1. PICK k \in 1 .. mNumEvents : i = SlotOf(k)
      BY DEF Live
    <3>2. k # 1
      BY <1>2, <2>5, <3>1
    <3>3. k - 1 \in 1 .. mNumEvents - 1 /\ i = SlotOf((k - 1) + 1)
      BY <2>3, <3>1, <3>2
    <3> QED
      BY <2>2, <3>3
  <2>6. ASSUME NEW i \in Live'
        PROVE  i \in Live /\ i # mEventQueueHead
    BY <1>3, <2>2, <2>4 DEF Live
  <2> QED
    BY <2>5, <2>6
<1> QED
  BY <1>1, <1>2, <1>3, <1>4
-----------------------------------------------------------------------------
(* The constructor leaves an empty ring. *)
LEMMA InitRing == Init => RingInv
<1> SUFFICES ASSUME Init PROVE RingInv
  OBVIOUS
<1> USE DEF Init
<1>1. 0 \in Index /\ 0 \in 0 .. kEventQueueSize /\ 1 .. 0 = {}
  BY QueueAssumption DEF Index
<1>2. TypeOK
  BY <1>1 DEF TypeOK, Slot, NoEvent, Answer
<1>3. TailFollowsHead
  BY QueueAssumption DEF TailFollowsHead
<1>4. CodesMarkLiveSlots
  BY <1>1 DEF CodesMarkLiveSlots, Live, NoEvent
<1>5. LiveSlotsHoldEvents
  BY <1>1 DEF LiveSlotsHoldEvents
<1> QED
  BY <1>2, <1>3, <1>4, <1>5 DEF RingInv

(* Storing an event keeps the ring in order. *)
LEMMA StoreRing ==
  ASSUME RingInv, NEW e \in Event, Store(e)
  PROVE  RingInv'
<1> USE DEF RingInv, TypeOK
<1>0. e.code # kEventNone /\ e \in Slot
  BY QueueAssumption DEF Event, Slot
<1>1. TypeOK'
  <2>1. Advance(mEventQueueTail) \in Index
    BY SlotsShift
  <2>2. mNumEvents + 1 \in 0 .. kEventQueueSize
    BY StoreLive, QueueAssumption
  <2> QED
    BY <1>0, <2>1, <2>2 DEF Store, Answer
<1>2. TailFollowsHead'
  <2>1. mNumEvents \in 0 .. kEventQueueSize - 1
    BY StoreLive, QueueAssumption
  <2> QED
    BY <2>1, TailMoves DEF TailFollowsHead, Store
<1>3. CodesMarkLiveSlots'
  <2> SUFFICES ASSUME NEW i \in Index
               PROVE  (mEventQueue'[i].code # kEventNone) <=> (i \in Live')
    BY DEF CodesMarkLiveSlots
  <2>1. CASE i = mEventQueueTail
    BY <1>0, <2>1, StoreLive DEF Store
  <2>2. CASE i # mEventQueueTail
    BY <2>2, StoreLive DEF Store, CodesMarkLiveSlots
  <2> QED
    BY <2>1, <2>2
<1>4. LiveSlotsHoldEvents'
  <2> SUFFICES ASSUME NEW k \in 1 .. mNumEvents + 1
               PROVE  mEventQueue'[SlotOf(k)'] \in Event
    BY DEF LiveSlotsHoldEvents, Store
  <2>1. CASE k \in 1 .. mNumEvents
    BY <2>1, StoreLive DEF Store, LiveSlotsHoldEvents
  <2>2. CASE k = mNumEvents + 1
    BY <2>2, StoreLive, LiveIsAt DEF Store
  <2> QED
    BY <2>1, <2>2, QueueAssumption
<1> QED
  BY <1>1, <1>2, <1>3, <1>4

(* Popping an event keeps the ring in order. *)
LEMMA RemoveRing ==
  ASSUME RingInv, Remove
  PROVE  RingInv'
<1> USE DEF RingInv, TypeOK
<1>1. /\ 1 \in 1 .. mNumEvents
      /\ mEventQueue[mEventQueueHead] \in Event
      /\ mNumEvents - 1 \in 0 .. kEventQueueSize - 1
      /\ mNumEvents = (mNumEvents - 1) + 1
  BY RemoveLive, QueueAssumption DEF LiveSlotsHoldEvents
<1>2. TypeOK'
  <2>1. Advance(mEventQueueHead) \in Index
    BY SlotsShift
  <2>2. mNumEvents - 1 \in 0 .. kEventQueueSize
    BY <1>1, QueueAssumption
  <2>3. mEventQueue' \in [Index -> Slot]
    BY DEF Remove, Slot
  <2> QED
    BY <1>1, <2>1, <2>2, <2>3 DEF Remove, Answer
<1>3. TailFollowsHead'
  BY <1>1, TailMoves DEF TailFollowsHead, Remove
<1>4. CodesMarkLiveSlots'
  <2> SUFFICES ASSUME NEW i \in Index
               PROVE  (mEventQueue'[i].code # kEventNone) <=> (i \in Live')
    BY DEF CodesMarkLiveSlots
  <2>1. CASE i = mEventQueueHead
    BY <2>1, RemoveLive DEF Remove, Slot
  <2>2. CASE i # mEventQueueHead
    BY <2>2, RemoveLive DEF Remove, CodesMarkLiveSlots
  <2> QED
    BY <2>1, <2>2
<1>5. LiveSlotsHoldEvents'
  <2> SUFFICES ASSUME NEW k \in 1 .. mNumEvents - 1
               PROVE  mEventQueue'[SlotOf(k)'] \in Event
    BY DEF LiveSlotsHoldEvents, Remove
  <2>1. k + 1 \in 1 .. mNumEvents
    BY QueueAssumption
  <2> QED
    BY <2>1, RemoveLive DEF Remove, LiveSlotsHoldEvents
<1> QED
  BY <1>2, <1>3, <1>4, <1>5

(* Every step keeps the ring in order. *)
LEMMA NextRing == RingInv /\ [Next]_vars => RingInv'
<1> SUFFICES ASSUME RingInv, [Next]_vars PROVE RingInv'
  OBVIOUS
<1>1. ASSUME NEW e \in Event, queueEvent(e) PROVE RingInv'
  <2>1. CASE Store(e)
    BY <2>1, StoreRing
  <2>2. CASE Drop(e)
    BY <2>2 DEF Drop, RingInv, TypeOK, Answer, TailFollowsHead, CodesMarkLiveSlots,
                LiveSlotsHoldEvents, SlotOf, Live
  <2> QED
    BY <1>1, <2>1, <2>2 DEF queueEvent
<1>2. CASE popEvent
  <2>1. CASE Remove
    BY <2>1, RemoveRing
  <2>2. CASE FindEmpty
    BY <2>2 DEF FindEmpty, RingInv, TypeOK, Answer, TailFollowsHead, CodesMarkLiveSlots,
                LiveSlotsHoldEvents, SlotOf, Live
  <2> QED
    BY <1>2, <2>1, <2>2 DEF popEvent
<1>3. CASE UNCHANGED vars
  BY <1>3 DEF vars, RingInv, TypeOK, TailFollowsHead, CodesMarkLiveSlots,
              LiveSlotsHoldEvents, SlotOf, Live
<1> QED
  BY <1>1, <1>2, <1>3 DEF Next

(* The ring buffer is in order in every reachable state: the three indices *)
(* agree, a slot carries a code exactly while its event is queued, and the *)
(* queued slots hold whole events.                                         *)
THEOREM RingIsInvariant == Spec => []RingInv
  BY InitRing, NextRing, PTL DEF Spec
-----------------------------------------------------------------------------
(* The scan over all slots counts the queued events of a code: places and  *)
(* slots of that code correspond one to one.                               *)
LEMMA RingCounts == RingInv => ScanCountsQueued
<1> SUFFICES ASSUME RingInv, NEW c \in Code
             PROVE  getNumEventCodeInQueue(c)
                      = Cardinality({ k \in 1 .. mNumEvents : Contents[k].code = c })
  BY DEF ScanCountsQueued
<1> USE DEF RingInv, TypeOK
<1> DEFINE P == { k \in 1 .. mNumEvents : Contents[k].code = c }
           I == { i \in Index : mEventQueue[i].code = c }
           f == [k \in P |-> SlotOf(k)]
<1>1. \A k \in P : k \in 1 .. kEventQueueSize /\ mEventQueue[SlotOf(k)].code = c
  BY QueueAssumption DEF Contents
<1>2. \A k \in P : SlotOf(k) \in Index
  BY <1>1, LiveIsAt, AtValue
<1>3. \A k, l \in P : f[k] = f[l] => k = l
  BY <1>1, LiveIsAt, SlotsDistinct
<1>4. \A i \in I : \E k \in P : f[k] = i
  <2> SUFFICES ASSUME NEW i \in I PROVE \E k \in P : f[k] = i
    OBVIOUS
  <2>1. i \in Live
    BY QueueAssumption DEF CodesMarkLiveSlots
  <2>2. PICK k \in 1 .. mNumEvents : i = SlotOf(k)
    BY <2>1 DEF Live
  <2>3. k \in P
    BY <2>2 DEF Contents
  <2> QED
    BY <2>2, <2>3
<1>5. f \in [P -> I]
  BY <1>1, <1>2
<1>6. f \in Bijection(P, I)
  <2> HIDE DEF f, P, I
  <2> QED
    BY <1>3, <1>4, <1>5, Fun_IsBij
<1>7. IsFiniteSet(P)
  <2>1. mNumEvents \in Int
    BY QueueAssumption
  <2>2. IsFiniteSet(1 .. mNumEvents)
    BY <2>1, FS_Interval
  <2> QED
    BY <2>2, FS_Subset
<1>8. Cardinality(I) = Cardinality(P)
  <2> HIDE DEF f, P, I
  <2> QED
    BY <1>6, <1>7, FS_Bijection DEF ExistsBijection
<1> QED
  BY <1>8 DEF getNumEventCodeInQueue

(* getNumEventCodeInQueue, which scans the array without looking at the    *)
(* indices, is exact in every reachable state.                             *)
THEOREM ScanIsExact == Spec => []ScanCountsQueued
  BY RingIsInvariant, RingCounts, PTL
-----------------------------------------------------------------------------
LEMMA FunctionIsSeq ==
  ASSUME NEW S, NEW n \in Nat, NEW f \in [1 .. n -> S]
  PROVE  f \in Seq(S) /\ Len(f) = n
  OBVIOUS

LEMMA ContentsIsSeq ==
  ASSUME RingInv
  PROVE  Contents \in Seq(Event) /\ Len(Contents) = mNumEvents
<1>1. mNumEvents \in Nat
  BY QueueAssumption DEF RingInv, TypeOK
<1>2. Contents \in [1 .. mNumEvents -> Event]
  BY DEF RingInv, LiveSlotsHoldEvents, Contents
<1> QED
  BY <1>1, <1>2, FunctionIsSeq

(* queueEvent with room is the FIFO's Accept. *)
LEMMA StoreAccepts ==
  ASSUME RingInv, NEW e \in Event, Store(e)
  PROVE  Fifo!Accept(e)
<1> DEFINE n == mNumEvents
<1>1. Contents \in Seq(Event) /\ Len(Contents) = n
  BY ContentsIsSeq
<1>2. n \in Nat /\ n + 1 \in Nat /\ n < kEventQueueSize /\ mNumEvents' = n + 1
  BY StoreLive, QueueAssumption DEF RingInv, TypeOK, Store, isFull
<1>3. Contents' = [k \in 1 .. n + 1 |-> mEventQueue'[SlotOf(k)]]
  BY <1>2, StoreLive DEF Contents
<1>4. \A k \in 1 .. n : mEventQueue'[SlotOf(k)] = Contents[k]
  BY StoreLive DEF Store, RingInv, TypeOK, Contents
<1>5. mEventQueue'[SlotOf(n + 1)] = e
  BY StoreLive, LiveIsAt DEF Store, RingInv, TypeOK
<1>6. Contents' \in [1 .. n + 1 -> Event]
  <2>1. \A k \in 1 .. n + 1 : k \in 1 .. n \/ k = n + 1
    BY <1>2
  <2>2. \A k \in 1 .. n : Contents[k] \in Event
    BY DEF RingInv, LiveSlotsHoldEvents, Contents
  <2> QED
    BY <1>3, <1>4, <1>5, <2>1, <2>2
<1>7. Contents' \in Seq(Event) /\ Len(Contents') = n + 1
  BY <1>2, <1>6, FunctionIsSeq
<1>8. Contents' = Append(Contents, e)
  <2>1. /\ Append(Contents, e) \in Seq(Event)
        /\ Len(Append(Contents, e)) = n + 1
        /\ \A k \in 1 .. n : Append(Contents, e)[k] = Contents[k]
        /\ Append(Contents, e)[n + 1] = e
    BY <1>1, AppendProperties
  <2>2. \A k \in 1 .. n + 1 : Contents'[k] = Append(Contents, e)[k]
    BY <1>2, <1>3, <1>4, <1>5, <2>1
  <2> QED
    BY <1>7, <2>1, <2>2, SeqEqual
<1> QED
  BY <1>1, <1>2, <1>8 DEF Fifo!Accept, Store, Fifo!Answer, Answer

(* popEvent with something queued is the FIFO's Take. *)
LEMMA RemoveTakes ==
  ASSUME RingInv, Remove
  PROVE  Fifo!Take
<1> DEFINE n == mNumEvents
<1>1. Contents \in Seq(Event) /\ Len(Contents) = n
  BY ContentsIsSeq
<1>2. /\ n \in Nat \ {0} /\ n - 1 \in Nat /\ mNumEvents' = n - 1
      /\ 1 \in 1 .. n
  BY RemoveLive, QueueAssumption DEF Remove
<1>3. Contents # << >>
  BY <1>1, <1>2, EmptySeq
<1>4. Head(Contents) = mEventQueue[mEventQueueHead]
  <2>1. Head(Contents) = Contents[1]
    BY <1>1, <1>3
  <2> QED
    BY <1>2, <2>1, RemoveLive DEF Contents
<1>5. Contents' = [k \in 1 .. n - 1 |-> Contents[k + 1]]
  <2>1. Contents' = [k \in 1 .. n - 1 |-> mEventQueue'[SlotOf(k)']]
    BY <1>2 DEF Contents
  <2>2. \A k \in 1 .. n - 1 : /\ k + 1 \in 1 .. n
                             /\ mEventQueue'[SlotOf(k)'] = mEventQueue[SlotOf(k + 1)]
    BY <1>2, RemoveLive DEF Remove, RingInv, TypeOK
  <2>3. \A k \in 1 .. n - 1 : mEventQueue'[SlotOf(k)'] = Contents[k + 1]
    BY <2>2 DEF Contents
  <2> QED
    BY <2>1, <2>3
<1>6. Contents' = Tail(Contents)
  <2>1. /\ Tail(Contents) \in Seq(Event)
        /\ Len(Tail(Contents)) = n - 1
        /\ \A k \in 1 .. n - 1 : Tail(Contents)[k] = Contents[k + 1]
    BY <1>1, <1>3, HeadTailProperties
  <2>2. Contents' \in [1 .. n - 1 -> Event]
    <3>1. \A k \in 1 .. n - 1 : k + 1 \in 1 .. n
      BY <1>2
    <3> QED
      BY <1>5, <3>1 DEF RingInv, LiveSlotsHoldEvents, Contents
  <2>3. Contents' \in Seq(Event) /\ Len(Contents') = n - 1
    BY <1>2, <2>2, FunctionIsSeq
  <2>4. \A k \in 1 .. n - 1 : Contents'[k] = Tail(Contents)[k]
    BY <1>5, <2>1
  <2> QED
    BY <2>1, <2>3, <2>4, SeqEqual
<1> QED
  BY <1>3, <1>4, <1>6 DEF Fifo!Take, Remove, Fifo!Answer, Answer

(* Every step of the ring buffer is a step of the FIFO. *)
LEMMA NextImplements == RingInv /\ [Next]_vars => [Fifo!Next]_(Fifo!vars)
<1> SUFFICES ASSUME RingInv, [Next]_vars PROVE [Fifo!Next]_(Fifo!vars)
  OBVIOUS
<1>1. Contents \in Seq(Event) /\ Len(Contents) = mNumEvents
  BY ContentsIsSeq
<1>2. ASSUME NEW e \in Event, queueEvent(e) PROVE Fifo!Next
  <2>1. CASE Store(e)
    BY <2>1, StoreAccepts DEF Fifo!Next
  <2>2. CASE Drop(e)
    <3>1. Contents' = Contents
      BY <2>2 DEF Drop, Contents, SlotOf
    <3> QED
      BY <1>1, <2>2, <3>1 DEF Drop, isFull, Fifo!Next, Fifo!Refuse, Fifo!Answer, Answer
  <2> QED
    BY <1>2, <2>1, <2>2 DEF queueEvent
<1>3. CASE popEvent
  <2>1. CASE Remove
    BY <2>1, RemoveTakes DEF Fifo!Next
  <2>2. CASE FindEmpty
    <3>1. Contents' = Contents
      BY <2>2 DEF FindEmpty, Contents, SlotOf
    <3>2. Contents = << >>
      BY <1>1, <2>2 DEF FindEmpty, isEmpty
    <3> QED
      BY <2>2, <3>1, <3>2 DEF FindEmpty, Fifo!Next, Fifo!Nothing, Fifo!Answer, Answer
  <2> QED
    BY <1>3, <2>1, <2>2 DEF popEvent
<1>4. CASE UNCHANGED vars
  BY <1>4 DEF vars, Fifo!vars, Contents, SlotOf
<1> QED
  BY <1>2, <1>3, <1>4 DEF Next

(* The ring buffer implements the bounded FIFO: nothing accepted is lost,  *)
(* duplicated or reordered, and an event is refused only when the queue is *)
(* full.                                                                   *)
THEOREM RingImplementsFifo == Spec => ImplementsFifo
<1>1. Init => Fifo!Init
  <2> SUFFICES ASSUME Init PROVE Fifo!Init
    OBVIOUS
  <2>1. Contents \in Seq(Event) /\ Len(Contents) = 0
    BY InitRing, ContentsIsSeq DEF Init
  <2>2. Contents = << >>
    BY <2>1
  <2> QED
    BY <2>2 DEF Init, Fifo!Init, Fifo!Answer, Answer
<1> QED
  BY <1>1, RingIsInvariant, NextImplements, PTL DEF Spec, ImplementsFifo, Fifo!Spec
=============================================================================
