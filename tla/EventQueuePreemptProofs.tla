---------------------- MODULE EventQueuePreemptProofs -----------------------
(***************************************************************************)
(* Proofs about EventQueuePreempt for every queue size, set of codes and   *)
(* number of calls.  What two contexts cannot break, whatever overlaps, is *)
(* RangeInv.  The rest holds until a call has overlapped another: then     *)
(* PreemptInv says what the words and the slots of the queue are at each   *)
(* step of a call, and one place at a time tells the step (Phases).        *)
(***************************************************************************)
EXTENDS EventQueuePreempt, FiniteSetTheorems, SequenceTheorems, TLAPS

(* The slot n places behind h, and the first n slots from h on. *)
Slot(h, n) == (h + n) % kEventQueueSize
Slots(h, n) == { Slot(h, k) : k \in 0 .. n - 1 }

LEMMA Bounds == kEventQueueSize \in Nat \ {0} /\ kEventNone \notin Code
  BY QueueAssumption

LEMMA SlotValue ==
  ASSUME NEW h \in Index, NEW n \in 0 .. kEventQueueSize
  PROVE  /\ Slot(h, n) = IF h + n < kEventQueueSize THEN h + n ELSE h + n - kEventQueueSize
         /\ Slot(h, n) \in Index
<1>1. (h + n) % kEventQueueSize
        = IF h + n < kEventQueueSize THEN h + n ELSE h + n - kEventQueueSize
  BY QueueAssumption DEF Index
<1> QED
  BY <1>1, QueueAssumption DEF Slot, Index

LEMMA SlotsApart ==
  ASSUME NEW h \in Index, NEW k \in 0 .. kEventQueueSize - 1,
         NEW l \in 0 .. kEventQueueSize - 1, Slot(h, k) = Slot(h, l)
  PROVE  k = l
<1>1. k \in 0 .. kEventQueueSize /\ l \in 0 .. kEventQueueSize
  BY QueueAssumption
<1>2. /\ Slot(h, k) = IF h + k < kEventQueueSize THEN h + k ELSE h + k - kEventQueueSize
      /\ Slot(h, l) = IF h + l < kEventQueueSize THEN h + l ELSE h + l - kEventQueueSize
  BY <1>1, SlotValue
<1>3. (IF h + k < kEventQueueSize THEN h + k ELSE h + k - kEventQueueSize)
        = (IF h + l < kEventQueueSize THEN h + l ELSE h + l - kEventQueueSize)
  BY <1>2
<1> QED
  BY ONLY <1>3, QueueAssumption, h \in Index, k \in 0 .. kEventQueueSize - 1,
          l \in 0 .. kEventQueueSize - 1 DEF Index

LEMMA AdvanceValue ==
  ASSUME NEW i \in Index
  PROVE  /\ Advance(i) = IF i + 1 < kEventQueueSize THEN i + 1 ELSE i + 1 - kEventQueueSize
         /\ Advance(i) \in Index
<1>1. (i + 1) % kEventQueueSize
        = IF i + 1 < kEventQueueSize THEN i + 1 ELSE i + 1 - kEventQueueSize
  BY QueueAssumption DEF Index
<1> QED
  BY <1>1, QueueAssumption DEF Advance, Index

(* One slot more: the one behind the last. *)
LEMMA SlotAdded ==
  ASSUME NEW h \in Index, NEW n \in 0 .. kEventQueueSize - 1
  PROVE  /\ Slots(h, n + 1) = Slots(h, n) \cup {Slot(h, n)}
         /\ Slot(h, n) \notin Slots(h, n)
         /\ Advance(Slot(h, n)) = Slot(h, n + 1)
<1>1. n \in Nat /\ n \in 0 .. kEventQueueSize /\ n + 1 \in 0 .. kEventQueueSize
  BY QueueAssumption
<1>2. 0 .. n + 1 - 1 = (0 .. n - 1) \cup {n}
  BY <1>1
<1>3. Slots(h, n + 1) = Slots(h, n) \cup {Slot(h, n)}
  BY <1>2 DEF Slots
<1>4. ASSUME NEW k \in 0 .. n - 1 PROVE Slot(h, k) # Slot(h, n)
  <2>1. k \in 0 .. kEventQueueSize - 1 /\ k # n
    BY QueueAssumption
  <2> QED
    BY <2>1, SlotsApart
<1>5. Slot(h, n) \notin Slots(h, n)
  BY <1>4 DEF Slots
<1>6. Advance(Slot(h, n)) = Slot(h, n + 1)
  <2> DEFINE s == Slot(h, n)
             t == Slot(h, n + 1)
  <2>1. /\ s \in Index /\ s = IF h + n < kEventQueueSize THEN h + n ELSE h + n - kEventQueueSize
        /\ t = IF h + (n + 1) < kEventQueueSize THEN h + (n + 1) ELSE h + (n + 1) - kEventQueueSize
    BY <1>1, SlotValue
  <2> HIDE DEF s, t
  <2>2. Advance(s) = IF s + 1 < kEventQueueSize THEN s + 1 ELSE s + 1 - kEventQueueSize
    BY <2>1, AdvanceValue
  <2>3. Advance(s) = t
    BY <2>1, <2>2, QueueAssumption DEF Index
  <2> QED
    BY <2>3 DEF s, t
<1> QED
  BY <1>3, <1>5, <1>6

(* One slot less: the first.  The one behind the last stays where it is. *)
LEMMA SlotRemoved ==
  ASSUME NEW h \in Index, NEW n \in 1 .. kEventQueueSize
  PROVE  /\ h \in Slots(h, n)
         /\ Slots(Advance(h), n - 1) = Slots(h, n) \ {h}
         /\ Slot(Advance(h), n - 1) = Slot(h, n)
<1> DEFINE a == Advance(h)
<1>1. a \in Index /\ a = IF h + 1 < kEventQueueSize THEN h + 1 ELSE h + 1 - kEventQueueSize
  BY AdvanceValue
<1> HIDE DEF a
<1>2. ASSUME NEW k \in 1 .. kEventQueueSize PROVE Slot(a, k - 1) = Slot(h, k)
  <2>1. k - 1 \in 0 .. kEventQueueSize /\ k \in 0 .. kEventQueueSize
    BY QueueAssumption
  <2>2. /\ Slot(a, k - 1) = IF a + (k - 1) < kEventQueueSize THEN a + (k - 1)
                            ELSE a + (k - 1) - kEventQueueSize
        /\ Slot(h, k) = IF h + k < kEventQueueSize THEN h + k ELSE h + k - kEventQueueSize
    BY <1>1, <2>1, SlotValue
  <2> QED
    BY <1>1, <2>2, QueueAssumption DEF Index
<1>3. Slot(h, 0) = h
  <2>1. 0 \in 0 .. kEventQueueSize
    BY QueueAssumption
  <2> QED
    BY <2>1, SlotValue, QueueAssumption DEF Index
<1>4. 0 \in 0 .. n - 1 /\ 0 \in 0 .. kEventQueueSize - 1
  BY QueueAssumption
<1>5. h \in Slots(h, n)
  BY <1>3, <1>4 DEF Slots
<1>6. ASSUME NEW k \in 0 .. n - 1 - 1
      PROVE  Slot(a, k) \in Slots(h, n) \ {h}
  <2>1. /\ k + 1 \in 1 .. kEventQueueSize /\ k + 1 \in 0 .. n - 1
        /\ k + 1 \in 0 .. kEventQueueSize - 1 /\ k + 1 # 0 /\ k + 1 - 1 = k
    BY QueueAssumption
  <2>2. Slot(a, k) = Slot(h, k + 1)
    BY <1>2, <2>1
  <2>3. Slot(h, k + 1) # Slot(h, 0)
    BY <1>4, <2>1, SlotsApart
  <2> QED
    BY <1>3, <2>1, <2>2, <2>3 DEF Slots
<1>7. ASSUME NEW k \in 0 .. n - 1, Slot(h, k) # h
      PROVE  Slot(h, k) \in Slots(a, n - 1)
  <2>1. k # 0
    BY <1>3, <1>7
  <2>2. k \in 1 .. kEventQueueSize /\ k - 1 \in 0 .. n - 1 - 1
    BY <2>1, QueueAssumption
  <2>3. Slot(h, k) = Slot(a, k - 1)
    BY <1>2, <2>2
  <2> QED
    BY <2>2, <2>3 DEF Slots
<1>8. Slots(a, n - 1) = Slots(h, n) \ {h}
  BY <1>6, <1>7 DEF Slots
<1>9. Slot(a, n - 1) = Slot(h, n)
  BY <1>2
<1> QED
  BY <1>5, <1>8, <1>9 DEF a

LEMMA SlotsFinite ==
  ASSUME NEW S \in SUBSET Index
  PROVE  IsFiniteSet(S) /\ Cardinality(S) \in Nat
<1>1. IsFiniteSet(Index)
  BY QueueAssumption, FS_Interval DEF Index
<1> QED
  BY <1>1, FS_Subset, FS_CardinalityType

LEMMA SlotsInIndex ==
  ASSUME NEW h \in Index, NEW n \in 0 .. kEventQueueSize
  PROVE  Slots(h, n) \subseteq Index
<1>1. \A k \in 0 .. n - 1 : k \in 0 .. kEventQueueSize
  BY QueueAssumption
<1> QED
  BY <1>1, SlotValue DEF Slots
-----------------------------------------------------------------------------
(* The steps of queueEvent with room for the event, with its code in       *)
(* place, with its parameter in place, and with the tail moved.            *)
RoomAt == PushAt \ {"check full"}
PlacedAt == RoomAt \ {"store code"}
OwnedAt == PlacedAt \ {"store param"}
MovedAt == {"load count", "store count"}

(* The steps of popEvent with the event taken, with its code cleared, and  *)
(* with the head moved.                                                    *)
GoneAt == {"clear", "move head"}
ClearedAt == {"move head"}
LessAt == {"load less", "store less"}

In(S) == \E c \in Context : pc[c] \in S

(* The count as the head sees it: the word lags behind when the head moved. *)
Count == IF In(LessAt) THEN num - 1 ELSE num

(* What no overlap breaks: only the loop pops, and while it does the count *)
(* is not zero, since all that a push can store is one more than it read.  *)
RangeInv == /\ pc[Producer] \in PushAt \cup {"idle"}
            /\ pc[Loop] \in PopAt => num # 0
            /\ pc[Loop] = "store less" => reg[Loop] # 0

(* There is room for what was checked to fit. *)
RoomInv == /\ num \in 0 .. kEventQueueSize
           /\ In(RoomAt) => num < kEventQueueSize

(* A word that was loaded has not changed since. *)
RegInv == \A c \in Context :
            /\ pc[c] \in {"check full", "store code"} => arg[c] \in Code
            /\ pc[c] = "store tail" => reg[c] = tail
            /\ pc[c] \in {"store count", "store less"} => reg[c] = num

TailInv == tail = Slot(head, IF In(MovedAt) THEN Count + 1 ELSE Count)

CodeInv == { i \in Index : code[i] # kEventNone }
             = (Slots(head, Count) \ (IF In(ClearedAt) THEN {head} ELSE {}))
                 \cup (IF In(PlacedAt) THEN {Slot(head, Count)} ELSE {})

(* The events that are accepted and not handed out, and whose they are. *)
Queued == Slots(head, Count) \ (IF In(GoneAt) THEN {head} ELSE {})
Of(c) == { i \in Queued : owner[i] = c }

OwnerInv == /\ \A c \in Context : pc[c] \in OwnedAt => owner[Slot(head, Count)] = c
            /\ \A c \in Context : accepted[c] - popped[c] = Cardinality(Of(c))

PreemptInv == TypeOK /\ RangeInv /\ RoomInv /\ RegInv /\ TailInv /\ CodeInv /\ OwnerInv

LEMMA IdleIsNowhere ==
  \A S \in {LessAt, MovedAt, PlacedAt, RoomAt, GoneAt, ClearedAt} : "idle" \notin S
<1>1. "idle" \notin PushAt
  BY DEF PushAt
<1>2. "idle" \notin RoomAt /\ "idle" \notin PlacedAt
  BY <1>1 DEF PlacedAt, RoomAt
<1>3. /\ "idle" \notin LessAt /\ "idle" \notin MovedAt
      /\ "idle" \notin GoneAt /\ "idle" \notin ClearedAt
  BY DEF LessAt, MovedAt, GoneAt, ClearedAt
<1> QED
  BY <1>2, <1>3

(* One place tells which step the queue is in: that of the context that    *)
(* moves.                                                                  *)
LEMMA Phases ==
  ASSUME ~ overlapped', TypeOK,
         NEW c \in Context, NEW from, NEW to, Step(c, from, to)
  PROVE  /\ pc[c] = from /\ pc'[c] = to
         /\ \A d \in Context : d # c => pc'[d] = pc[d] /\ pc[d] = "idle"
         /\ (In(LessAt) <=> from \in LessAt) /\ (In(LessAt)' <=> to \in LessAt)
         /\ (In(MovedAt) <=> from \in MovedAt) /\ (In(MovedAt)' <=> to \in MovedAt)
         /\ (In(PlacedAt) <=> from \in PlacedAt) /\ (In(PlacedAt)' <=> to \in PlacedAt)
         /\ (In(RoomAt) <=> from \in RoomAt) /\ (In(RoomAt)' <=> to \in RoomAt)
         /\ (In(GoneAt) <=> from \in GoneAt) /\ (In(GoneAt)' <=> to \in GoneAt)
         /\ (In(ClearedAt) <=> from \in ClearedAt) /\ (In(ClearedAt)' <=> to \in ClearedAt)
<1>1. pc[c] = from /\ pc'[c] = to
  BY DEF TypeOK, Step
<1>2. ASSUME NEW d \in Context, d # c PROVE pc'[d] = pc[d] /\ pc[d] = "idle"
  <2>1. pc' = [pc EXCEPT ![c] = to] /\ \A e \in Context \ {c} : pc[e] = "idle"
    BY DEF Step
  <2> QED
    BY ONLY <1>2, <2>1, TypeOK, c \in Context, d \in Context DEF TypeOK
<1>3. \A S \in {LessAt, MovedAt, PlacedAt, RoomAt, GoneAt, ClearedAt} :
        "idle" \notin S
  BY IdleIsNowhere
<1>4. ASSUME NEW S, "idle" \notin S
      PROVE  (In(S) <=> from \in S) /\ (In(S)' <=> to \in S)
  BY <1>1, <1>2, <1>4 DEF In
<1> QED
  BY <1>1, <1>2, <1>3, <1>4

(* A step that neither writes the queue nor passes a point where the queue *)
(* is in between keeps what is said of the queue.                          *)
LEMMA QueueKept ==
  ASSUME ~ overlapped', TypeOK, TailInv, CodeInv, OwnerInv,
         NEW c \in Context, NEW from, NEW to, Step(c, from, to),
         UNCHANGED <<shared, accepted, popped>>,
         \A S \in {LessAt, MovedAt, PlacedAt, GoneAt, ClearedAt} : from \in S <=> to \in S,
         to \in OwnedAt => from \in OwnedAt
  PROVE  TailInv' /\ CodeInv' /\ OwnerInv'
<1>1. \A S \in {LessAt, MovedAt, PlacedAt, GoneAt, ClearedAt} : In(S)' <=> In(S)
  BY Phases
<1>2. /\ In(LessAt)' <=> In(LessAt)
      /\ In(MovedAt)' <=> In(MovedAt)
      /\ In(PlacedAt)' <=> In(PlacedAt)
      /\ In(GoneAt)' <=> In(GoneAt)
      /\ In(ClearedAt)' <=> In(ClearedAt)
  BY <1>1
<1>3. /\ code' = code /\ owner' = owner /\ head' = head /\ tail' = tail /\ num' = num
      /\ accepted' = accepted /\ popped' = popped
  BY DEF shared
<1>4. Count' = Count
  BY <1>2, <1>3 DEF Count
<1>5. TailInv'
  BY <1>2, <1>3, <1>4 DEF TailInv, Slot
<1>6. CodeInv'
  BY <1>2, <1>3, <1>4 DEF CodeInv, Slot, Slots
<1>7. \A d \in Context : Of(d)' = Of(d)
  BY <1>2, <1>3, <1>4 DEF Of, Queued, Slot, Slots
<1>8. \A d \in Context : pc'[d] \in OwnedAt => pc[d] \in OwnedAt
  BY Phases
<1>9. Slot(head, Count)' = Slot(head, Count)
  BY <1>3, <1>4 DEF Slot
<1>10. \A d \in Context : pc'[d] \in OwnedAt => owner'[Slot(head, Count)'] = d
  BY <1>3, <1>8, <1>9 DEF OwnerInv
<1> QED
  BY <1>3, <1>5, <1>6, <1>7, <1>10 DEF OwnerInv

LEMMA RoomKept ==
  ASSUME ~ overlapped', TypeOK, RoomInv,
         NEW c \in Context, NEW from, NEW to, Step(c, from, to), num' = num,
         to \in RoomAt => num < kEventQueueSize
  PROVE  RoomInv'
<1>1. In(RoomAt)' => to \in RoomAt
  BY Phases
<1> QED
  BY <1>1 DEF RoomInv

LEMMA RegKept ==
  ASSUME ~ overlapped', TypeOK,
         NEW c \in Context, NEW from, NEW to, Step(c, from, to),
         to \in {"check full", "store code"} => arg'[c] \in Code,
         to = "store tail" => reg'[c] = tail',
         to \in {"store count", "store less"} => reg'[c] = num'
  PROVE  RegInv'
<1>1. /\ pc'[c] = to
      /\ \A d \in Context : d # c => pc'[d] = "idle"
  BY Phases
<1> QED
  BY <1>1 DEF RegInv
-----------------------------------------------------------------------------
LEMMA AnswersTyped ==
  /\ \A ok \in BOOLEAN : Answer(ok, NoEvent) \in Answers
  /\ \A e \in Code \cup {kEventNone}, c \in Context :
       Answer(TRUE, [code |-> e, param |-> c]) \in Answers
  BY DEF Answer, NoEvent, Answers, Context
LEMMA RangeInit == Init => TypeOK /\ RangeInv
<1> SUFFICES ASSUME Init PROVE TypeOK /\ RangeInv
  OBVIOUS
<1>1. 0 \in Index /\ Loop \in Context /\ Producer \in Context
  BY Bounds DEF Index, Context
<1>2. answer \in Answers
  BY AnswersTyped DEF Init
<1>3. /\ pc \in [Context -> {"idle"} \cup PushAt \cup PopAt]
      /\ pc[Loop] = "idle" /\ pc[Producer] = "idle"
  BY <1>1 DEF Init
<1>4. TypeOK
  BY <1>1, <1>2, <1>3 DEF TypeOK, Init
<1> QED
  BY <1>3, <1>4 DEF RangeInv, PopAt

(* Where the context that moves goes, and where the other one stays. *)
LEMMA Moves ==
  ASSUME TypeOK, NEW c \in Context, NEW from, NEW to, Step(c, from, to)
  PROVE  /\ pc[c] = from /\ pc'[c] = to
         /\ \A d \in Context : d # c => pc'[d] = pc[d]
         /\ overlapped' \in BOOLEAN
         /\ to \in {"idle"} \cup PushAt \cup PopAt =>
              pc' \in [Context -> {"idle"} \cup PushAt \cup PopAt]
  BY DEF TypeOK, Step

(* A step of queueEvent.  The count it stores is not zero. *)
LEMMA PushRange ==
  ASSUME TypeOK, RangeInv, NEW c \in Context, queueEvent(c)
  PROVE  TypeOK' /\ RangeInv'
<1>1. PICK from \in PushAt \cup {"idle"} : \E to \in PushAt \cup {"idle"} : Step(c, from, to)
  BY DEF queueEvent, Continue, Call, CheckFull, StoreCode, StoreParam, LoadTail,
         StoreTail, LoadCount, StoreCount, PushAt
<1>2. PICK to \in PushAt \cup {"idle"} : Step(c, from, to)
  BY <1>1
<1>3. /\ pc'[c] = to /\ \A d \in Context : d # c => pc'[d] = pc[d]
      /\ pc' \in [Context -> {"idle"} \cup PushAt \cup PopAt] /\ overlapped' \in BOOLEAN
  BY <1>2, Moves
<1>4. /\ Loop \in Context /\ Producer \in Context /\ Loop # Producer
      /\ \A p \in PushAt \cup {"idle"} : p \notin PopAt /\ p # "store less"
  BY DEF Context, Loop, Producer, PushAt, PopAt
<1>5. pc'[Producer] \in PushAt \cup {"idle"}
  BY <1>2, <1>3, <1>4 DEF RangeInv
<1>6. pc'[Loop] \in PopAt \/ pc'[Loop] = "store less" => c # Loop /\ pc'[Loop] = pc[Loop]
  BY <1>2, <1>3, <1>4
<1>7. /\ num' \in Nat /\ (num # 0 => num' # 0)
      /\ reg' \in [Context -> Nat] /\ \A d \in Context : d # c => reg'[d] = reg[d]
      /\ tail' \in Index /\ head' = head
  <2>1. num \in Nat /\ tail \in Index /\ tail \in Nat /\ reg \in [Context -> Nat]
    BY DEF TypeOK, Index
  <2>2. \A n \in Nat : Advance(n) \in Index /\ n + 1 # 0 /\ n + 1 \in Nat
    BY Bounds DEF Advance, Index
  <2> QED
    BY <2>1, <2>2 DEF queueEvent, Continue, Call, CheckFull, StoreCode, StoreParam, LoadTail,
                      StoreTail, LoadCount, StoreCount, shared
<1>8. /\ code' \in [Index -> Code \cup {kEventNone}] /\ owner' \in [Index -> Context]
      /\ arg' \in [Context -> Code \cup {kEventNone}]
  <2>1. /\ code' = code \/ code' = [code EXCEPT ![tail] = arg[c]]
        /\ owner' = owner \/ owner' = [owner EXCEPT ![tail] = c]
        /\ arg' = arg \/ \E e \in Code : arg' = [arg EXCEPT ![c] = e]
    BY DEF queueEvent, Continue, Call, CheckFull, StoreCode, StoreParam, LoadTail,
           StoreTail, LoadCount, StoreCount, shared
  <2>2. arg[c] \in Code \cup {kEventNone}
    BY DEF TypeOK
  <2> QED
    BY <2>1, <2>2 DEF TypeOK
<1>9. /\ calls' \in [Context -> Nat] /\ accepted' \in [Context -> Nat] /\ popped' = popped
  <2>1. /\ calls' = calls \/ calls' = [calls EXCEPT ![c] = @ + 1]
        /\ accepted' = accepted \/ accepted' = [accepted EXCEPT ![c] = @ + 1]
        /\ popped' = popped
    BY DEF queueEvent, Continue, Call, CheckFull, StoreCode, StoreParam, LoadTail,
           StoreTail, LoadCount, StoreCount, shared
  <2> QED
    BY <2>1 DEF TypeOK
<1>10. answer' \in Answers
  BY AnswersTyped DEF TypeOK, queueEvent, Continue, Call, CheckFull, StoreCode, StoreParam,
                      LoadTail, StoreTail, LoadCount, StoreCount
<1>11. TypeOK'
  BY <1>3, <1>7, <1>8, <1>9, <1>10 DEF TypeOK
<1> QED
  BY <1>4, <1>5, <1>6, <1>7, <1>11 DEF RangeInv

(* A step of popEvent.  No one but the loop takes from the count, and what *)
(* it takes one from is not zero.                                          *)
LEMMA PopRange ==
  ASSUME TypeOK, RangeInv, popEvent
  PROVE  TypeOK' /\ RangeInv'
<1>1. PICK from \in PopAt \cup {"idle"} : \E to \in PopAt \cup {"idle"} : Step(Loop, from, to)
  BY DEF popEvent, FindEmpty, CheckEmpty, TakeCode, TakeParam, ClearCode, MoveHead, LoadLess,
         StoreLess, PopAt
<1>2. PICK to \in PopAt \cup {"idle"} : Step(Loop, from, to)
  BY <1>1
<1>3. /\ Loop \in Context /\ Producer \in Context /\ Loop # Producer
  BY DEF Context, Loop, Producer
<1>4. /\ pc[Loop] = from /\ pc'[Loop] = to /\ pc'[Producer] = pc[Producer]
      /\ pc' \in [Context -> {"idle"} \cup PushAt \cup PopAt] /\ overlapped' \in BOOLEAN
  BY <1>2, <1>3, Moves
<1>5. num' \in Nat /\ (pc'[Loop] \in PopAt => num' # 0)
  <2>1. CASE StoreLess
    <3>1. Step(Loop, "store less", "idle") /\ num' = reg[Loop] - 1
      BY <2>1 DEF StoreLess
    <3>2. pc[Loop] = "store less" /\ pc'[Loop] = "idle" /\ reg[Loop] \in Nat
      BY <1>3, <3>1, Moves DEF TypeOK
    <3>3. reg[Loop] # 0
      BY <3>2 DEF RangeInv
    <3>4. \A n \in Nat : n # 0 => n - 1 \in Nat
      OBVIOUS
    <3>5. "idle" \notin PopAt
      BY DEF PopAt
    <3> QED
      BY <3>1, <3>2, <3>3, <3>4, <3>5
  <2>2. CASE FindEmpty
    <3>1. Step(Loop, "idle", "idle") /\ num' = num
      BY <2>2 DEF FindEmpty, shared
    <3>2. pc'[Loop] = "idle" /\ num \in Nat
      BY <1>3, <3>1, Moves DEF TypeOK
    <3> QED
      BY <3>1, <3>2 DEF PopAt
  <2>3. CASE CheckEmpty
    BY <2>3 DEF CheckEmpty, shared, RangeInv, TypeOK
  <2>4. CASE TakeCode \/ TakeParam \/ ClearCode \/ MoveHead \/ LoadLess
    <3>1. \E f \in PopAt : \E g : Step(Loop, f, g)
      BY <2>4 DEF TakeCode, TakeParam, ClearCode, MoveHead, LoadLess, PopAt
    <3>2. pc[Loop] \in PopAt
      BY <1>3, <3>1, Moves
    <3>3. num' = num
      BY <2>4 DEF TakeCode, TakeParam, ClearCode, MoveHead, LoadLess, shared
    <3>4. num # 0 /\ num \in Nat
      BY <3>2 DEF TypeOK, RangeInv
    <3> QED
      BY <3>3, <3>4
  <2> QED
    BY <2>1, <2>2, <2>3, <2>4 DEF popEvent
<1>6. reg' \in [Context -> Nat] /\ (pc'[Loop] = "store less" => reg'[Loop] # 0)
  <2>1. CASE LoadLess
    <3>1. Step(Loop, "load less", "store less") /\ reg' = [reg EXCEPT ![Loop] = num]
      BY <2>1 DEF LoadLess
    <3>2. pc[Loop] = "load less"
      BY <1>3, <3>1, Moves
    <3>3. num # 0 /\ num \in Nat /\ reg \in [Context -> Nat]
      BY <3>2 DEF TypeOK, RangeInv, PopAt
    <3> QED
      BY <1>3, <3>1, <3>3
  <2>2. CASE ~ LoadLess
    <3>1. \E f : \E g \in {"idle", "take", "take param", "clear", "move head", "load less"} :
            Step(Loop, f, g)
      BY <2>2 DEF popEvent, FindEmpty, CheckEmpty, TakeCode, TakeParam, ClearCode, MoveHead,
                  StoreLess
    <3>2. pc'[Loop] # "store less"
      BY <1>3, <3>1, Moves
    <3>3. reg' = reg
      BY <2>2 DEF popEvent, FindEmpty, CheckEmpty, TakeCode, TakeParam, ClearCode, MoveHead,
                  StoreLess
    <3> QED
      BY <3>2, <3>3 DEF TypeOK
  <2> QED
    BY <2>1, <2>2
<1>7. /\ code' \in [Index -> Code \cup {kEventNone}] /\ owner' \in [Index -> Context]
      /\ arg' \in [Context -> Code \cup {kEventNone}] /\ tail' \in Index
  BY DEF TypeOK, popEvent, FindEmpty, CheckEmpty, TakeCode, TakeParam, ClearCode,
         MoveHead, LoadLess, StoreLess, shared
<1>8. head' \in Index
  BY AdvanceValue DEF TypeOK, popEvent, FindEmpty, CheckEmpty, TakeCode, TakeParam,
     ClearCode, MoveHead, LoadLess, StoreLess, shared
<1>9. /\ calls' = calls /\ accepted' = accepted /\ popped' \in [Context -> Nat]
  <2>1. /\ calls' = calls /\ accepted' = accepted
        /\ popped' = popped \/ popped' = [popped EXCEPT ![owner[head]] = @ + 1]
    BY DEF popEvent, FindEmpty, CheckEmpty, TakeCode, TakeParam, ClearCode,
           MoveHead, LoadLess, StoreLess, shared
  <2>2. owner[head] \in Context
    BY DEF TypeOK
  <2> QED
    BY <2>1, <2>2 DEF TypeOK
<1>10. answer' \in Answers
  <2>1. arg[Loop] \in Code \cup {kEventNone} /\ owner[head] \in Context
    BY <1>3 DEF TypeOK
  <2>2. \/ answer' = answer \/ answer' = Answer(FALSE, NoEvent)
        \/ answer' = Answer(TRUE, [code |-> arg[Loop], param |-> owner[head]])
    BY DEF popEvent, FindEmpty, CheckEmpty, TakeCode, TakeParam, ClearCode,
           MoveHead, LoadLess, StoreLess
  <2> QED
    BY <2>1, <2>2, AnswersTyped DEF TypeOK
<1>11. TypeOK'
  BY <1>4, <1>5, <1>6, <1>7, <1>8, <1>9, <1>10 DEF TypeOK
<1> QED
  BY <1>4, <1>5, <1>6, <1>11 DEF RangeInv

LEMMA RangeAlways == Spec => [](TypeOK /\ RangeInv)
<1>1. TypeOK /\ RangeInv /\ [Next]_vars => TypeOK' /\ RangeInv'
  <2> SUFFICES ASSUME TypeOK, RangeInv, [Next]_vars PROVE TypeOK' /\ RangeInv'
    OBVIOUS
  <2>1. CASE UNCHANGED vars
    BY <2>1 DEF vars, shared, RangeInv, TypeOK
  <2> QED
    BY <2>1, PushRange, PopRange DEF Next
<1> QED
  BY <1>1, RangeInit, PTL DEF Spec

(* Nothing keeps a second context out of a call (EventManager.cpp:180-204) *)
(* and yet, wherever it comes in between, no index leaves the array and    *)
(* the count does not go below zero.                                       *)
THEOREM IndicesStayInTheArray == Spec => []TypeOK
  BY RangeAlways, PTL
-----------------------------------------------------------------------------
LEMMA CallStep ==
  ASSUME ~ overlapped', PreemptInv, TypeOK', RangeInv', NEW c \in Context, Call(c)
  PROVE  PreemptInv'
<1> USE DEF PreemptInv
<1>1. Step(c, "idle", "check full")
  BY DEF Call
<1>2. RoomInv'
  BY <1>1, RoomKept
     DEF Call, shared, RoomAt, PushAt, PopAt
<1>3. RegInv'
  BY <1>1, RegKept DEF Call, TypeOK
<1>4. TailInv' /\ CodeInv' /\ OwnerInv'
  BY <1>1, QueueKept DEF Call, PlacedAt, OwnedAt, RoomAt, PushAt, MovedAt, GoneAt,
                           ClearedAt, LessAt
<1> QED
  BY <1>2, <1>3, <1>4

LEMMA CheckFullStep ==
  ASSUME ~ overlapped', PreemptInv, TypeOK', RangeInv', NEW c \in Context, CheckFull(c)
  PROVE  PreemptInv'
<1> USE DEF PreemptInv
<1> DEFINE to == IF isFull THEN "idle" ELSE "store code"
<1>1. Step(c, "check full", to) /\ to \in {"idle"} \cup PushAt
  BY DEF CheckFull, PushAt
<1>2. RoomInv'
  <2>1. num # kEventQueueSize => num < kEventQueueSize
    BY Bounds DEF RoomInv
  <2> QED
    BY <1>1, <2>1, RoomKept
       DEF CheckFull, isFull, shared, RoomAt, PushAt, PopAt
<1>3. RegInv'
  BY <1>1, Phases, RegKept DEF CheckFull, RegInv
<1>4. TailInv' /\ CodeInv' /\ OwnerInv'
  BY <1>1, QueueKept DEF CheckFull, PlacedAt, OwnedAt, RoomAt, PushAt, MovedAt, GoneAt,
                           ClearedAt, LessAt
<1> QED
  BY <1>2, <1>3, <1>4

(* The places of the queue in the invariant, while a context queues. *)
LEMMA PushPlaces ==
  ASSUME PreemptInv, In(RoomAt), ~ In(LessAt)
  PROVE  /\ Count = num /\ num \in 0 .. kEventQueueSize - 1 /\ head \in Index
         /\ Slot(head, num) \in Index
         /\ Slots(head, num) \subseteq Index /\ Slot(head, num) \notin Slots(head, num)
<1>1. Count = num /\ head \in Index /\ num \in 0 .. kEventQueueSize /\ num < kEventQueueSize
  BY DEF PreemptInv, RangeInv, TypeOK, Count, RoomInv
<1>2. num \in 0 .. kEventQueueSize - 1 /\ num \in 0 .. kEventQueueSize
  BY <1>1, Bounds
<1> QED
  BY <1>1, <1>2, SlotValue, SlotAdded, SlotsInIndex

LEMMA StoreCodeStep ==
  ASSUME ~ overlapped', PreemptInv, TypeOK', RangeInv', NEW c \in Context, StoreCode(c)
  PROVE  PreemptInv'
<1> USE DEF PreemptInv
<1>1. Step(c, "store code", "store param")
  BY DEF StoreCode
<1>2. /\ ~ In(LessAt) /\ ~ In(LessAt)' /\ ~ In(MovedAt) /\ ~ In(MovedAt)'
      /\ ~ In(PlacedAt) /\ In(PlacedAt)' /\ In(RoomAt) /\ ~ In(GoneAt) /\ ~ In(GoneAt)'
      /\ ~ In(ClearedAt) /\ ~ In(ClearedAt)'
  BY <1>1, Phases DEF LessAt, MovedAt, PlacedAt, RoomAt, PushAt, GoneAt, ClearedAt
<1>3. tail = Slot(head, num) /\ Count = num /\ Count' = num
  BY <1>2, PushPlaces DEF TailInv, StoreCode, Count
<1>4. arg[c] \in Code /\ kEventNone \notin Code
  BY <1>1, Phases, Bounds DEF RegInv
<1>5. code' = [code EXCEPT ![tail] = arg[c]] /\ tail \in Index
  BY DEF StoreCode, TypeOK
<1>6. RoomInv'
  BY <1>1, <1>2, RoomKept DEF StoreCode, RoomInv, PushAt, PopAt
<1>7. RegInv'
  BY <1>1, RegKept
<1>8. TailInv'
  BY <1>2, <1>3 DEF TailInv, StoreCode, Slot
<1>9. CodeInv'
  <2>1. { i \in Index : code[i] # kEventNone } = Slots(head, num)
    BY <1>2, <1>3 DEF CodeInv
  <2>2. { i \in Index : code'[i] # kEventNone } = Slots(head, num) \cup {tail}
    BY <1>4, <1>5, <2>1 DEF TypeOK
  <2>3. Slots(head, Count)' = Slots(head, num) /\ Slot(head, Count)' = tail /\ head' = head
    BY <1>3 DEF StoreCode, Slots, Slot
  <2> QED
    BY <1>2, <2>2, <2>3 DEF CodeInv
<1>10. OwnerInv'
  <2>1. \A d \in Context : Of(d)' = Of(d)
    BY <1>2, <1>3 DEF Of, Queued, Slot, Slots, StoreCode
  <2>2. \A d \in Context : pc'[d] \notin OwnedAt
    BY <1>1, Phases DEF OwnedAt, PlacedAt, RoomAt, PushAt
  <2> QED
    BY <2>1, <2>2 DEF OwnerInv, StoreCode
<1> QED
  BY <1>6, <1>7, <1>8, <1>9, <1>10

LEMMA StoreParamStep ==
  ASSUME ~ overlapped', PreemptInv, TypeOK', RangeInv', NEW c \in Context, StoreParam(c)
  PROVE  PreemptInv'
<1> USE DEF PreemptInv
<1>1. Step(c, "store param", "load tail")
  BY DEF StoreParam
<1>2. /\ ~ In(LessAt) /\ ~ In(LessAt)' /\ ~ In(MovedAt) /\ ~ In(MovedAt)'
      /\ In(PlacedAt) /\ In(PlacedAt)' /\ In(RoomAt) /\ ~ In(GoneAt) /\ ~ In(GoneAt)'
      /\ ~ In(ClearedAt) /\ ~ In(ClearedAt)'
  <2>1. /\ \A S \in {PlacedAt, RoomAt} : "store param" \in S /\ "load tail" \in S
        /\ \A S \in {LessAt, MovedAt, GoneAt, ClearedAt} :
             "store param" \notin S /\ "load tail" \notin S
    BY DEF LessAt, MovedAt, PlacedAt, RoomAt, PushAt, GoneAt, ClearedAt
  <2> QED
    BY <1>1, <2>1, Phases
<1>3. tail = Slot(head, num) /\ Count = num /\ Count' = num
  BY <1>2, PushPlaces DEF TailInv, StoreParam, Count
<1>4. owner' = [owner EXCEPT ![tail] = c] /\ tail \in Index
  BY DEF StoreParam, TypeOK
<1>5. RoomInv'
  BY <1>1, <1>2, RoomKept DEF StoreParam, RoomInv, PushAt, PopAt
<1>6. RegInv'
  BY <1>1, RegKept
<1>7. TailInv'
  BY <1>2, <1>3 DEF TailInv, StoreParam, Slot
<1>8. CodeInv'
  BY <1>2, <1>3 DEF CodeInv, StoreParam, Slot, Slots
<1>9. OwnerInv'
  <2>1. Queued' = Queued /\ Queued = Slots(head, num)
    BY <1>2, <1>3 DEF Queued, Slot, Slots, StoreParam
  <2>2. \A i \in Slots(head, num) : owner'[i] = owner[i]
    BY <1>2, <1>3, <1>4, PushPlaces DEF TypeOK
  <2>3. \A d \in Context : Of(d)' = Of(d)
    BY <2>1, <2>2 DEF Of
  <2>4. owner'[Slot(head, Count)'] = c
    BY <1>3, <1>4 DEF TypeOK, StoreParam, Slot
  <2>5. \A d \in Context : pc'[d] \in OwnedAt => d = c
    BY <1>1, Phases DEF OwnedAt, PlacedAt, RoomAt, PushAt
  <2> QED
    BY <2>3, <2>4, <2>5 DEF OwnerInv, StoreParam
<1> QED
  BY <1>5, <1>6, <1>7, <1>8, <1>9

LEMMA LoadTailStep ==
  ASSUME ~ overlapped', PreemptInv, TypeOK', RangeInv', NEW c \in Context, LoadTail(c)
  PROVE  PreemptInv'
<1> USE DEF PreemptInv
<1>1. Step(c, "load tail", "store tail")
  BY DEF LoadTail
<1>2. In(RoomAt)
  BY <1>1, Phases DEF RoomAt, PushAt
<1>3. reg' = [reg EXCEPT ![c] = tail] /\ reg'[c] = tail
  BY DEF LoadTail, TypeOK
<1>4. RoomInv'
  BY <1>1, <1>2, RoomKept DEF LoadTail, shared, RoomInv, PushAt, PopAt
<1>5. RegInv'
  BY <1>1, <1>3, RegKept DEF LoadTail, shared
<1>6. TailInv' /\ CodeInv' /\ OwnerInv'
  BY <1>1, QueueKept DEF LoadTail, PlacedAt, OwnedAt, RoomAt, PushAt, MovedAt, GoneAt,
                         ClearedAt, LessAt
<1> QED
  BY <1>4, <1>5, <1>6

LEMMA StoreTailStep ==
  ASSUME ~ overlapped', PreemptInv, TypeOK', RangeInv', NEW c \in Context, StoreTail(c)
  PROVE  PreemptInv'
<1> USE DEF PreemptInv
<1>1. Step(c, "store tail", "load count")
  BY DEF StoreTail
<1>2. /\ ~ In(LessAt) /\ ~ In(LessAt)' /\ ~ In(MovedAt) /\ In(MovedAt)'
      /\ In(PlacedAt) /\ In(PlacedAt)' /\ In(RoomAt) /\ ~ In(GoneAt) /\ ~ In(GoneAt)'
      /\ ~ In(ClearedAt) /\ ~ In(ClearedAt)'
  <2>1. /\ "load count" \in MovedAt /\ "store tail" \notin MovedAt
        /\ \A S \in {PlacedAt, RoomAt} : "store tail" \in S /\ "load count" \in S
        /\ \A S \in {LessAt, GoneAt, ClearedAt} : "store tail" \notin S /\ "load count" \notin S
    BY DEF LessAt, MovedAt, PlacedAt, RoomAt, PushAt, GoneAt, ClearedAt
  <2> QED
    BY <1>1, <2>1, Phases
<1>3. /\ tail = Slot(head, num) /\ Count = num /\ Count' = num /\ head' = head
      /\ num \in 0 .. kEventQueueSize - 1
  BY <1>2, PushPlaces DEF TailInv, StoreTail, Count
<1>4. tail' = Advance(tail)
  BY <1>1, Phases DEF StoreTail, RegInv
<1>5. RoomInv'
  BY <1>1, <1>2, RoomKept DEF StoreTail, RoomInv, PushAt, PopAt
<1>6. RegInv'
  BY <1>1, RegKept
<1>7. TailInv'
  <2>1. Advance(Slot(head, num)) = Slot(head, num + 1)
    BY <1>3, SlotAdded DEF TypeOK
  <2> QED
    BY <1>2, <1>3, <1>4, <2>1 DEF TailInv
<1>8. CodeInv'
  BY <1>2, <1>3 DEF CodeInv, StoreTail, Slot, Slots
<1>9. OwnerInv'
  <2>1. \A d \in Context : Of(d)' = Of(d)
    BY <1>2, <1>3 DEF Of, Queued, Slot, Slots, StoreTail
  <2>2. \A d \in Context : pc'[d] \in OwnedAt => pc[d] \in OwnedAt
    BY <1>1, Phases DEF OwnedAt, PlacedAt, RoomAt, PushAt
  <2>3. Slot(head, Count)' = Slot(head, Count)
    BY <1>3 DEF Slot
  <2> QED
    BY <2>1, <2>2, <2>3 DEF OwnerInv, StoreTail
<1> QED
  BY <1>5, <1>6, <1>7, <1>8, <1>9

LEMMA LoadCountStep ==
  ASSUME ~ overlapped', PreemptInv, TypeOK', RangeInv', NEW c \in Context, LoadCount(c)
  PROVE  PreemptInv'
<1> USE DEF PreemptInv
<1>1. Step(c, "load count", "store count")
  BY DEF LoadCount
<1>2. In(RoomAt)
  BY <1>1, Phases DEF RoomAt, PushAt
<1>3. reg' = [reg EXCEPT ![c] = num] /\ reg'[c] = num
  BY DEF LoadCount, TypeOK
<1>4. RoomInv'
  BY <1>1, <1>2, RoomKept DEF LoadCount, shared, RoomInv, PushAt, PopAt
<1>5. RegInv'
  BY <1>1, <1>3, RegKept DEF LoadCount, shared
<1>6. TailInv' /\ CodeInv' /\ OwnerInv'
  BY <1>1, QueueKept DEF LoadCount, PlacedAt, OwnedAt, RoomAt, PushAt, MovedAt, GoneAt,
                         ClearedAt, LessAt
<1> QED
  BY <1>4, <1>5, <1>6

LEMMA StoreCountStep ==
  ASSUME ~ overlapped', PreemptInv, TypeOK', RangeInv', NEW c \in Context, StoreCount(c)
  PROVE  PreemptInv'
<1> USE DEF PreemptInv
<1>1. Step(c, "store count", "idle")
  BY DEF StoreCount
<1>2. /\ ~ In(LessAt) /\ ~ In(LessAt)' /\ In(MovedAt) /\ ~ In(MovedAt)'
      /\ In(PlacedAt) /\ ~ In(PlacedAt)' /\ In(RoomAt) /\ ~ In(RoomAt)'
      /\ ~ In(GoneAt) /\ ~ In(GoneAt)' /\ ~ In(ClearedAt) /\ ~ In(ClearedAt)'
  <2>1. /\ "store count" \in MovedAt /\ "store count" \in PlacedAt /\ "store count" \in RoomAt
        /\ \A S \in {LessAt, GoneAt, ClearedAt} : "store count" \notin S
        /\ \A S \in {LessAt, MovedAt, PlacedAt, RoomAt, GoneAt, ClearedAt} : "idle" \notin S
    BY DEF LessAt, MovedAt, PlacedAt, RoomAt, PushAt, GoneAt, ClearedAt
  <2> QED
    BY <1>1, <2>1, Phases
<1>3. num' = num + 1
  BY <1>1, Phases DEF StoreCount, RegInv
<1>4. /\ Count = num /\ Count' = num + 1 /\ head' = head /\ head \in Index
      /\ num \in 0 .. kEventQueueSize - 1
  BY <1>2, <1>3, PushPlaces DEF StoreCount, Count
<1> DEFINE s == Slot(head, num)
<1>5. /\ s \in Index /\ s \notin Slots(head, num) /\ Slots(head, num) \subseteq Index
      /\ Slots(head, num + 1) = Slots(head, num) \cup {s}
  BY <1>2, <1>4, PushPlaces, SlotAdded
<1>6. Slots(head, Count)' = Slots(head, num) \cup {s}
  BY <1>4, <1>5 DEF Slots, Slot
<1>7. owner[s] = c /\ owner' = owner /\ tail' = tail /\ code' = code
  <2>1. "store count" \in OwnedAt
    BY DEF OwnedAt, PlacedAt, RoomAt, PushAt
  <2> QED
    BY <1>1, <1>4, <2>1, Phases DEF OwnerInv, StoreCount
<1> HIDE DEF s
<1>8. RoomInv'
  BY ONLY <1>2, <1>3, <1>4, Bounds DEF RoomInv
<1>9. RegInv'
  BY <1>1, RegKept
<1>10. TailInv'
  BY <1>2, <1>4, <1>7 DEF TailInv, Slot
<1>11. CodeInv'
  BY <1>2, <1>4, <1>6, <1>7 DEF CodeInv, s
<1>12. OwnerInv'
  <2>1. Queued = Slots(head, num) /\ Queued' = Slots(head, num) \cup {s}
    BY <1>2, <1>4, <1>6 DEF Queued
  <2>2. Of(c)' = Of(c) \cup {s} /\ s \notin Of(c)
    BY <1>5, <1>7, <2>1 DEF Of
  <2>3. \A d \in Context : d # c => Of(d)' = Of(d)
    BY <1>7, <2>1 DEF Of
  <2>4. Of(c) \in SUBSET Index
    BY <1>5, <2>1 DEF Of
  <2>5. IsFiniteSet(Of(c)) /\ Cardinality(Of(c)) \in Nat
    BY <2>4, SlotsFinite
  <2>6. Cardinality(Of(c)') = Cardinality(Of(c)) + 1
    BY <2>2, <2>5, FS_AddElement
  <2>7. accepted' = [accepted EXCEPT ![c] = @ + 1] /\ popped' = popped
    BY DEF StoreCount
  <2>8. accepted \in [Context -> Nat] /\ popped \in [Context -> Nat]
    BY DEF TypeOK
  <2>9. accepted'[c] - popped'[c] = Cardinality(Of(c)')
    <3>1. accepted'[c] = accepted[c] + 1 /\ accepted[c] \in Int /\ popped[c] \in Int
      BY <2>7, <2>8, Bounds
    <3>2. accepted[c] - popped[c] = Cardinality(Of(c))
      BY DEF OwnerInv
    <3> QED
      BY <2>5, <2>6, <2>7, <3>1, <3>2
  <2>10. \A d \in Context : accepted'[d] - popped'[d] = Cardinality(Of(d)')
    BY <2>3, <2>7, <2>8, <2>9 DEF OwnerInv
  <2>11. \A d \in Context : pc'[d] \notin OwnedAt
    BY <1>1, Phases DEF OwnedAt, PlacedAt, RoomAt, PushAt
  <2> QED
    BY <2>10, <2>11 DEF OwnerInv
<1> QED
  BY <1>8, <1>9, <1>10, <1>11, <1>12
-----------------------------------------------------------------------------
LEMMA FindEmptyStep ==
  ASSUME ~ overlapped', PreemptInv, TypeOK', RangeInv', FindEmpty
  PROVE  PreemptInv'
<1> USE DEF PreemptInv
<1>1. Step(Loop, "idle", "idle") /\ Loop \in Context
  BY DEF FindEmpty, Context
<1>2. RoomInv'
  BY <1>1, RoomKept DEF FindEmpty, shared, RoomAt, PushAt, PopAt
<1>3. RegInv'
  BY <1>1, RegKept
<1>4. TailInv' /\ CodeInv' /\ OwnerInv'
  BY <1>1, QueueKept DEF FindEmpty, PlacedAt, OwnedAt, RoomAt, PushAt
<1> QED
  BY <1>2, <1>3, <1>4

LEMMA CheckEmptyStep ==
  ASSUME ~ overlapped', PreemptInv, TypeOK', RangeInv', CheckEmpty
  PROVE  PreemptInv'
<1> USE DEF PreemptInv
<1>1. Step(Loop, "idle", "take") /\ Loop \in Context
  BY DEF CheckEmpty, Context
<1>2. RoomInv'
  BY <1>1, RoomKept DEF CheckEmpty, shared, RoomAt, PushAt
<1>3. RegInv'
  BY <1>1, RegKept
<1>4. TailInv' /\ CodeInv' /\ OwnerInv'
  BY <1>1, QueueKept DEF CheckEmpty, PlacedAt, OwnedAt, RoomAt, PushAt, MovedAt, GoneAt,
                         ClearedAt, LessAt
<1> QED
  BY <1>2, <1>3, <1>4

(* The places of the queue in the invariant, while the loop pops. *)
LEMMA PopPlaces ==
  ASSUME ~ overlapped', PreemptInv, TypeOK', RangeInv',
         NEW from \in PopAt, NEW to, Step(Loop, from, to)
  PROVE  /\ Loop \in Context /\ num # 0 /\ num \in 1 .. kEventQueueSize /\ head \in Index
         /\ ~ In(PlacedAt) /\ ~ In(MovedAt) /\ ~ In(RoomAt)
         /\ head \in Slots(head, num) /\ Slots(head, num) \subseteq Index
<1>1. Loop \in Context
  BY DEF Context
<1>2. num # 0 /\ num \in 0 .. kEventQueueSize /\ head \in Index
  BY <1>1, Phases DEF PreemptInv, RangeInv, TypeOK, RoomInv
<1>3. num \in 1 .. kEventQueueSize /\ num \in 0 .. kEventQueueSize
  BY <1>2, Bounds
<1>4. from \notin PlacedAt /\ from \notin MovedAt /\ from \notin RoomAt
  BY DEF PlacedAt, RoomAt, MovedAt, PushAt, PopAt
<1>5. ~ In(PlacedAt) /\ ~ In(MovedAt) /\ ~ In(RoomAt)
  BY <1>1, <1>4, Phases DEF PreemptInv, RangeInv
<1> QED
  BY <1>1, <1>2, <1>3, <1>5, SlotRemoved, SlotsInIndex

LEMMA TakeCodeStep ==
  ASSUME ~ overlapped', PreemptInv, TypeOK', RangeInv', TakeCode
  PROVE  PreemptInv'
<1> USE DEF PreemptInv
<1>1. Step(Loop, "take", "take param") /\ "take" \in PopAt /\ Loop \in Context
  BY DEF TakeCode, PopAt, Context
<1>2. RoomInv'
  BY <1>1, RoomKept, PopPlaces DEF TakeCode, shared, RoomAt, PushAt
<1>3. RegInv'
  BY <1>1, RegKept
<1>4. TailInv' /\ CodeInv' /\ OwnerInv'
  BY <1>1, QueueKept DEF TakeCode, PlacedAt, OwnedAt, RoomAt, PushAt, MovedAt, GoneAt,
                         ClearedAt, LessAt
<1> QED
  BY <1>2, <1>3, <1>4

LEMMA LoadLessStep ==
  ASSUME ~ overlapped', PreemptInv, TypeOK', RangeInv', LoadLess
  PROVE  PreemptInv'
<1> USE DEF PreemptInv
<1>1. Step(Loop, "load less", "store less") /\ "load less" \in PopAt /\ Loop \in Context
  BY DEF LoadLess, PopAt, Context
<1>2. reg' = [reg EXCEPT ![Loop] = num] /\ reg'[Loop] = num
  BY <1>1 DEF LoadLess, TypeOK
<1>3. RoomInv'
  BY <1>1, RoomKept, PopPlaces DEF LoadLess, shared, RoomAt, PushAt
<1>4. RegInv'
  BY <1>1, <1>2, RegKept DEF LoadLess, shared
<1>5. TailInv' /\ CodeInv' /\ OwnerInv'
  BY <1>1, QueueKept DEF LoadLess, PlacedAt, OwnedAt, RoomAt, PushAt, MovedAt, GoneAt,
                         ClearedAt, LessAt
<1> QED
  BY <1>3, <1>4, <1>5

LEMMA TakeParamStep ==
  ASSUME ~ overlapped', PreemptInv, TypeOK', RangeInv', TakeParam
  PROVE  PreemptInv'
<1> USE DEF PreemptInv
<1>1. Step(Loop, "take param", "clear") /\ "take param" \in PopAt /\ Loop \in Context
  BY DEF TakeParam, PopAt, Context
<1>2. /\ ~ In(LessAt) /\ ~ In(LessAt)' /\ ~ In(MovedAt) /\ ~ In(MovedAt)'
      /\ ~ In(PlacedAt) /\ ~ In(PlacedAt)' /\ ~ In(GoneAt) /\ In(GoneAt)'
      /\ ~ In(ClearedAt) /\ ~ In(ClearedAt)'
  <2>1. /\ "clear" \in GoneAt /\ "take param" \notin GoneAt
        /\ \A S \in {LessAt, MovedAt, PlacedAt, ClearedAt} :
             "take param" \notin S /\ "clear" \notin S
    BY DEF LessAt, MovedAt, PlacedAt, RoomAt, PushAt, GoneAt, ClearedAt
  <2> QED
    BY <1>1, <2>1, Phases
<1>3. /\ Count = num /\ Count' = num /\ head' = head /\ num' = num /\ tail' = tail
      /\ code' = code /\ owner' = owner
  BY <1>2 DEF Count, TakeParam, shared
<1>4. /\ head \in Index /\ head \in Slots(head, num) /\ Slots(head, num) \subseteq Index
  BY <1>1, PopPlaces
<1>5. PICK o \in Context : /\ owner[head] = o /\ popped' = [popped EXCEPT ![o] = @ + 1]
                           /\ accepted' = accepted
  BY <1>4 DEF TypeOK, TakeParam
<1>6. RoomInv'
  BY <1>1, <1>3, RoomKept, PopPlaces DEF RoomAt, PushAt
<1>7. RegInv'
  BY <1>1, RegKept
<1>8. TailInv'
  BY <1>2, <1>3 DEF TailInv, Slot
<1>9. CodeInv'
  BY <1>2, <1>3 DEF CodeInv, Slot, Slots
<1>10. /\ \A d \in Context : accepted'[d] - popped'[d] = Cardinality(Of(d)')
       /\ \A d \in Context : Cardinality(Of(d)') \in Nat
  <2>1. Queued = Slots(head, num) /\ Queued' = Slots(head, num) \ {head}
    BY <1>2, <1>3 DEF Queued, Slots, Slot
  <2>2. Of(o)' = Of(o) \ {head} /\ head \in Of(o)
    BY <1>3, <1>4, <1>5, <2>1 DEF Of
  <2>3. \A d \in Context : d # o => Of(d)' = Of(d)
    BY <1>3, <1>5, <2>1 DEF Of
  <2>4. \A d \in Context : Of(d) \in SUBSET Index
    BY <1>4, <2>1 DEF Of
  <2>5. \A d \in Context : IsFiniteSet(Of(d)) /\ Cardinality(Of(d)) \in Nat
    BY <2>4, SlotsFinite
  <2>6. Of(o)' \in SUBSET Index
    BY <1>5, <2>2, <2>4
  <2>7. Cardinality(Of(o)') = Cardinality(Of(o)) - 1 /\ Cardinality(Of(o)') \in Nat
    BY <1>5, <2>2, <2>5, <2>6, FS_RemoveElement, SlotsFinite
  <2>8. accepted \in [Context -> Nat] /\ popped \in [Context -> Nat]
    BY DEF TypeOK
  <2>9. accepted'[o] - popped'[o] = Cardinality(Of(o)')
    <3>1. /\ popped'[o] = popped[o] + 1 /\ accepted'[o] = accepted[o]
          /\ accepted[o] \in Int /\ popped[o] \in Int
      BY <1>5, <2>8, Bounds
    <3>2. accepted[o] - popped[o] = Cardinality(Of(o))
      BY <1>5 DEF OwnerInv
    <3> QED
      BY <1>5, <2>5, <2>7, <3>1, <3>2
  <2>10. ASSUME NEW d \in Context, d # o
         PROVE  accepted'[d] - popped'[d] = Cardinality(Of(d)') /\ Cardinality(Of(d)') \in Nat
    <3>1. popped'[d] = popped[d] /\ accepted'[d] = accepted[d] /\ Of(d)' = Of(d)
      BY <1>5, <2>3, <2>8, <2>10
    <3>2. accepted[d] - popped[d] = Cardinality(Of(d)) /\ Cardinality(Of(d)) \in Nat
      BY <2>5 DEF OwnerInv
    <3> QED
      BY <3>1, <3>2
  <2> QED
    BY <2>7, <2>9, <2>10
<1>11. OwnerInv'
  <2>1. pc'[Loop] = "clear" /\ \A d \in Context : d # Loop => pc'[d] = "idle"
    BY <1>1, Phases
  <2>2. \A d \in Context : pc'[d] \notin OwnedAt
    BY <2>1 DEF OwnedAt, PlacedAt, RoomAt, PushAt
  <2> QED
    BY <1>10, <2>2 DEF OwnerInv
<1> QED
  BY <1>6, <1>7, <1>8, <1>9, <1>11

LEMMA ClearCodeStep ==
  ASSUME ~ overlapped', PreemptInv, TypeOK', RangeInv', ClearCode
  PROVE  PreemptInv'
<1> USE DEF PreemptInv
<1>1. Step(Loop, "clear", "move head") /\ "clear" \in PopAt /\ Loop \in Context
  BY DEF ClearCode, PopAt, Context
<1>2. /\ ~ In(LessAt) /\ ~ In(LessAt)' /\ ~ In(MovedAt) /\ ~ In(MovedAt)'
      /\ ~ In(PlacedAt) /\ ~ In(PlacedAt)' /\ In(GoneAt) /\ In(GoneAt)'
      /\ ~ In(ClearedAt) /\ In(ClearedAt)'
  <2>1. /\ "clear" \in GoneAt /\ "move head" \in GoneAt /\ "move head" \in ClearedAt
        /\ "clear" \notin ClearedAt
        /\ \A S \in {LessAt, MovedAt, PlacedAt} : "clear" \notin S /\ "move head" \notin S
    BY DEF LessAt, MovedAt, PlacedAt, RoomAt, PushAt, GoneAt, ClearedAt
  <2> QED
    BY <1>1, <2>1, Phases
<1>3. /\ Count = num /\ Count' = num /\ head' = head /\ owner' = owner
      /\ accepted' = accepted /\ popped' = popped
  BY <1>2 DEF Count, ClearCode
<1>4. head \in Index /\ head \in Slots(head, num) /\ Slots(head, num) \subseteq Index
  BY <1>1, PopPlaces
<1>5. code' = [code EXCEPT ![head] = kEventNone]
  BY DEF ClearCode
<1>6. RoomInv'
  BY <1>1, RoomKept, PopPlaces DEF ClearCode, RoomAt, PushAt
<1>7. RegInv'
  BY <1>1, RegKept
<1>8. TailInv'
  BY <1>2, <1>3 DEF TailInv, Slot, ClearCode
<1>9. CodeInv'
  <2>1. { i \in Index : code[i] # kEventNone } = Slots(head, num)
    BY <1>2, <1>3 DEF CodeInv
  <2>2. { i \in Index : code'[i] # kEventNone } = Slots(head, num) \ {head}
    BY <1>4, <1>5, <2>1 DEF TypeOK
  <2>3. Slots(head, Count)' = Slots(head, num)
    BY <1>3 DEF Slots, Slot
  <2> QED
    BY <1>2, <1>3, <2>2, <2>3 DEF CodeInv
<1>10. OwnerInv'
  <2>1. \A d \in Context : Of(d)' = Of(d)
    BY <1>2, <1>3 DEF Of, Queued, Slots, Slot
  <2>2. pc'[Loop] = "move head" /\ \A d \in Context : d # Loop => pc'[d] = "idle"
    BY <1>1, Phases
  <2>3. \A d \in Context : pc'[d] \notin OwnedAt
    BY <2>2 DEF OwnedAt, PlacedAt, RoomAt, PushAt
  <2> QED
    BY <1>3, <2>1, <2>3 DEF OwnerInv
<1> QED
  BY <1>6, <1>7, <1>8, <1>9, <1>10

LEMMA MoveHeadStep ==
  ASSUME ~ overlapped', PreemptInv, TypeOK', RangeInv', MoveHead
  PROVE  PreemptInv'
<1> USE DEF PreemptInv
<1>1. Step(Loop, "move head", "load less") /\ "move head" \in PopAt /\ Loop \in Context
  BY DEF MoveHead, PopAt, Context
<1>2. /\ ~ In(LessAt) /\ In(LessAt)' /\ ~ In(MovedAt) /\ ~ In(MovedAt)'
      /\ ~ In(PlacedAt) /\ ~ In(PlacedAt)' /\ In(GoneAt) /\ ~ In(GoneAt)'
      /\ In(ClearedAt) /\ ~ In(ClearedAt)'
  <2>1. /\ "move head" \in GoneAt /\ "move head" \in ClearedAt /\ "load less" \in LessAt
        /\ \A S \in {LessAt, MovedAt, PlacedAt} : "move head" \notin S
        /\ \A S \in {GoneAt, ClearedAt, MovedAt, PlacedAt} : "load less" \notin S
    BY DEF LessAt, MovedAt, PlacedAt, RoomAt, PushAt, GoneAt, ClearedAt
  <2> QED
    BY <1>1, <2>1, Phases
<1>3. /\ Count = num /\ Count' = num - 1 /\ head' = Advance(head) /\ owner' = owner
      /\ accepted' = accepted /\ popped' = popped /\ tail' = tail /\ code' = code
  BY <1>2 DEF Count, MoveHead
<1>4. num \in 1 .. kEventQueueSize /\ head \in Index
  BY <1>1, PopPlaces
<1>5. /\ Slots(Advance(head), num - 1) = Slots(head, num) \ {head}
      /\ Slot(Advance(head), num - 1) = Slot(head, num)
      /\ Advance(head) \in Index
  BY <1>4, SlotRemoved, AdvanceValue
<1>6. Slots(head, Count)' = Slots(head, num) \ {head} /\ Slot(head, Count)' = Slot(head, num)
  BY <1>3, <1>5 DEF Slots, Slot
<1>7. RoomInv'
  BY <1>1, RoomKept, PopPlaces DEF MoveHead, RoomAt, PushAt
<1>8. RegInv'
  BY <1>1, RegKept
<1>9. TailInv'
  BY <1>2, <1>3, <1>6 DEF TailInv
<1>10. CodeInv'
  BY <1>2, <1>3, <1>6 DEF CodeInv
<1>11. OwnerInv'
  <2>1. Queued' = Queued
    BY <1>2, <1>3, <1>6 DEF Queued
  <2>2. \A d \in Context : Of(d)' = Of(d)
    BY <1>3, <2>1 DEF Of
  <2>3. pc'[Loop] = "load less" /\ \A d \in Context : d # Loop => pc'[d] = "idle"
    BY <1>1, Phases
  <2>4. \A d \in Context : pc'[d] \notin OwnedAt
    BY <2>3 DEF OwnedAt, PlacedAt, RoomAt, PushAt
  <2> QED
    BY <1>3, <2>2, <2>4 DEF OwnerInv
<1> QED
  BY <1>7, <1>8, <1>9, <1>10, <1>11

LEMMA StoreLessStep ==
  ASSUME ~ overlapped', PreemptInv, TypeOK', RangeInv', StoreLess
  PROVE  PreemptInv'
<1> USE DEF PreemptInv
<1>1. Step(Loop, "store less", "idle") /\ "store less" \in PopAt /\ Loop \in Context
  BY DEF StoreLess, PopAt, Context
<1>2. /\ In(LessAt) /\ ~ In(LessAt)' /\ ~ In(MovedAt) /\ ~ In(MovedAt)' /\ ~ In(RoomAt)'
      /\ ~ In(PlacedAt) /\ ~ In(PlacedAt)' /\ ~ In(GoneAt) /\ ~ In(GoneAt)'
      /\ ~ In(ClearedAt) /\ ~ In(ClearedAt)'
  <2>1. /\ "store less" \in LessAt
        /\ \A S \in {LessAt, MovedAt, PlacedAt, RoomAt, GoneAt, ClearedAt} : "idle" \notin S
        /\ \A S \in {GoneAt, ClearedAt, MovedAt, PlacedAt} : "store less" \notin S
    BY DEF LessAt, MovedAt, PlacedAt, RoomAt, PushAt, GoneAt, ClearedAt
  <2> QED
    BY <1>1, <2>1, Phases
<1>3. num' = num - 1 /\ num \in 1 .. kEventQueueSize
  BY <1>1, Phases, PopPlaces DEF StoreLess, RegInv
<1>4. /\ Count = num - 1 /\ Count' = num - 1 /\ head' = head /\ owner' = owner
      /\ accepted' = accepted /\ popped' = popped /\ tail' = tail /\ code' = code
  BY <1>2, <1>3 DEF Count, StoreLess
<1>5. /\ pc'[Loop] = "idle"
      /\ \A d \in Context : d # Loop => pc'[d] = "idle"
  BY <1>1, Phases
<1>6. RoomInv'
  BY ONLY <1>2, <1>3, Bounds DEF RoomInv
<1>7. RegInv'
  BY <1>1, RegKept
<1>8. TailInv'
  BY <1>2, <1>4 DEF TailInv, Slot
<1>9. CodeInv'
  BY <1>2, <1>4 DEF CodeInv, Slot, Slots
<1>10. OwnerInv'
  <2>1. \A d \in Context : Of(d)' = Of(d)
    BY <1>2, <1>4 DEF Of, Queued, Slots, Slot
  <2>2. \A d \in Context : pc'[d] \notin OwnedAt
    BY <1>5 DEF OwnedAt, PlacedAt, RoomAt, PushAt
  <2> QED
    BY <1>4, <2>1, <2>2 DEF OwnerInv
<1> QED
  BY <1>6, <1>7, <1>8, <1>9, <1>10
-----------------------------------------------------------------------------
LEMMA PreemptInit == Init => PreemptInv
<1> SUFFICES ASSUME Init PROVE PreemptInv
  OBVIOUS
<1>1. /\ code = [i \in Index |-> kEventNone] /\ owner = [i \in Index |-> Loop]
      /\ head = 0 /\ tail = 0 /\ num = 0
      /\ \A c \in Context : pc[c] = "idle"
      /\ \A c \in Context : accepted[c] = 0 /\ popped[c] = 0
  BY DEF Init
<1>2. 0 \in Index
  BY Bounds DEF Index
<1>3. /\ ~ In(LessAt) /\ ~ In(MovedAt) /\ ~ In(PlacedAt) /\ ~ In(RoomAt) /\ ~ In(ClearedAt)
      /\ ~ In(GoneAt)
  <2>1. \A S \in {LessAt, MovedAt, PlacedAt, RoomAt, GoneAt, ClearedAt} : "idle" \notin S
    BY IdleIsNowhere
  <2> QED
    BY <1>1, <2>1 DEF In
<1>4. Count = 0 /\ Slots(head, Count) = {} /\ Slot(head, Count) = 0
  <2>1. Count = 0
    BY <1>1, <1>3 DEF Count
  <2>2. 0 .. 0 - 1 = {}
    OBVIOUS
  <2>3. 0 \in 0 .. kEventQueueSize
    BY Bounds
  <2>4. Slot(0, 0) = 0
    BY <1>2, <2>3, SlotValue, Bounds
  <2> QED
    BY <1>1, <2>1, <2>2, <2>4 DEF Slots
<1>5. RoomInv
  BY <1>1, <1>3, Bounds DEF RoomInv
<1>6. RegInv
  BY <1>1 DEF RegInv
<1>7. TailInv
  BY <1>1, <1>3, <1>4 DEF TailInv
<1>8. CodeInv
  BY <1>1, <1>3, <1>4 DEF CodeInv
<1>9. OwnerInv
  <2>1. \A c \in Context : Of(c) = {}
    BY <1>4 DEF Of, Queued
  <2>2. Cardinality({}) = 0
    BY FS_EmptySet
  <2>3. "idle" \notin OwnedAt
    BY DEF OwnedAt, PlacedAt, RoomAt, PushAt
  <2> QED
    BY <1>1, <2>1, <2>2, <2>3 DEF OwnerInv
<1> QED
  BY RangeInit, <1>5, <1>6, <1>7, <1>8, <1>9 DEF PreemptInv

LEMMA PreemptStuttering ==
  ASSUME PreemptInv, TypeOK', RangeInv', UNCHANGED vars
  PROVE  PreemptInv'
<1> USE DEF PreemptInv
<1>1. /\ code' = code /\ owner' = owner /\ head' = head /\ tail' = tail /\ num' = num
      /\ pc' = pc /\ reg' = reg /\ arg' = arg
      /\ accepted' = accepted /\ popped' = popped
  BY DEF vars, shared
<1>2. \A S : In(S)' <=> In(S)
  BY <1>1 DEF In
<1>3. Count' = Count
  BY <1>1, <1>2 DEF Count
<1>4. Slots(head, Count)' = Slots(head, Count) /\ Slot(head, Count)' = Slot(head, Count)
  BY <1>1, <1>3 DEF Slots, Slot
<1>5. RoomInv' /\ RegInv'
  BY <1>1, <1>2 DEF RoomInv, RegInv
<1>6. TailInv' /\ CodeInv'
  BY <1>1, <1>2, <1>3, <1>4 DEF TailInv, CodeInv, Slot
<1>7. OwnerInv'
  <2>1. \A c \in Context : Of(c)' = Of(c)
    BY <1>1, <1>2, <1>3, <1>4 DEF Of, Queued
  <2> QED
    BY <1>1, <1>4, <2>1 DEF OwnerInv
<1> QED
  BY <1>5, <1>6, <1>7

LEMMA PreemptStep ==
  ASSUME PreemptInv, TypeOK', RangeInv', [Next]_vars, ~ overlapped'
  PROVE  PreemptInv'
<1>1. CASE popEvent
  BY <1>1, FindEmptyStep, CheckEmptyStep, TakeCodeStep, TakeParamStep, ClearCodeStep,
     MoveHeadStep, LoadLessStep, StoreLessStep DEF popEvent
<1>2. ASSUME NEW c \in Context, queueEvent(c) PROVE PreemptInv'
  BY <1>2, CallStep, CheckFullStep, StoreCodeStep, StoreParamStep, LoadTailStep,
     StoreTailStep, LoadCountStep, StoreCountStep DEF queueEvent, Continue
<1>3. CASE UNCHANGED vars
  BY <1>3, PreemptStuttering
<1> QED
  BY <1>1, <1>2, <1>3 DEF Next

LEMMA InvIsSafe == PreemptInv => SafeForTwoContexts
<1>1. ASSUME PreemptInv, \A c \in Context : Idle(c)
      PROVE  /\ tail = (head + num) % kEventQueueSize
             /\ { i \in Index : code[i] # kEventNone } = Live
             /\ \A c \in Context :
                  accepted[c] - popped[c] = Cardinality({ i \in Live : owner[i] = c })
  <2>1. \A S \in {LessAt, MovedAt, PlacedAt, GoneAt, ClearedAt} : "idle" \notin S
    BY IdleIsNowhere
  <2>2. ~ In(LessAt) /\ ~ In(MovedAt) /\ ~ In(PlacedAt) /\ ~ In(GoneAt) /\ ~ In(ClearedAt)
    BY <1>1, <2>1 DEF In, Idle
  <2>3. Count = num
    BY <2>2 DEF Count
  <2>4. Slots(head, num) = Live
    BY DEF Slots, Slot, Live
  <2>5. tail = (head + num) % kEventQueueSize
    BY <1>1, <2>2, <2>3 DEF PreemptInv, TailInv, Slot
  <2>6. { i \in Index : code[i] # kEventNone } = Live
    BY <1>1, <2>2, <2>3, <2>4 DEF PreemptInv, CodeInv
  <2>7. \A c \in Context : Of(c) = { i \in Live : owner[i] = c }
    BY <2>2, <2>3, <2>4 DEF Of, Queued
  <2>8. \A c \in Context : accepted[c] - popped[c] = Cardinality({ i \in Live : owner[i] = c })
    BY <1>1, <2>7 DEF PreemptInv, OwnerInv
  <2> QED
    BY <2>5, <2>6, <2>8
<1> QED
  BY <1>1 DEF SafeForTwoContexts
-----------------------------------------------------------------------------
(* The events in n slots from h on, of an array of codes and one of        *)
(* parameters.                                                             *)
Stretch(cd, ow, h, n) ==
  [k \in 1 .. n |-> [code |-> cd[Slot(h, k - 1)], param |-> ow[Slot(h, k - 1)]]]

LEMMA StretchIsSeq ==
  ASSUME NEW cd, NEW ow \in [Index -> Context], NEW h \in Index, NEW n \in 0 .. kEventQueueSize,
         \A i \in Slots(h, n) : cd[i] \in Code
  PROVE  /\ Stretch(cd, ow, h, n) \in Seq(Event) /\ Len(Stretch(cd, ow, h, n)) = n
         /\ \A k \in 1 .. n : /\ Slot(h, k - 1) \in Slots(h, n)
                              /\ Stretch(cd, ow, h, n)[k]
                                   = [code |-> cd[Slot(h, k - 1)], param |-> ow[Slot(h, k - 1)]]
<1>1. n \in Nat
  BY Bounds
<1>2. \A k \in 1 .. n : k - 1 \in 0 .. n - 1
  BY <1>1
<1>3. \A k \in 1 .. n : Slot(h, k - 1) \in Slots(h, n)
  BY <1>2 DEF Slots
<1>4. \A k \in 1 .. n : cd[Slot(h, k - 1)] \in Code /\ ow[Slot(h, k - 1)] \in Context
  BY <1>3, SlotsInIndex
<1> DEFINE s == Stretch(cd, ow, h, n)
<1>5. s \in [1 .. n -> Event]
  BY <1>4 DEF Stretch, Event
<1>6. \A k \in 1 .. n : s[k] = [code |-> cd[Slot(h, k - 1)], param |-> ow[Slot(h, k - 1)]]
  BY DEF Stretch
<1> HIDE DEF s
<1>7. s \in Seq(Event) /\ Len(s) = n
  BY <1>1, <1>5
<1> QED
  BY <1>3, <1>6, <1>7 DEF s

(* What is written outside the stretch does not change it. *)
LEMMA StretchKept ==
  ASSUME NEW cd, NEW ow, NEW cd2, NEW ow2, NEW h \in Index, NEW n \in 0 .. kEventQueueSize,
         \A i \in Slots(h, n) : cd2[i] = cd[i] /\ ow2[i] = ow[i]
  PROVE  Stretch(cd2, ow2, h, n) = Stretch(cd, ow, h, n)
<1>1. \A k \in 1 .. n : k - 1 \in 0 .. n - 1
  BY Bounds
<1>2. \A k \in 1 .. n : Slot(h, k - 1) \in Slots(h, n)
  BY <1>1 DEF Slots
<1> QED
  BY <1>2 DEF Stretch

LEMMA StretchLonger ==
  ASSUME NEW cd, NEW ow \in [Index -> Context], NEW h \in Index,
         NEW n \in 0 .. kEventQueueSize - 1,
         \A i \in Slots(h, n + 1) : cd[i] \in Code
  PROVE  Stretch(cd, ow, h, n + 1)
           = Append(Stretch(cd, ow, h, n), [code |-> cd[Slot(h, n)], param |-> ow[Slot(h, n)]])
<1> DEFINE s == Stretch(cd, ow, h, n)
           t == Stretch(cd, ow, h, n + 1)
           e == [code |-> cd[Slot(h, n)], param |-> ow[Slot(h, n)]]
<1>1. n \in Nat /\ n \in 0 .. kEventQueueSize /\ n + 1 \in 0 .. kEventQueueSize
  BY Bounds
<1>2. Slots(h, n + 1) = Slots(h, n) \cup {Slot(h, n)}
  BY SlotAdded
<1>3. /\ s \in Seq(Event) /\ Len(s) = n
      /\ \A k \in 1 .. n : s[k] = [code |-> cd[Slot(h, k - 1)], param |-> ow[Slot(h, k - 1)]]
  BY <1>1, <1>2, StretchIsSeq
<1>4. /\ t \in Seq(Event) /\ Len(t) = n + 1
      /\ \A k \in 1 .. n + 1 : t[k] = [code |-> cd[Slot(h, k - 1)], param |-> ow[Slot(h, k - 1)]]
  BY <1>1, StretchIsSeq
<1>5. e \in Event
  BY <1>1, <1>2, SlotValue DEF Event
<1> HIDE DEF s, t
<1>6. t[n + 1] = e
  <2>1. n + 1 - 1 = n /\ n + 1 \in 1 .. n + 1
    BY <1>1
  <2> QED
    BY <1>4, <2>1
<1> HIDE DEF e
<1>7. /\ Append(s, e) \in Seq(Event) /\ Len(Append(s, e)) = n + 1
      /\ \A k \in 1 .. n : Append(s, e)[k] = s[k]
      /\ Append(s, e)[n + 1] = e
  BY <1>3, <1>5, AppendProperties
<1>8. ASSUME NEW k \in 1 .. n + 1 PROVE t[k] = Append(s, e)[k]
  <2>1. CASE k = n + 1
    BY <1>6, <1>7, <2>1
  <2>2. CASE k # n + 1
    <3>1. k \in 1 .. n
      BY <1>1, <2>2
    <3> QED
      BY <1>3, <1>4, <1>7, <3>1
  <2> QED
    BY <2>1, <2>2
<1> QED
  BY <1>4, <1>7, <1>8, SeqEqual DEF s, t, e

LEMMA StretchShorter ==
  ASSUME NEW cd, NEW ow \in [Index -> Context], NEW h \in Index, NEW n \in 1 .. kEventQueueSize,
         \A i \in Slots(h, n) : cd[i] \in Code
  PROVE  /\ Stretch(cd, ow, h, n) # << >>
         /\ Head(Stretch(cd, ow, h, n)) = [code |-> cd[h], param |-> ow[h]]
         /\ Tail(Stretch(cd, ow, h, n)) = Stretch(cd, ow, Advance(h), n - 1)
<1> DEFINE s == Stretch(cd, ow, h, n)
           a == Advance(h)
           t == Stretch(cd, ow, a, n - 1)
<1>1. /\ n \in Nat \ {0} /\ n \in 0 .. kEventQueueSize /\ n - 1 \in 0 .. kEventQueueSize
      /\ n - 1 \in Nat /\ 0 \in 0 .. kEventQueueSize
  BY Bounds
<1>2. a \in Index /\ Slots(a, n - 1) = Slots(h, n) \ {h}
  BY AdvanceValue, SlotRemoved
<1>3. \A k \in 1 .. n - 1 : Slot(a, k - 1) = Slot(h, k)
  <2> TAKE k \in 1 .. n - 1
  <2>1. k \in 1 .. kEventQueueSize
    BY <1>1, Bounds
  <2> QED
    BY <2>1, SlotRemoved
<1> HIDE DEF a
<1>4. /\ s \in Seq(Event) /\ Len(s) = n
      /\ \A k \in 1 .. n : s[k] = [code |-> cd[Slot(h, k - 1)], param |-> ow[Slot(h, k - 1)]]
  BY <1>1, StretchIsSeq
<1>5. /\ t \in Seq(Event) /\ Len(t) = n - 1
      /\ \A k \in 1 .. n - 1 : t[k] = [code |-> cd[Slot(a, k - 1)], param |-> ow[Slot(a, k - 1)]]
  BY <1>1, <1>2, StretchIsSeq
<1>6. Slot(h, 0) = h
  BY <1>1, SlotValue, Bounds DEF Index
<1> HIDE DEF s, t
<1>7. s # << >>
  BY <1>1, <1>4, EmptySeq
<1>8. Head(s) = [code |-> cd[h], param |-> ow[h]]
  <2>1. 1 \in 1 .. n /\ 1 - 1 = 0
    BY <1>1
  <2>2. s[1] = [code |-> cd[h], param |-> ow[h]]
    BY <1>4, <1>6, <2>1
  <2>3. Head(s) = s[1]
    BY <1>4, <1>7
  <2> QED
    BY <2>2, <2>3
<1>9. Tail(s) = t
  <2>1. /\ Tail(s) \in Seq(Event) /\ Len(Tail(s)) = n - 1
        /\ \A k \in 1 .. n - 1 : Tail(s)[k] = s[k + 1]
    BY <1>4, <1>7, HeadTailProperties
  <2>2. ASSUME NEW k \in 1 .. n - 1 PROVE Tail(s)[k] = t[k]
    <3>1. k + 1 \in 1 .. n /\ k + 1 - 1 = k
      BY <1>1
    <3>2. s[k + 1] = [code |-> cd[Slot(h, k)], param |-> ow[Slot(h, k)]]
      BY <1>4, <3>1
    <3>3. t[k] = [code |-> cd[Slot(h, k)], param |-> ow[Slot(h, k)]]
      BY <1>5, <1>3
    <3> QED
      BY <2>1, <3>2, <3>3
  <2> QED
    BY <1>5, <2>1, <2>2, SeqEqual
<1> QED
  BY <1>7, <1>8, <1>9 DEF s, t, a
-----------------------------------------------------------------------------
(* The refinement.  Only the loop pops, so where it is tells how much of   *)
(* the queue is still to come; this much is whole at every step.           *)
LEMMA FirstAndHeld ==
  /\ RangeInv => /\ First = IF In(GoneAt) THEN Advance(head) ELSE head
                 /\ Held = IF In(GoneAt) \/ In(LessAt) THEN num - 1 ELSE num
  /\ RangeInv' => /\ First' = IF In(GoneAt)' THEN Advance(head') ELSE head'
                  /\ Held' = IF In(GoneAt)' \/ In(LessAt)' THEN num' - 1 ELSE num'
<1>1. \A S \in {GoneAt, LessAt} : S \cap (PushAt \cup {"idle"}) = {}
  BY DEF GoneAt, LessAt, PushAt
<1>2. ASSUME NEW S \in {GoneAt, LessAt}
      PROVE  /\ RangeInv => (In(S) <=> pc[Loop] \in S)
             /\ RangeInv' => (In(S)' <=> pc'[Loop] \in S)
  BY <1>1 DEF RangeInv, In, Context
<1>3. /\ RangeInv => (In(GoneAt) <=> Gone) /\ (In(LessAt) <=> pc[Loop] \in LessAt)
      /\ RangeInv' => (In(GoneAt)' <=> Gone') /\ (In(LessAt)' <=> pc'[Loop] \in LessAt)
  BY <1>2 DEF Gone, GoneAt
<1> QED
  BY <1>3 DEF First, Held, LessAt

LEMMA ContentsIsStretch ==
  /\ Contents = Stretch(code, owner, First, Held)
  /\ Contents' = Stretch(code', owner', First', Held')
  BY DEF Contents, Stretch, Slot

LEMMA ContentsWhole ==
  ASSUME PreemptInv
  PROVE  /\ First \in Index /\ Held \in 0 .. kEventQueueSize
         /\ \A i \in Slots(First, Held) : code[i] \in Code
         /\ Contents \in Seq(Event) /\ Len(Contents) = Held
<1>1. /\ head \in Index /\ num \in 0 .. kEventQueueSize
      /\ owner \in [Index -> Context] /\ code \in [Index -> Code \cup {kEventNone}]
  BY DEF PreemptInv, RangeInv, TypeOK, RoomInv
<1>2. /\ First = IF In(GoneAt) THEN Advance(head) ELSE head
      /\ Held = IF In(GoneAt) \/ In(LessAt) THEN num - 1 ELSE num
  BY FirstAndHeld DEF PreemptInv, RangeInv
<1>3. In(GoneAt) \/ In(LessAt) => num \in 1 .. kEventQueueSize
  <2>1. \A S \in {GoneAt, LessAt} : S \cap (PushAt \cup {"idle"}) = {} /\ S \subseteq PopAt
    BY DEF GoneAt, LessAt, PushAt, PopAt
  <2>2. In(GoneAt) \/ In(LessAt) => pc[Loop] \in PopAt
    BY <2>1 DEF PreemptInv, RangeInv, In, Context
  <2>3. pc[Loop] \in PopAt => num # 0
    BY DEF PreemptInv, RangeInv
  <2> QED
    BY ONLY <1>1, <2>2, <2>3, Bounds
<1>4. ~ (In(GoneAt) /\ In(LessAt))
  <2>1. \A S \in {GoneAt, LessAt} : S \cap (PushAt \cup {"idle"}) = {}
    BY DEF GoneAt, LessAt, PushAt
  <2>2. GoneAt \cap LessAt = {}
    BY DEF GoneAt, LessAt
  <2> QED
    BY <2>1, <2>2 DEF PreemptInv, RangeInv, In, Context
<1>5. First \in Index /\ Held \in 0 .. kEventQueueSize
  BY <1>1, <1>2, <1>3, AdvanceValue, Bounds
<1>6. Slots(First, Held) \subseteq Slots(head, Count) \ (IF In(ClearedAt) THEN {head} ELSE {})
  <2>1. CASE In(GoneAt)
    <3>1. First = Advance(head) /\ Held = num - 1 /\ Count = num /\ num \in 1 .. kEventQueueSize
      BY <1>2, <1>3, <1>4, <2>1 DEF Count
    <3> QED
      BY <1>1, <3>1, SlotRemoved
  <2>2. CASE ~ In(GoneAt)
    <3>1. ~ In(ClearedAt)
      BY <2>2 DEF In, GoneAt, ClearedAt
    <3>2. First = head /\ Held = Count
      BY <1>2, <2>2 DEF Count
    <3> QED
      BY <3>1, <3>2
  <2> QED
    BY <2>1, <2>2
<1>7. Slots(First, Held) \subseteq { i \in Index : code[i] # kEventNone }
  BY <1>6 DEF PreemptInv, RangeInv, CodeInv
<1>8. \A i \in Slots(First, Held) : code[i] \in Code
  BY <1>1, <1>7
<1>9. Contents \in Seq(Event) /\ Len(Contents) = Held
  BY <1>1, <1>5, <1>8, StretchIsSeq, ContentsIsStretch
<1> QED
  BY <1>5, <1>8, <1>9

(* A step that writes only outside of what is still to come keeps it. *)
LEMMA ContentsKept ==
  ASSUME PreemptInv, First' = First, Held' = Held,
         \A i \in Slots(First, Held) : code'[i] = code[i] /\ owner'[i] = owner[i]
  PROVE  Contents' = Contents
<1>1. First \in Index /\ Held \in 0 .. kEventQueueSize
  BY ContentsWhole
<1>2. Stretch(code', owner', First, Held) = Stretch(code, owner, First, Held)
  BY <1>1, StretchKept
<1> QED
  BY <1>2, ContentsIsStretch

(* A step that passes no point where an event is counted in or taken.      *)
LEMMA QuietStep ==
  ASSUME ~ overlapped', PreemptInv, PreemptInv',
         NEW c \in Context, NEW from, NEW to, Step(c, from, to),
         \A S \in {GoneAt, LessAt} : from \in S <=> to \in S,
         head' = head, num' = num,
         \A i \in Slots(First, Held) : code'[i] = code[i] /\ owner'[i] = owner[i]
  PROVE  Contents' = Contents
<1>1. (In(GoneAt)' <=> In(GoneAt)) /\ (In(LessAt)' <=> In(LessAt))
  BY Phases DEF PreemptInv, RangeInv
<1>2. First' = First /\ Held' = Held
  BY <1>1, FirstAndHeld DEF PreemptInv, RangeInv
<1> QED
  BY <1>2, ContentsKept

(* The code that popEvent hands out is the one it still holds at the head: *)
(* no one else writes there between the two reads.                         *)
ArgInv == pc[Loop] = "take param" => arg[Loop] = code[head]

LEMMA ArgInit == Init => ArgInv
  BY DEF Init, ArgInv, Context

LEMMA ArgElsewhere ==
  ASSUME ~ overlapped', PreemptInv, TypeOK', RangeInv',
         NEW c \in Context, NEW from, NEW to, Step(c, from, to), to # "take param"
  PROVE  ArgInv'
<1>1. pc'[c] = to /\ \A d \in Context : d # c => pc'[d] = "idle"
  BY Phases DEF PreemptInv, RangeInv
<1> QED
  BY <1>1 DEF ArgInv, Context

LEMMA ArgStep ==
  ASSUME PreemptInv, TypeOK', RangeInv', ArgInv, [Next]_vars, ~ overlapped'
  PROVE  ArgInv'
<1>1. ASSUME TakeCode PROVE ArgInv'
  <2>1. arg'[Loop] = code[head] /\ code' = code /\ head' = head
    BY <1>1 DEF TakeCode, shared, PreemptInv, RangeInv, TypeOK, Context
  <2> QED
    BY <2>1 DEF ArgInv
<1>2. ASSUME popEvent, ~ TakeCode PROVE ArgInv'
  <2>1. Loop \in Context
    BY DEF Context
  <2>2. \E from : \E to \in {"idle", "take", "clear", "move head", "load less",
                             "store less"} : Step(Loop, from, to)
    BY <1>2 DEF popEvent, FindEmpty, CheckEmpty, TakeParam, ClearCode, MoveHead,
                LoadLess, StoreLess
  <2> QED
    BY <2>1, <2>2, ArgElsewhere
<1>3. ASSUME NEW c \in Context, queueEvent(c) PROVE ArgInv'
  <2>1. \E from : \E to \in {"check full", "idle", "store code", "store param", "load tail",
                             "store tail", "load count", "store count"} : Step(c, from, to)
    BY <1>3 DEF queueEvent, Continue, Call, CheckFull, StoreCode, StoreParam, LoadTail,
                StoreTail, LoadCount, StoreCount
  <2> QED
    BY <2>1, ArgElsewhere
<1>4. CASE UNCHANGED vars
  BY <1>4 DEF vars, shared, ArgInv
<1> QED
  BY <1>1, <1>2, <1>3, <1>4 DEF Next

(* A step that changes neither the answer nor what is still to come. *)
LEMMA QuietFifo ==
  ASSUME Contents' = Contents, answer' = answer
  PROVE  UNCHANGED Fifo!vars
  BY DEF Fifo!vars

(* queueEvent up to the store of the count.  It writes behind the last     *)
(* event only.                                                             *)
LEMMA PushIsQuiet ==
  ASSUME ~ overlapped', PreemptInv, PreemptInv', NEW c \in Context,
         \/ Call(c) \/ CheckFull(c) \/ StoreCode(c) \/ StoreParam(c)
         \/ LoadTail(c) \/ StoreTail(c) \/ LoadCount(c)
  PROVE  Contents' = Contents
<1>1. CASE StoreCode(c) \/ StoreParam(c)
  <2>1. PICK from \in {"store code", "store param"} :
          \E to \in {"store param", "load tail"} : Step(c, from, to)
    BY <1>1 DEF StoreCode, StoreParam
  <2>2. PICK to \in {"store param", "load tail"} : Step(c, from, to)
    BY <2>1
  <2>3. /\ from \in RoomAt
        /\ \A S \in {GoneAt, LessAt, MovedAt} : from \notin S /\ to \notin S
    BY DEF RoomAt, PushAt, GoneAt, LessAt, MovedAt
  <2>4. In(RoomAt) /\ ~ In(LessAt) /\ ~ In(GoneAt) /\ ~ In(MovedAt)
    BY <2>2, <2>3, Phases DEF PreemptInv, RangeInv
  <2>5. tail = Slot(head, num) /\ Slot(head, num) \notin Slots(head, num)
    BY <2>4, PushPlaces DEF PreemptInv, RangeInv, TailInv
  <2>6. First = head /\ Held = num
    BY <2>4, FirstAndHeld DEF PreemptInv, RangeInv
  <2>7. \A i \in Slots(First, Held) : code'[i] = code[i] /\ owner'[i] = owner[i]
    <3>1. Slots(First, Held) \subseteq Index
      BY <2>4, <2>6, PushPlaces
    <3>2. \A i \in Index : i # tail => code'[i] = code[i] /\ owner'[i] = owner[i]
      BY <1>1 DEF StoreCode, StoreParam, PreemptInv, RangeInv, TypeOK
    <3> QED
      BY <2>5, <2>6, <3>1, <3>2
  <2>8. head' = head /\ num' = num
    BY <1>1 DEF StoreCode, StoreParam
  <2>9. \A S \in {GoneAt, LessAt} : from \in S <=> to \in S
    BY <2>3
  <2> QED
    BY <2>2, <2>7, <2>8, <2>9, QuietStep
<1>2. CASE Call(c) \/ CheckFull(c) \/ LoadTail(c) \/ StoreTail(c) \/ LoadCount(c)
  <2>1. PICK from \in PushAt \cup {"idle"} :
          \E to \in PushAt \cup {"idle"} : Step(c, from, to)
    BY <1>2 DEF Call, CheckFull, LoadTail, StoreTail, LoadCount, PushAt
  <2>2. PICK to \in PushAt \cup {"idle"} : Step(c, from, to)
    BY <2>1
  <2>3. \A S \in {GoneAt, LessAt} : from \notin S /\ to \notin S
    BY DEF PushAt, GoneAt, LessAt
  <2>4. head' = head /\ num' = num /\ code' = code /\ owner' = owner
    BY <1>2 DEF Call, CheckFull, LoadTail, StoreTail, LoadCount, shared
  <2> QED
    BY <2>2, <2>3, <2>4, QuietStep
<1> QED
  BY <1>1, <1>2

(* queueEvent with room: where the count is stored the event is in. *)
LEMMA StoreCountAccepts ==
  ASSUME ~ overlapped', PreemptInv, PreemptInv', NEW c \in Context, StoreCount(c)
  PROVE  \E e \in Event : Fifo!Accept(e)
<1>1. Step(c, "store count", "idle")
  BY DEF StoreCount
<1>2. /\ ~ In(LessAt) /\ ~ In(LessAt)' /\ ~ In(GoneAt) /\ ~ In(GoneAt)' /\ In(RoomAt)
      /\ In(PlacedAt) /\ pc[c] = "store count"
  <2>1. /\ "store count" \in RoomAt /\ "store count" \in PlacedAt
        /\ \A S \in {LessAt, GoneAt} : "store count" \notin S /\ "idle" \notin S
    BY DEF RoomAt, PlacedAt, PushAt, LessAt, GoneAt
  <2> QED
    BY <1>1, <2>1, Phases DEF PreemptInv, RangeInv
<1>3. num' = num + 1 /\ head' = head /\ code' = code /\ owner' = owner
  BY <1>2 DEF StoreCount, PreemptInv, RangeInv, RegInv
<1>4. First = head /\ Held = num /\ First' = head /\ Held' = num + 1
  BY <1>2, <1>3, FirstAndHeld DEF PreemptInv, RangeInv
<1>5. /\ Count = num /\ num \in 0 .. kEventQueueSize - 1 /\ head \in Index
      /\ Slot(head, num) \in Index
  BY <1>2, PushPlaces
<1> DEFINE e == [code |-> code[Slot(head, num)], param |-> owner[Slot(head, num)]]
<1>6. owner \in [Index -> Context]
  BY DEF PreemptInv, RangeInv, TypeOK
<1>7. \A i \in Slots(head, num + 1) : code[i] \in Code
  <2>1. Slots(head, num + 1) = Slots(head, num) \cup {Slot(head, num)}
    BY <1>5, SlotAdded
  <2>2. ~ In(ClearedAt)
    BY <1>2 DEF In, GoneAt, ClearedAt
  <2>3. { i \in Index : code[i] # kEventNone } = Slots(head, num) \cup {Slot(head, num)}
    BY <1>2, <1>5, <2>2 DEF PreemptInv, RangeInv, CodeInv
  <2> QED
    BY <2>1, <2>3 DEF PreemptInv, RangeInv, TypeOK
<1>8. e \in Event
  <2>1. Slot(head, num) \in Slots(head, num + 1)
    BY <1>5, SlotAdded
  <2> QED
    BY <1>5, <1>6, <1>7, <2>1 DEF Event
<1>9. Contents' = Append(Contents, e)
  BY <1>3, <1>4, <1>5, <1>6, <1>7, StretchLonger, ContentsIsStretch
<1>10. Len(Contents) < kEventQueueSize
  BY <1>4, <1>5, ContentsWhole, Bounds
<1>11. answer' = Answer(TRUE, NoEvent)
  BY DEF StoreCount
<1> HIDE DEF e
<1> QED
  BY <1>8, <1>9, <1>10, <1>11 DEF Fifo!Accept, Fifo!Answer, Answer

(* popEvent but for the read of the parameter.  It writes only where the   *)
(* event was taken, and moves the head on to the next.                     *)
LEMMA PopIsQuiet ==
  ASSUME ~ overlapped', PreemptInv, PreemptInv', popEvent, ~ TakeParam
  PROVE  Contents' = Contents
<1>1. Loop \in Context
  BY DEF Context
<1>2. ASSUME FindEmpty \/ CheckEmpty \/ TakeCode \/ LoadLess
      PROVE  Contents' = Contents
  <2>1. head' = head /\ num' = num /\ code' = code /\ owner' = owner
    BY <1>2 DEF FindEmpty, CheckEmpty, TakeCode, LoadLess, shared
  <2>2. CASE LoadLess
    <3>1. Step(Loop, "load less", "store less")
      BY <2>2 DEF LoadLess
    <3>2. \A S \in {GoneAt, LessAt} : "load less" \in S <=> "store less" \in S
      BY DEF GoneAt, LessAt
    <3> QED
      BY <1>1, <2>1, <3>1, <3>2, QuietStep
  <2>3. CASE ~ LoadLess
    <3>1. PICK from \in {"idle", "take"} :
            \E to \in {"idle", "take", "take param"} : Step(Loop, from, to)
      BY <1>2, <2>3 DEF FindEmpty, CheckEmpty, TakeCode
    <3>2. PICK to \in {"idle", "take", "take param"} : Step(Loop, from, to)
      BY <3>1
    <3>3. \A S \in {GoneAt, LessAt} : from \notin S /\ to \notin S
      BY DEF GoneAt, LessAt
    <3> QED
      BY <1>1, <2>1, <3>2, <3>3, QuietStep
  <2> QED
    BY <2>2, <2>3
<1>3. ASSUME ClearCode PROVE Contents' = Contents
  <2>1. Step(Loop, "clear", "move head") /\ "clear" \in PopAt
    BY <1>3 DEF ClearCode, PopAt
  <2>2. /\ "clear" \in GoneAt /\ "move head" \in GoneAt
        /\ "clear" \notin LessAt /\ "move head" \notin LessAt
    BY DEF GoneAt, LessAt
  <2>3. In(GoneAt) /\ num \in 1 .. kEventQueueSize /\ head \in Index
        /\ Slots(head, num) \subseteq Index
    BY <1>1, <2>1, <2>2, Phases, PopPlaces DEF PreemptInv, RangeInv
  <2>4. First = Advance(head) /\ Held = num - 1
    BY <2>3, FirstAndHeld DEF PreemptInv, RangeInv
  <2>5. Slots(First, Held) = Slots(head, num) \ {head}
    BY <2>3, <2>4, SlotRemoved
  <2>6. \A i \in Index : i # head => code'[i] = code[i]
    BY <1>3 DEF ClearCode, PreemptInv, RangeInv, TypeOK
  <2>7. head' = head /\ num' = num /\ owner' = owner
    BY <1>3 DEF ClearCode
  <2>8. \A i \in Slots(First, Held) : code'[i] = code[i] /\ owner'[i] = owner[i]
    BY <2>3, <2>5, <2>6, <2>7
  <2>9. \A S \in {GoneAt, LessAt} : "clear" \in S <=> "move head" \in S
    BY <2>2
  <2> QED
    BY <1>1, <2>1, <2>7, <2>8, <2>9, QuietStep
<1>4. ASSUME MoveHead PROVE Contents' = Contents
  <2>1. Step(Loop, "move head", "load less")
    BY <1>4 DEF MoveHead
  <2>2. /\ "move head" \in GoneAt /\ "load less" \notin GoneAt
        /\ "move head" \notin LessAt /\ "load less" \in LessAt
    BY DEF GoneAt, LessAt
  <2>3. In(GoneAt) /\ ~ In(GoneAt)' /\ In(LessAt)'
    BY <1>1, <2>1, <2>2, Phases DEF PreemptInv, RangeInv
  <2>4. head' = Advance(head) /\ num' = num /\ code' = code /\ owner' = owner
    BY <1>4 DEF MoveHead
  <2>5. First' = First /\ Held' = Held
    BY <2>3, <2>4, FirstAndHeld DEF PreemptInv, RangeInv
  <2> QED
    BY <2>4, <2>5, ContentsKept
<1>5. ASSUME StoreLess PROVE Contents' = Contents
  <2>1. Step(Loop, "store less", "idle")
    BY <1>5 DEF StoreLess
  <2>2. /\ "store less" \notin GoneAt /\ "idle" \notin GoneAt
        /\ "store less" \in LessAt /\ "idle" \notin LessAt
    BY DEF GoneAt, LessAt
  <2>3. ~ In(GoneAt) /\ ~ In(GoneAt)' /\ In(LessAt) /\ ~ In(LessAt)' /\ pc[Loop] = "store less"
    BY <1>1, <2>1, <2>2, Phases DEF PreemptInv, RangeInv
  <2>4. head' = head /\ num' = num - 1 /\ code' = code /\ owner' = owner
    BY <1>1, <1>5, <2>3 DEF StoreLess, PreemptInv, RangeInv, RegInv
  <2>5. First' = First /\ Held' = Held
    BY <2>3, <2>4, FirstAndHeld DEF PreemptInv, RangeInv
  <2> QED
    BY <2>4, <2>5, ContentsKept
<1> QED
  BY <1>2, <1>3, <1>4, <1>5 DEF popEvent

(* popEvent with an event queued: where the parameter is read it is out.   *)
LEMMA TakeParamTakes ==
  ASSUME ~ overlapped', PreemptInv, PreemptInv', ArgInv, TakeParam
  PROVE  Fifo!Take
<1>1. Step(Loop, "take param", "clear") /\ Loop \in Context /\ "take param" \in PopAt
  BY DEF TakeParam, Context, PopAt
<1>2. /\ "take param" \notin GoneAt /\ "clear" \in GoneAt
      /\ "take param" \notin LessAt /\ "clear" \notin LessAt
  BY DEF GoneAt, LessAt
<1>3. /\ ~ In(GoneAt) /\ In(GoneAt)' /\ ~ In(LessAt) /\ ~ In(LessAt)'
      /\ pc[Loop] = "take param"
  BY <1>1, <1>2, Phases DEF PreemptInv, RangeInv
<1>4. num' = num /\ head' = head /\ code' = code /\ owner' = owner
  BY DEF TakeParam, shared
<1>5. First = head /\ Held = num /\ First' = Advance(head) /\ Held' = num - 1
  BY <1>3, <1>4, FirstAndHeld DEF PreemptInv, RangeInv
<1>6. num \in 1 .. kEventQueueSize /\ head \in Index /\ owner \in [Index -> Context]
  BY <1>1, PopPlaces DEF PreemptInv, RangeInv, TypeOK
<1>7. \A i \in Slots(head, num) : code[i] \in Code
  BY <1>5, ContentsWhole
<1>8. /\ Contents # << >> /\ Head(Contents) = [code |-> code[head], param |-> owner[head]]
      /\ Tail(Contents) = Contents'
  BY <1>4, <1>5, <1>6, <1>7, StretchShorter, ContentsIsStretch
<1>9. answer' = Answer(TRUE, [code |-> code[head], param |-> owner[head]])
  BY <1>3 DEF TakeParam, ArgInv
<1> QED
  BY <1>8, <1>9 DEF Fifo!Take, Fifo!Answer, Answer

LEMMA NextImplements ==
  ASSUME ~ overlapped', PreemptInv, PreemptInv', ArgInv, [Next]_vars
  PROVE  [Fifo!Next]_(Fifo!vars)
<1>1. ASSUME TakeParam PROVE Fifo!Next
  BY <1>1, TakeParamTakes DEF Fifo!Next
<1>2. ASSUME FindEmpty PROVE Fifo!Next
  <2>1. Contents' = Contents
    BY <1>2, PopIsQuiet DEF popEvent, TakeParam, FindEmpty, Step
  <2>2. Contents = << >>
    <3>1. Step(Loop, "idle", "idle") /\ num = 0
      BY <1>2 DEF FindEmpty
    <3>2. Loop \in Context /\ "idle" \notin GoneAt /\ "idle" \notin LessAt
      BY DEF Context, GoneAt, LessAt
    <3>3. ~ In(GoneAt) /\ ~ In(LessAt)
      BY <3>1, <3>2, Phases DEF PreemptInv, RangeInv
    <3>4. Held = 0
      BY <3>1, <3>3, FirstAndHeld DEF PreemptInv, RangeInv
    <3>5. Contents \in Seq(Event) /\ Len(Contents) = 0
      BY <3>4, ContentsWhole
    <3> QED
      BY <3>5, EmptySeq
  <2>3. answer' = Answer(FALSE, NoEvent)
    BY <1>2 DEF FindEmpty
  <2> QED
    BY <2>1, <2>2, <2>3 DEF Fifo!Next, Fifo!Nothing, Fifo!Answer, Answer
<1>3. ASSUME popEvent, ~ TakeParam, ~ FindEmpty PROVE UNCHANGED Fifo!vars
  <2>1. answer' = answer
    BY <1>3 DEF popEvent, CheckEmpty, TakeCode, ClearCode, MoveHead, LoadLess, StoreLess
  <2> QED
    BY <1>3, <2>1, PopIsQuiet, QuietFifo
<1>4. ASSUME NEW c \in Context, CheckFull(c), isFull PROVE Fifo!Next
  <2>1. Step(c, "check full", "idle") /\ answer' = Answer(FALSE, NoEvent)
    BY <1>4 DEF CheckFull
  <2>2. Contents' = Contents
    BY <1>4, PushIsQuiet
  <2>3. "check full" \notin GoneAt /\ "check full" \notin LessAt
    BY DEF GoneAt, LessAt
  <2>4. ~ In(GoneAt) /\ ~ In(LessAt)
    BY <2>1, <2>3, Phases DEF PreemptInv, RangeInv
  <2>5. Held = kEventQueueSize
    BY <1>4, <2>4, FirstAndHeld DEF PreemptInv, RangeInv, isFull
  <2>6. Len(Contents) = kEventQueueSize
    BY <2>5, ContentsWhole
  <2> QED
    BY <2>1, <2>2, <2>6 DEF Fifo!Next, Fifo!Refuse, Fifo!Answer, Answer
<1>5. ASSUME NEW c \in Context, StoreCount(c) PROVE Fifo!Next
  BY <1>5, StoreCountAccepts DEF Fifo!Next
<1>6. ASSUME NEW c \in Context, queueEvent(c), ~ StoreCount(c), ~ (CheckFull(c) /\ isFull)
      PROVE  UNCHANGED Fifo!vars
  <2>1. answer' = answer
    BY <1>6 DEF queueEvent, Continue, Call, CheckFull, StoreCode, StoreParam, LoadTail,
                StoreTail, LoadCount
  <2>2. Contents' = Contents
    BY <1>6, PushIsQuiet DEF queueEvent, Continue
  <2> QED
    BY <2>1, <2>2, QuietFifo
<1>7. CASE UNCHANGED vars
  <2>1. code' = code /\ owner' = owner /\ First' = First /\ Held' = Held /\ answer' = answer
    BY <1>7 DEF vars, shared, First, Held, Gone
  <2> QED
    BY <2>1, ContentsKept, QuietFifo
<1> QED
  BY <1>1, <1>2, <1>3, <1>4, <1>5, <1>6, <1>7 DEF Next

(* overlapped stays, and a step of no call at all leaves it alone. *)
LEMMA OverlappedStays == [Next]_vars /\ overlapped => overlapped'
  BY DEF Next, vars, Step, popEvent, FindEmpty, CheckEmpty, TakeCode, TakeParam, ClearCode,
         MoveHead, LoadLess, StoreLess, queueEvent, Continue, Call, CheckFull, StoreCode,
         StoreParam, LoadTail, StoreTail, LoadCount, StoreCount

CalmInv == overlapped \/ (PreemptInv /\ ArgInv)

LEMMA CalmAlways == Spec => []CalmInv
<1>1. Init => CalmInv
  BY PreemptInit, ArgInit DEF CalmInv
<1>2. CalmInv /\ TypeOK' /\ RangeInv' /\ [Next]_vars => CalmInv'
  BY PreemptStep, ArgStep, OverlappedStays DEF CalmInv
<1> QED
  BY <1>1, <1>2, RangeAlways, PTL DEF Spec

(* Calls of two contexts that do not overlap leave the queue as it should  *)
(* be, in whatever order they come (EventManager.cpp:608-687): an overlap  *)
(* is the only way in which a second context can disturb it.               *)
THEOREM SafeWithoutOverlap == Spec => []SafeUnlessOverlapped
<1>1. CalmInv => SafeUnlessOverlapped
  BY InvIsSafe DEF CalmInv, SafeUnlessOverlapped
<1> QED
  BY <1>1, CalmAlways, PTL

(* Until calls have overlapped the queue is, word by word as two contexts  *)
(* use it, a bounded FIFO: no event is lost, doubled, torn or overtaken,   *)
(* an event is refused only while the queue is full, and popEvent finds    *)
(* nothing only while it is empty (EventManager.cpp:608-687).              *)
THEOREM FifoWithoutOverlap == Spec => FifoUnlessOverlapped
<1>1. Init => Fifo!Init
  <2> SUFFICES ASSUME Init PROVE Fifo!Init
    OBVIOUS
  <2>1. Held = 0
    BY DEF Init, Held, Gone, Context
  <2>2. Contents \in Seq(Event) /\ Len(Contents) = 0
    BY <2>1, PreemptInit, ContentsWhole
  <2>3. Contents = << >>
    BY <2>2, EmptySeq
  <2> QED
    BY <2>3 DEF Init, Fifo!Init, Fifo!Answer, Answer
<1>2. CalmInv /\ CalmInv' /\ [Next]_vars => [overlapped' \/ Fifo!Next]_(Fifo!vars)
  BY NextImplements, OverlappedStays DEF CalmInv
<1> QED
  BY <1>1, <1>2, CalmAlways, PTL DEF Spec, FifoUnlessOverlapped
=============================================================================
