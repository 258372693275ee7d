-------------------------- MODULE ConnectionProofs --------------------------
(***************************************************************************)
(* Proofs about the server's connections: the vector that holds them       *)
(* (ClientLoop), for every length, and what their controllers are told     *)
(* (Notification), for every number of connections and characteristics,    *)
(* every queue size and every size of a message.                           *)
(***************************************************************************)
EXTENDS ClientLoop, Notification, FiniteSetTheorems, TLAPS

(* The pointers in the vector are of objects there are, and differ; what   *)
(* else there is was lost at accept.                                       *)
ListInv == /\ \A i \in 0 .. size - 1 : slot[i] \in HAPClient
           /\ \A i, j \in 0 .. size - 1 : slot[i] = slot[j] => i = j
           /\ lost \subseteq alive /\ Listed = alive \ lost

(* What a pass has done to the vector so far: it has erased at most one    *)
(* pointer per step; before the first was erased it has met all it went    *)
(* past; after the first the slot past the end repeats the last pointer.   *)
PassInv == /\ size <= end /\ end - size <= it
           /\ size = end => start = Listed /\ \A j \in 0 .. it - 1 : slot[j] \in met
           /\ size = end - 1 /\ it < end => size > 0 /\ slot[size] = slot[size - 1]

(* In a pass over at most two connections whoever was not met is ahead. *)
TwoInv == end <= 2 => start \subseteq met \cup { slot[j] : j \in it .. end - 1 }

LoopInv == LoopTypeOK /\ ListInv /\ PassInv /\ TwoInv

(* What a step may do to the vector. *)
Same == UNCHANGED <<slot, size, alive, lost>>
Erased(i) == /\ i \in 0 .. size - 1
             /\ size' = size - 1
             /\ slot' = [j \in Slot |-> IF i <= j /\ j < size - 1 THEN slot[j + 1] ELSE slot[j]]
             /\ alive' = alive \ {slot[i]} /\ lost' = lost
Pushed(c) == /\ c \in HAPClient \ alive /\ size < MaxClients
             /\ slot' = [slot EXCEPT ![size] = c]
             /\ size' = size + 1
             /\ alive' = alive \cup {c} /\ lost' = lost
Spoilt(c) == /\ c \in HAPClient /\ size < MaxClients
             /\ slot' = [slot EXCEPT ![size] = c]
             /\ UNCHANGED <<size, alive, lost>>
Lost(c) == /\ c \in HAPClient \ alive
           /\ alive' = alive \cup {c} /\ lost' = lost \cup {c}
           /\ UNCHANGED <<slot, size>>

LEMMA SameList ==
  ASSUME LoopTypeOK, ListInv, Same PROVE ListInv' /\ Listed' = Listed
  BY DEF Same, ListInv, Listed

LEMMA ErasedList ==
  ASSUME LoopTypeOK, ListInv, NEW i \in 0 .. size - 1, Erased(i)
  PROVE  ListInv' /\ slot' \in [Slot -> HAPClient \cup {nullptr}]
<1>1. /\ size \in Nat /\ size <= MaxClients /\ size' = size - 1 /\ size > 0
      /\ slot \in [Slot -> HAPClient \cup {nullptr}] /\ MaxClients \in Nat
  BY LoopAssumption DEF LoopTypeOK, Erased
<1>2. \A j \in 0 .. size' - 1 : slot'[j] = slot[IF i <= j THEN j + 1 ELSE j]
  BY <1>1 DEF Erased, Slot
<1>3. \A j \in 0 .. size' - 1 : slot'[j] \in HAPClient
  BY <1>1, <1>2 DEF ListInv
<1>4. \A j, k \in 0 .. size' - 1 : slot'[j] = slot'[k] => j = k
  BY <1>1, <1>2 DEF ListInv
<1>5. Listed' = Listed \ {slot[i]}
  <2>1. ASSUME NEW x \in Listed' PROVE x \in Listed \ {slot[i]}
    <3>1. PICK j \in 0 .. size' - 1 : x = slot'[j]
      BY <2>1 DEF Listed
    <3> QED
      BY <1>1, <1>2, <3>1 DEF Listed, ListInv
  <2>2. ASSUME NEW x \in Listed \ {slot[i]} PROVE x \in Listed'
    <3>1. PICK j \in 0 .. size - 1 : x = slot[j]
      BY <2>2 DEF Listed
    <3>2. CASE j < i
      <4>1. j \in 0 .. size' - 1 /\ slot'[j] = x
        BY <1>1, <1>2, <3>1, <3>2
      <4> QED
        BY <4>1 DEF Listed
    <3>3. CASE j > i
      <4>1. j - 1 \in 0 .. size' - 1 /\ slot'[j - 1] = x
        BY <1>1, <1>2, <3>1, <3>3
      <4> QED
        BY <4>1 DEF Listed
    <3> QED
      BY <2>2, <3>1, <3>2, <3>3
  <2> QED
    BY <2>1, <2>2
<1>6. lost' \subseteq alive' /\ Listed' = alive' \ lost'
  <2>1. slot[i] \in alive \ lost
    BY <1>1 DEF ListInv, Listed
  <2> QED
    BY <1>5, <2>1 DEF ListInv, Erased
<1>7. slot' \in [Slot -> HAPClient \cup {nullptr}]
  BY <1>1 DEF Erased, Slot
<1> QED
  BY <1>3, <1>4, <1>6, <1>7 DEF ListInv

LEMMA PushedList ==
  ASSUME LoopTypeOK, ListInv, NEW c, Pushed(c)
  PROVE  ListInv' /\ slot' \in [Slot -> HAPClient \cup {nullptr}]
<1>1. /\ size \in Nat /\ size < MaxClients /\ size' = size + 1
      /\ slot \in [Slot -> HAPClient \cup {nullptr}] /\ MaxClients \in Nat
      /\ c \in HAPClient /\ c \notin alive /\ size \in Slot
  BY LoopAssumption DEF LoopTypeOK, Pushed, Slot
<1>2. slot' \in [Slot -> HAPClient \cup {nullptr}]
  BY <1>1 DEF Pushed
<1>3. slot'[size] = c /\ \A j \in 0 .. size - 1 : slot'[j] = slot[j]
  BY <1>1 DEF Pushed, Slot
<1>4. c \notin lost /\ \A j \in 0 .. size - 1 : slot[j] # c
  BY <1>1 DEF ListInv, Listed
<1>5. \A j \in 0 .. size' - 1 : j \in 0 .. size - 1 \/ j = size
  BY <1>1
<1>6. \A j \in 0 .. size' - 1 : slot'[j] \in HAPClient
  BY <1>1, <1>3, <1>5 DEF ListInv
<1>7. \A j, k \in 0 .. size' - 1 : slot'[j] = slot'[k] => j = k
  BY <1>1, <1>3, <1>4, <1>5 DEF ListInv
<1>8. Listed' = Listed \cup {c}
  <2>1. size \in 0 .. size' - 1 /\ \A j \in 0 .. size - 1 : j \in 0 .. size' - 1
    BY <1>1
  <2> QED
    BY <1>3, <1>5, <2>1 DEF Listed
<1> QED
  BY <1>2, <1>4, <1>6, <1>7, <1>8 DEF ListInv, Pushed

LEMMA SpoiltList ==
  ASSUME LoopTypeOK, ListInv, NEW c, Spoilt(c)
  PROVE  ListInv' /\ slot' \in [Slot -> HAPClient \cup {nullptr}]
<1>1. /\ size \in Nat /\ size < MaxClients /\ size' = size
      /\ slot \in [Slot -> HAPClient \cup {nullptr}] /\ MaxClients \in Nat
      /\ c \in HAPClient /\ size \in Slot
  BY LoopAssumption DEF LoopTypeOK, Spoilt, Slot
<1>2. slot' \in [Slot -> HAPClient \cup {nullptr}]
  BY <1>1 DEF Spoilt
<1>3. \A j \in 0 .. size - 1 : slot'[j] = slot[j]
  BY <1>1 DEF Spoilt, Slot
<1> QED
  BY <1>1, <1>2, <1>3 DEF ListInv, Spoilt, Listed

LEMMA LostList ==
  ASSUME LoopTypeOK, ListInv, NEW c, Lost(c) PROVE ListInv'
<1>1. c \notin alive /\ slot' = slot /\ size' = size /\ Listed' = Listed
  BY DEF Lost, Listed
<1>2. lost' \subseteq alive' /\ Listed' = alive' \ lost'
  BY <1>1 DEF Lost, ListInv
<1> QED
  BY <1>1, <1>2 DEF ListInv

(* A visit leaves the vector alone or erases the pointer it looked at. *)
LEMMA VisitDoes ==
  ASSUME LoopTypeOK, ListInv, Visit
  PROVE  /\ it < end /\ it' = it + 1 /\ end' = end /\ start' = start
         /\ slot[it] \in alive /\ met' = met \cup {slot[it]} /\ up' \subseteq HAPClient
         /\ \/ Same
            \/ \E i \in 0 .. size - 1 :
                 Erased(i) /\ slot[i] = slot[it] /\ \A j \in 0 .. i - 1 : slot[j] # slot[it]
<1>1. /\ it < end /\ it' = it + 1 /\ end' = end /\ start' = start
      /\ slot[it] \in alive /\ met' = met \cup {slot[it]}
  BY DEF Visit, HasNext, Advance
<1>2. up' \subseteq HAPClient
  BY DEF Visit, LoopTypeOK, Keep, Stop, handleAllPairingsRemoved, Drop
<1>3. Same \/ handleClientDisconnect(slot[it])
  BY DEF Visit, Keep, Stop, handleAllPairingsRemoved, Drop, Same, clients
<1>4. ASSUME handleClientDisconnect(slot[it])
      PROVE  \E i \in 0 .. size - 1 :
               Erased(i) /\ slot[i] = slot[it] /\ \A j \in 0 .. i - 1 : slot[j] # slot[it]
  BY <1>4 DEF handleClientDisconnect, Erased
<1> QED
  BY <1>1, <1>2, <1>3, <1>4

(* The next pass begins with the vector as it then is. *)
LEMMA NextPassDoes ==
  ASSUME LoopTypeOK, NextPass
  PROVE  /\ it' = 0 /\ end' = size' /\ start' = Listed' /\ met' = {}
         /\ up' \subseteq HAPClient
         /\ Same \/ \E c : Pushed(c) \/ Spoilt(c) \/ Lost(c)
<1>1. it' = 0 /\ end' = size' /\ start' = Listed' /\ met' = {}
  BY DEF NextPass, Listed
<1>2. CASE UNCHANGED <<clients, up>>
  BY <1>1, <1>2 DEF Same, clients, LoopTypeOK
<1>3. ASSUME NEW c \in HAPClient, Accept(c)
      PROVE  up' \subseteq HAPClient /\ (Pushed(c) \/ Spoilt(c) \/ Lost(c))
  BY <1>3 DEF Accept, Pushed, Spoilt, Lost, LoopTypeOK
<1> QED
  BY <1>1, <1>2, <1>3 DEF NextPass

(* Nothing else changes the vector. *)
LEMMA OtherDoes ==
  ASSUME LoopTypeOK, (\E c \in HAPClient : PeerLeaves(c)) \/ UNCHANGED loopVars
  PROVE  Same /\ UNCHANGED <<it, end, start, met>> /\ up' \subseteq HAPClient
  BY DEF PeerLeaves, Same, clients, loopVars, LoopTypeOK

LEMMA StepListInv ==
  ASSUME LoopTypeOK, ListInv, [LoopNext]_loopVars
  PROVE  LoopTypeOK' /\ ListInv'
<1>1. MaxClients \in Nat /\ size \in 0 .. MaxClients /\ end \in 0 .. MaxClients
      /\ it \in 0 .. end /\ slot \in [Slot -> HAPClient \cup {nullptr}]
      /\ alive \subseteq HAPClient /\ lost \subseteq HAPClient
  BY LoopAssumption DEF LoopTypeOK
<1>2. ASSUME Same
      PROVE  ListInv' /\ slot' \in [Slot -> HAPClient \cup {nullptr}]
             /\ size' \in 0 .. MaxClients /\ alive' \subseteq HAPClient /\ lost' \subseteq HAPClient
  BY <1>1, <1>2, SameList DEF Same
<1>3. ASSUME NEW i \in 0 .. size - 1, Erased(i)
      PROVE  ListInv' /\ slot' \in [Slot -> HAPClient \cup {nullptr}]
             /\ size' \in 0 .. MaxClients /\ alive' \subseteq HAPClient /\ lost' \subseteq HAPClient
  <2>1. size' \in 0 .. MaxClients /\ alive' \subseteq HAPClient /\ lost' \subseteq HAPClient
    BY <1>1, <1>3 DEF Erased
  <2> QED
    BY <1>3, <2>1, ErasedList
<1>4. ASSUME NEW c, Pushed(c) \/ Spoilt(c) \/ Lost(c)
      PROVE  ListInv' /\ slot' \in [Slot -> HAPClient \cup {nullptr}]
             /\ size' \in 0 .. MaxClients /\ alive' \subseteq HAPClient /\ lost' \subseteq HAPClient
  <2>1. size' \in 0 .. MaxClients /\ alive' \subseteq HAPClient /\ lost' \subseteq HAPClient
    BY <1>1, <1>4 DEF Pushed, Spoilt, Lost
  <2>2. slot' \in [Slot -> HAPClient \cup {nullptr}]
    BY <1>1, <1>4, PushedList, SpoiltList DEF Lost
  <2> QED
    BY <1>4, <2>1, <2>2, PushedList, SpoiltList, LostList
<1>5. CASE Visit
  <2>1. ListInv' /\ slot' \in [Slot -> HAPClient \cup {nullptr}]
        /\ size' \in 0 .. MaxClients /\ alive' \subseteq HAPClient /\ lost' \subseteq HAPClient
    BY <1>2, <1>3, <1>5, VisitDoes
  <2>2. end' \in 0 .. MaxClients /\ it' \in 0 .. end'
    BY <1>1, <1>5, VisitDoes
  <2>3. up' \subseteq HAPClient /\ start' \subseteq HAPClient /\ met' \subseteq HAPClient
    BY <1>1, <1>5, VisitDoes DEF LoopTypeOK
  <2> QED
    BY <2>1, <2>2, <2>3 DEF LoopTypeOK
<1>6. CASE NextPass
  <2>1. ListInv' /\ slot' \in [Slot -> HAPClient \cup {nullptr}]
        /\ size' \in 0 .. MaxClients /\ alive' \subseteq HAPClient /\ lost' \subseteq HAPClient
    BY <1>2, <1>4, <1>6, NextPassDoes
  <2>2. end' \in 0 .. MaxClients /\ it' \in 0 .. end'
    BY <1>1, <1>6, <2>1, NextPassDoes
  <2>3. up' \subseteq HAPClient /\ start' \subseteq HAPClient /\ met' \subseteq HAPClient
    BY <1>6, <2>1, NextPassDoes DEF ListInv
  <2> QED
    BY <2>1, <2>2, <2>3 DEF LoopTypeOK
<1>7. CASE (\E c \in HAPClient : PeerLeaves(c)) \/ UNCHANGED loopVars
  BY <1>2, <1>7, OtherDoes DEF LoopTypeOK
<1> QED
  BY <1>5, <1>6, <1>7 DEF LoopNext

LEMMA StepPassInv ==
  ASSUME LoopTypeOK, ListInv, PassInv, [LoopNext]_loopVars
  PROVE  PassInv'
<1>1. MaxClients \in Nat /\ size \in Nat /\ end \in Nat /\ it \in Nat /\ it <= end
      /\ end <= MaxClients
  BY LoopAssumption DEF LoopTypeOK
<1>2. CASE Visit
  <2>1. /\ it < end /\ it' = it + 1 /\ end' = end /\ start' = start
        /\ met' = met \cup {slot[it]}
    BY <1>2, VisitDoes
  <2>2. CASE Same
    <3>1. size' = size /\ slot' = slot /\ Listed' = Listed
      BY <2>2, SameList DEF Same
    <3>2. size = end => \A j \in 0 .. it' - 1 : slot[j] \in met'
      BY <1>1, <2>1 DEF PassInv
    <3> QED
      BY <1>1, <2>1, <3>1, <3>2 DEF PassInv
  <2>3. ASSUME NEW i \in 0 .. size - 1, Erased(i), slot[i] = slot[it]
        PROVE  PassInv'
    <3>1. size' = size - 1 /\ size > 0 /\ size <= end
      BY <1>1, <2>3 DEF Erased, PassInv
    <3>2. ASSUME size' = end - 1, it + 1 < end
          PROVE  size' > 0 /\ slot'[size'] = slot'[size' - 1]
      <4>1. size = end /\ it < size - 1
        BY <1>1, <3>1, <3>2
      <4>2. i = it
        BY <1>1, <2>1, <2>3, <4>1 DEF ListInv
      <4>3. size' \in Slot /\ size' - 1 \in Slot
        BY <1>1, <3>1, <4>1 DEF Slot
      <4>4. slot'[size'] = slot[size - 1] /\ slot'[size' - 1] = slot[size - 1]
        BY <1>1, <2>3, <3>1, <4>1, <4>2, <4>3 DEF Erased
      <4> QED
        BY <1>1, <3>1, <4>1, <4>4
    <3> QED
      BY <1>1, <2>1, <3>1, <3>2 DEF PassInv
  <2> QED
    BY <1>2, <2>2, <2>3, VisitDoes
<1>3. CASE NextPass
  <2>1. it' = 0 /\ end' = size' /\ start' = Listed'
    BY <1>3, NextPassDoes
  <2>2. size' \in Nat
    BY <1>3, StepListInv, LoopAssumption DEF LoopTypeOK, LoopNext
  <2>3. end' \in Nat /\ end' = size' /\ it' = 0
    BY <2>1, <2>2
  <2>4. \A j \in 0 .. it' - 1 : FALSE
    BY <2>3
  <2>5. size' <= end' /\ end' - size' <= it' /\ ~ (size' = end' - 1)
    <3>1. \A s, e, i : s \in Nat /\ e = s /\ i = 0 => s <= e /\ e - s <= i /\ ~ (s = e - 1)
      OBVIOUS
    <3> QED
      BY ONLY <2>2, <2>3, <3>1
  <2> QED
    BY <2>1, <2>2, <2>3, <2>4, <2>5 DEF PassInv
<1>4. CASE (\E c \in HAPClient : PeerLeaves(c)) \/ UNCHANGED loopVars
  <2>1. Same /\ UNCHANGED <<it, end, start, met>>
    BY <1>4, OtherDoes
  <2>2. Listed' = Listed
    BY <2>1, SameList
  <2> QED
    BY <2>1, <2>2 DEF PassInv, Same
<1> QED
  BY <1>2, <1>3, <1>4 DEF LoopNext

LEMMA StepTwoInv ==
  ASSUME LoopTypeOK, ListInv, PassInv, TwoInv, [LoopNext]_loopVars
  PROVE  TwoInv'
<1>1. MaxClients \in Nat /\ size \in Nat /\ end \in Nat /\ it \in Nat /\ it <= end
      /\ size <= MaxClients /\ end <= MaxClients /\ size <= end
  BY LoopAssumption DEF LoopTypeOK, PassInv
<1>2. CASE Visit
  <2> SUFFICES ASSUME end' <= 2, NEW x \in start'
               PROVE  x \in met' \/ \E j \in it' .. end' - 1 : x = slot'[j]
    BY DEF TwoInv
  <2>1. /\ it < end /\ it' = it + 1 /\ end' = end /\ start' = start
        /\ met' = met \cup {slot[it]}
    BY <1>2, VisitDoes
  <2>2. x \in met \/ \E j \in it .. end - 1 : x = slot[j]
    BY <2>1 DEF TwoInv
  <2>3. ASSUME NEW j \in it .. end - 1, j # it PROVE slot'[j] = slot[j]
    <3>1. it = 0 /\ j = 1 /\ end = 2
      BY <1>1, <2>1, <2>3
    <3>2. CASE Same
      BY <3>2 DEF Same
    <3>3. ASSUME NEW i \in 0 .. size - 1, Erased(i) PROVE slot'[j] = slot[j]
      <4>1. ~ (j < size - 1) /\ j \in Slot
        BY <1>1, <3>1 DEF Slot
      <4> QED
        BY <3>3, <4>1 DEF Erased
    <3> QED
      BY <1>2, <3>2, <3>3, VisitDoes
  <2>4. \A j \in it .. end - 1 : j # it => j \in it' .. end' - 1
    BY <1>1, <2>1
  <2> QED
    BY <2>1, <2>2, <2>3, <2>4
<1>3. CASE NextPass
  <2>1. it' = 0 /\ end' = size' /\ start' = Listed'
    BY <1>3, NextPassDoes
  <2> QED
    BY <2>1 DEF TwoInv, Listed
<1>4. CASE (\E c \in HAPClient : PeerLeaves(c)) \/ UNCHANGED loopVars
  <2>1. Same /\ UNCHANGED <<it, end, start, met>>
    BY <1>4, OtherDoes
  <2> QED
    BY <2>1 DEF TwoInv, Same
<1> QED
  BY <1>2, <1>3, <1>4 DEF LoopNext

LEMMA InitLoopInv == LoopInit => LoopInv
<1> SUFFICES ASSUME LoopInit PROVE LoopInv
  OBVIOUS
<1>1. LoopTypeOK
  BY LoopAssumption DEF LoopInit, LoopTypeOK
<1>2. 0 .. 0 - 1 = {} /\ size = 0 /\ end = 0 /\ it = 0 /\ start = {} /\ alive = {} /\ lost = {}
  BY DEF LoopInit
<1> QED
  BY <1>1, <1>2 DEF LoopInv, ListInv, PassInv, TwoInv, Listed

LEMMA LoopInvariant == LoopSpec => []LoopInv
<1>1. LoopInv /\ [LoopNext]_loopVars => LoopInv'
  BY StepListInv, StepPassInv, StepTwoInv DEF LoopInv
<1> QED
  BY <1>1, InitLoopInv, PTL DEF LoopSpec

-----------------------------------------------------------------------------
(* Type correctness, for any number of connections: the size stays within  *)
(* the storage, and the iterators within what the loop fixed as its end.   *)
THEOREM LoopTypeIsInvariant == LoopSpec => []LoopTypeOK
<1>1. LoopInv => LoopTypeOK
  BY DEF LoopInv
<1> QED
  BY <1>1, LoopInvariant, PTL

(* Whatever connects, ends or is stopped, and whichever pass it happens    *)
(* in, the vector lists each object it was given and not deleted, once,    *)
(* and no other: for any number of connections, so also where the loop     *)
(* itself goes wrong.  An object it was not given belongs to a connection  *)
(* that was gone at accept (HAPServer.cpp:1062), and stays for good.       *)
THEOREM EachObjectOwnedOnce == LoopSpec => []OwnedOnce
<1>1. ASSUME LoopInv PROVE OwnedOnce
  <2>1. size \in Nat /\ Listed = alive \ lost
    BY <1>1, LoopAssumption DEF LoopInv, LoopTypeOK, ListInv
  <2> DEFINE f == [i \in 0 .. size - 1 |-> slot[i]]
  <2>2. IsFiniteSet(0 .. size - 1) /\ Cardinality(0 .. size - 1) = size
    BY <2>1, FS_Interval
  <2>3. f \in [0 .. size - 1 -> Listed] /\ \A x \in Listed : \E i \in 0 .. size - 1 : f[i] = x
    BY DEF Listed
  <2>4. \A i, j \in 0 .. size - 1 : f[i] = f[j] => i = j
    BY <1>1 DEF LoopInv, ListInv
  <2>5. f \in Bijection(0 .. size - 1, Listed)
    BY <2>3, <2>4 DEF Bijection, Injection, IsInjective, Surjection
  <2>6. Cardinality(Listed) = size
    BY <2>2, <2>5, FS_Bijection DEF ExistsBijection
  <2> QED
    BY <2>1, <2>6 DEF OwnedOnce
<1> QED
  BY <1>1, LoopInvariant, PTL

(* While a pass has erased at most one pointer, each slot ahead of it is   *)
(* listed, or is the one past the end, which repeats the last.             *)
LEMMA EarlyVisit ==
  ASSUME LoopInv, size >= end - 1 PROVE VisitsExisting
<1>1. MaxClients \in Nat /\ size \in Nat /\ end \in Nat /\ it \in Nat /\ it <= end /\ size <= end
  BY LoopAssumption DEF LoopInv, LoopTypeOK, PassInv
<1>2. SUFFICES ASSUME it < end PROVE slot[it] \in alive
  BY DEF VisitsExisting
<1>3. CASE it < size
  BY <1>1, <1>3 DEF LoopInv, ListInv, Listed
<1>4. CASE it >= size
  <2>1. it = size /\ size = end - 1
    BY <1>1, <1>2, <1>4
  <2>2. size > 0 /\ slot[it] = slot[size - 1]
    BY <1>2, <2>1 DEF LoopInv, PassInv
  <2> QED
    BY <1>1, <2>2 DEF LoopInv, ListInv, Listed
<1> QED
  BY <1>1, <1>3, <1>4

(* For any number of connections: the loop reads a deleted object only in  *)
(* a pass in which it has erased two (HAPServer.cpp:955 and 1054).         *)
THEOREM ReadsDeletedOnlyAfterTwo == LoopSpec => [](size >= end - 1 => VisitsExisting)
<1>1. LoopInv => (size >= end - 1 => VisitsExisting)
  BY EarlyVisit
<1> QED
  BY <1>1, LoopInvariant, PTL

(* For any number of connections: a pass that erased nothing has visited   *)
(* every client that was in the list when it began.                        *)
THEOREM SkipsOnlyAfterErase == LoopSpec => [](size = end => NoneSkipped)
<1>1. ASSUME LoopInv, size = end PROVE NoneSkipped
  BY <1>1 DEF LoopInv, PassInv, Listed, NoneSkipped
<1> QED
  BY <1>1, LoopInvariant, PTL

(* With room for at most two connections the loop never reads a deleted    *)
(* object: the second erase of a pass is the last thing it does.  With     *)
(* three the run client_loop_three has a counterexample.                   *)
THEOREM TwoVisitsExisting ==
  ASSUME MaxClients <= 2
  PROVE  LoopSpec => []VisitsExisting
<1>1. ASSUME LoopInv PROVE VisitsExisting
  <2>1. MaxClients \in Nat /\ size \in Nat /\ end \in Nat /\ it \in Nat /\ end <= MaxClients
        /\ end - size <= it
    BY <1>1, LoopAssumption DEF LoopInv, LoopTypeOK, PassInv
  <2>2. CASE it < end
    <3>1. size >= end - 1
      BY <2>1, <2>2
    <3> QED
      BY <1>1, <3>1, EarlyVisit
  <2> QED
    BY <2>2 DEF VisitsExisting
<1> QED
  BY <1>1, LoopInvariant, PTL

(* With room for at most two connections no pass skips a client: the one   *)
(* that an erase moves down is still in the slot it was in.                *)
THEOREM TwoNoneSkipped ==
  ASSUME MaxClients <= 2
  PROVE  LoopSpec => []NoneSkipped
<1>1. ASSUME LoopInv PROVE NoneSkipped
  <2>1. end \in Nat /\ end <= 2
    BY <1>1, LoopAssumption DEF LoopInv, LoopTypeOK
  <2>2. end .. end - 1 = {}
    BY <2>1
  <2> QED
    BY <1>1, <2>1, <2>2 DEF LoopInv, TwoInv, NoneSkipped
<1> QED
  BY <1>1, LoopInvariant, PTL
-----------------------------------------------------------------------------
(* Notification. *)

LEMMA InAppend ==
  ASSUME NEW S, NEW q \in Seq(S), NEW s \in Seq(S)
  PROVE  /\ q \o s \in Seq(S) /\ Len(q \o s) = Len(q) + Len(s)
         /\ In(q \o s) = In(q) \cup In(s)
<1>1. q \o s \in Seq(S) /\ Len(q \o s) = Len(q) + Len(s)
  OBVIOUS
<1>2. ASSUME NEW x \in In(q) PROVE x \in In(q \o s)
  BY <1>1, <1>2 DEF In
<1>3. ASSUME NEW x \in In(s) PROVE x \in In(q \o s)
  <2>1. PICK i \in 1 .. Len(s) : x = s[i]
    BY <1>3 DEF In
  <2>2. Len(q) + i \in 1 .. Len(q \o s) /\ (q \o s)[Len(q) + i] = s[i]
    BY <1>1, <2>1
  <2> QED
    BY <2>1, <2>2 DEF In
<1>4. ASSUME NEW x \in In(q \o s) PROVE x \in In(q) \cup In(s)
  <2>1. PICK i \in 1 .. Len(q) + Len(s) : x = (q \o s)[i]
    BY <1>1, <1>4 DEF In
  <2>2. CASE i <= Len(q)
    BY <2>1, <2>2 DEF In
  <2>3. CASE i > Len(q)
    <3>1. i - Len(q) \in 1 .. Len(s) /\ x = s[i - Len(q)]
      BY <2>1, <2>3
    <3> QED
      BY <3>1 DEF In
  <2> QED
    BY <2>1, <2>2, <2>3
<1> QED
  BY <1>1, <1>2, <1>3, <1>4

(* What arrives in the queue keeps its type and its bound, and pushes      *)
(* nothing out.                                                            *)
LEMMA ArrivalsFit ==
  ASSUME TypeOK, NEW chars \in SUBSET Char, NEW s \in Arrivals(chars)
  PROVE  /\ queue \o s \in Seq(Char \cup {Other}) /\ Len(queue \o s) <= QueueSize
         /\ In(queue \o s) = In(queue) \cup In(s)
<1>1. Cardinality(chars) \in Nat
  BY NotificationAssumption, FS_Subset, FS_CardinalityType
<1> DEFINE n == Lesser(Cardinality(chars), QueueSize - Len(queue))
<1>2. n \in Nat /\ n <= QueueSize - Len(queue)
  BY <1>1, NotificationAssumption DEF TypeOK, Lesser
<1>3. s \in [1 .. n -> chars]
  BY DEF Arrivals
<1> HIDE DEF n
<1>4. s \in Seq(Char \cup {Other}) /\ Len(s) = n
  BY <1>2, <1>3
<1> QED
  BY <1>2, <1>4, InAppend, NotificationAssumption DEF TypeOK

LEMMA InAppendOther ==
  ASSUME queue \in Seq(Char \cup {Other})
  PROVE  In(queue \o <<Other>>) = In(queue) \cup In(<<Other>>)
<1>1. <<Other>> \in Seq(Char \cup {Other})
  OBVIOUS
<1> QED
  BY <1>1, InAppend

LEMMA InitNotification == Init => NotificationInv
BY NotificationAssumption DEF Init, NotificationInv, TypeOK, FreshIsUnsubscribed,
   StaleIsQueued, Stale

LEMMA NextTypeOK == TypeOK /\ [Next]_vars => TypeOK'
<1> SUFFICES ASSUME TypeOK, [Next]_vars PROVE TypeOK'
  OBVIOUS
<1> USE DEF TypeOK, Change, Miss
<1>s. Stale' \subseteq Client \X Char
  BY DEF Stale
<1>1. ASSUME NEW c \in Client, Connect(c) PROVE TypeOK'
  BY <1>1 DEF Connect
<1>2. ASSUME NEW c \in Client, PeerCloses(c) PROVE TypeOK'
  BY <1>2, <1>s DEF PeerCloses
<1>3. ASSUME NEW c \in Client, Disconnect(c) PROVE TypeOK'
  BY <1>3, <1>s DEF Disconnect
<1>4. ASSUME NEW c \in Client, NEW chars \in SUBSET Char, Get(c, chars) PROVE TypeOK'
  BY <1>4, <1>s DEF Get
<1>5. ASSUME NEW c \in Client, NEW on \in SUBSET Char, NEW off \in SUBSET (Char \ on),
             NEW written \in SUBSET Writable, NEW inError \in BOOLEAN,
             Put(c, on, off, written, inError)
      PROVE  TypeOK'
  <2>1. PICK changed \in SUBSET (written \cup ((on \cup off) \cap Sensor)) :
        \E back \in SUBSET (changed \cap written \cap Sensor),
           s \in Arrivals(Announced(on, changed)) :
          /\ subscribed' = [subscribed EXCEPT ![c] = (@ \cup on) \ off]
          /\ queue' = queue \o s
          /\ Change(changed, {c} \X (IF inError THEN written \cup on \cup off ELSE written \ back))
          /\ Miss({c} \X (Announced(on, changed) \ In(s)) \cup Client \X (changed \ In(s)))
          /\ conn' = conn
    BY <1>5 DEF Put
  <2>2. Announced(on, changed) \in SUBSET Char
    BY NotificationAssumption DEF Announced
  <2>3. queue' \in Seq(Char \cup {Other}) /\ Len(queue') <= QueueSize
    BY <2>1, <2>2, ArrivalsFit
  <2>4. current' \in SUBSET (Client \X Char)
    BY <2>1, NotificationAssumption
  <2>5. subscribed' \in [Client -> SUBSET Char] /\ conn' = conn
    BY <1>5 DEF Put
  <2> QED
    BY <2>1, <2>3, <2>4, <2>5, <1>s
<1>6. ASSUME NEW chars \in Plugin, Update(chars) PROVE TypeOK'
  <2>1. chars \in SUBSET Char
    BY NotificationAssumption
  <2>2. queue' \in Seq(Char \cup {Other}) /\ Len(queue') <= QueueSize
    BY <1>6, <2>1, ArrivalsFit DEF Update
  <2> QED
    BY <1>6, <2>2, <1>s DEF Update
<1>7. CASE QueueOther
  BY <1>7, NotificationAssumption DEF QueueOther
<1>8. CASE processEvents
  BY <1>8, <1>s, NotificationAssumption DEF processEvents
<1>9. CASE UNCHANGED vars
  BY <1>9 DEF vars
<1> HIDE DEF TypeOK, Change, Miss
<1>10. ASSUME NEW c \in Client, Request(c) PROVE TypeOK'
  BY <1>4, <1>5, <1>10 DEF Request
<1> QED
  BY <1>1, <1>2, <1>3, <1>6, <1>7, <1>8, <1>9, <1>10 DEF Next

LEMMA NextFresh ==
  ASSUME TypeOK, FreshIsUnsubscribed, [Next]_vars
  PROVE  FreshIsUnsubscribed'
<1>t. conn \in [Client -> {"free", "open", "closed"}] /\ subscribed \in [Client -> SUBSET Char]
  BY DEF TypeOK
<1>1. ASSUME NEW c \in Client, Connect(c) \/ PeerCloses(c) \/ Disconnect(c)
      PROVE  FreshIsUnsubscribed'
  BY <1>1, <1>t DEF FreshIsUnsubscribed, Connect, PeerCloses, Disconnect
<1>2. ASSUME NEW c \in Client, NEW chars, Get(c, chars) PROVE FreshIsUnsubscribed'
  BY <1>2 DEF FreshIsUnsubscribed, Get
<1>3. ASSUME NEW c \in Client, NEW on, NEW off, NEW written, NEW inError,
             Put(c, on, off, written, inError)
      PROVE  FreshIsUnsubscribed'
  <2>1. /\ conn[c] = "open" /\ conn' = conn
        /\ subscribed' = [subscribed EXCEPT ![c] = (@ \cup on) \ off]
    BY <1>3 DEF Put
  <2> QED
    BY <1>t, <2>1 DEF FreshIsUnsubscribed
<1>4. CASE \E chars \in Plugin : Update(chars)
  BY <1>4 DEF FreshIsUnsubscribed, Update
<1>5. CASE QueueOther \/ processEvents \/ UNCHANGED vars
  BY <1>5 DEF FreshIsUnsubscribed, QueueOther, processEvents, vars
<1>6. ASSUME NEW c \in Client, Request(c) PROVE FreshIsUnsubscribed'
  BY <1>2, <1>3, <1>6 DEF Request
<1> QED
  BY <1>1, <1>4, <1>5, <1>6 DEF Next

LEMMA NextStale ==
  ASSUME TypeOK, FreshIsUnsubscribed, StaleIsQueued, [Next]_vars
  PROVE  StaleIsQueued'
<1> SUFFICES ASSUME NEW p \in Stale', p \notin missed'
             PROVE  p[2] \in In(queue')
  BY DEF StaleIsQueued
<1>p. /\ p \in Client \X Char /\ p[1] \in Client /\ p[2] \in Char /\ p = <<p[1], p[2]>>
      /\ conn'[p[1]] = "open" /\ p[2] \in subscribed'[p[1]] /\ p \notin current'
  BY DEF Stale
<1> USE DEF TypeOK
(* A pair that was stale before is covered by the induction hypothesis. *)
<1>q. p \in Stale /\ p \notin missed => p[2] \in In(queue)
  BY DEF StaleIsQueued
<1>1. ASSUME NEW c \in Client, Connect(c) PROVE p[2] \in In(queue')
  <2>1. p[1] # c
    BY <1>1, <1>p DEF Connect, FreshIsUnsubscribed
  <2>2. p \in Stale /\ queue' = queue /\ missed' = missed
    BY <1>1, <1>p, <2>1 DEF Connect, Stale
  <2> QED
    BY <1>q, <2>2
<1>2. ASSUME NEW c \in Client, PeerCloses(c) PROVE p[2] \in In(queue')
  <2>1. p \in Stale /\ queue' = queue
    BY <1>2, <1>p DEF PeerCloses, Stale
  <2> QED
    BY <1>2, <1>q, <2>1 DEF PeerCloses, Miss
<1>3. ASSUME NEW c \in Client, Disconnect(c) PROVE p[2] \in In(queue')
  <2>1. p[1] # c
    BY <1>3, <1>p DEF Disconnect
  <2>2. p \in Stale /\ queue' = queue
    BY <1>3, <1>p, <2>1 DEF Disconnect, Stale
  <2> QED
    BY <1>3, <1>q, <2>2 DEF Disconnect, Miss
<1>4. ASSUME NEW c \in Client, NEW chars \in SUBSET Char, Get(c, chars)
      PROVE  p[2] \in In(queue')
  <2>1. PICK changed \in SUBSET (chars \cap Sensor) :
        Change(changed, {c} \X chars) /\ Miss(Client \X changed)
    BY <1>4 DEF Get
  <2>2. p[2] \notin changed
    BY <1>p, <2>1 DEF Miss
  <2>3. p \in Stale /\ queue' = queue
    BY <1>4, <1>p, <2>1, <2>2 DEF Get, Change, Stale
  <2> QED
    BY <1>q, <2>1, <2>3 DEF Miss
<1>5. ASSUME NEW c \in Client, NEW on \in SUBSET Char, NEW off \in SUBSET (Char \ on),
             NEW written \in SUBSET Writable, NEW inError \in BOOLEAN,
             Put(c, on, off, written, inError)
      PROVE  p[2] \in In(queue')
  <2>0. PICK changed \in SUBSET (written \cup ((on \cup off) \cap Sensor)) :
        \E back \in SUBSET (changed \cap written \cap Sensor),
           s \in Arrivals(Announced(on, changed)) :
          /\ subscribed' = [subscribed EXCEPT ![c] = (@ \cup on) \ off]
          /\ queue' = queue \o s
          /\ Change(changed, {c} \X (IF inError THEN written \cup on \cup off ELSE written \ back))
          /\ Miss({c} \X (Announced(on, changed) \ In(s)) \cup Client \X (changed \ In(s)))
          /\ conn' = conn
    BY <1>5 DEF Put
  <2>1. PICK back \in SUBSET (changed \cap written \cap Sensor),
             s \in Arrivals(Announced(on, changed)) :
          /\ subscribed' = [subscribed EXCEPT ![c] = (@ \cup on) \ off]
          /\ queue' = queue \o s
          /\ Change(changed, {c} \X (IF inError THEN written \cup on \cup off ELSE written \ back))
          /\ Miss({c} \X (Announced(on, changed) \ In(s)) \cup Client \X (changed \ In(s)))
          /\ conn' = conn
    BY <2>0
  <2>2. Announced(on, changed) \in SUBSET Char
    BY NotificationAssumption DEF Announced
  <2>3. In(queue') = In(queue) \cup In(s)
    BY <2>1, <2>2, ArrivalsFit
  <2>4. CASE p[2] \in changed \/ (p[1] = c /\ p[2] \in on)
    BY <1>p, <2>1, <2>3, <2>4 DEF Miss, Announced
  <2>5. CASE ~ (p[2] \in changed \/ (p[1] = c /\ p[2] \in on))
    <3>1. p \notin current
      BY <1>p, <2>1, <2>5 DEF Change
    <3>2. p[2] \in subscribed[p[1]]
      BY <1>p, <2>1, <2>5
    <3>3. p \in Stale
      BY <1>p, <2>1, <3>1, <3>2 DEF Stale
    <3> QED
      BY <1>q, <2>1, <2>3, <3>3 DEF Miss
  <2> QED
    BY <2>4, <2>5
<1>6. ASSUME NEW chars \in Plugin, Update(chars) PROVE p[2] \in In(queue')
  <2>0. chars \in SUBSET Char
    BY NotificationAssumption
  <2>1. PICK changed \in SUBSET chars, s \in Arrivals(chars) :
          /\ queue' = queue \o s
          /\ Change(changed, {})
          /\ Miss(Client \X (changed \ In(s)))
    BY <1>6 DEF Update
  <2>2. In(queue') = In(queue) \cup In(s)
    BY <2>0, <2>1, ArrivalsFit
  <2>3. CASE p[2] \in changed
    BY <1>p, <2>1, <2>2, <2>3 DEF Miss
  <2>4. CASE p[2] \notin changed
    <3>1. p \in Stale
      BY <1>6, <1>p, <2>1, <2>4 DEF Update, Change, Stale
    <3> QED
      BY <1>q, <2>1, <2>2, <3>1 DEF Miss
  <2> QED
    BY <2>3, <2>4
<1>7. CASE QueueOther
  <2>1. p \in Stale /\ missed' = missed
    BY <1>7, <1>p DEF QueueOther, Stale
  <2>2. <<Other>> \in Seq(Char \cup {Other}) /\ queue' = queue \o <<Other>>
    BY <1>7 DEF QueueOther
  <2>3. In(queue \o <<Other>>) = In(queue) \cup In(<<Other>>)
    BY ONLY <2>2, TypeOK, InAppendOther DEF TypeOK
  <2> QED
    BY <1>q, <2>1, <2>2, <2>3
<1>8. CASE processEvents
  <2>1. p \in Stale
    BY <1>8, <1>p DEF processEvents, Stale
  <2>2. p[2] \notin Told(p[1])
    BY <1>8, <1>p DEF processEvents
  <2>3. p[2] \notin Cut(p[1]) /\ p \notin missed
    BY <1>8, <1>p DEF processEvents, Miss
  <2>4. PICK i \in 1 .. Len(queue) : queue[i] = p[2]
    BY <1>q, <2>1, <2>3 DEF In
  <2>5. i \in Events(p[1])
    BY <2>1, <2>4 DEF Events, Stale
  <2> QED
    BY <2>2, <2>3, <2>4, <2>5 DEF Cut
<1>9. CASE UNCHANGED vars
  BY <1>9, <1>p, <1>q DEF vars, Stale
<1>10. ASSUME NEW c \in Client, Request(c) PROVE p[2] \in In(queue')
  BY <1>4, <1>5, <1>10 DEF Request
<1> QED
  BY <1>1, <1>2, <1>3, <1>6, <1>7, <1>8, <1>9, <1>10 DEF Next

LEMMA Invariant == Spec => []NotificationInv
<1>1. NotificationInv /\ [Next]_vars => NotificationInv'
  BY NextTypeOK, NextFresh, NextStale DEF NotificationInv
<1> QED
  BY <1>1, InitNotification, PTL DEF Spec

(* The event queue never exceeds its size, and what is subscribed, known   *)
(* and missed is of controllers and characteristics there are, whatever    *)
(* connects, asks and is updated.                                          *)
THEOREM TypeIsInvariant == Spec => []TypeOK
<1>1. NotificationInv => TypeOK
  BY DEF NotificationInv
<1> QED
  BY <1>1, Invariant, PTL

(* A subscriber that does not know the current value has an event coming,  *)
(* or belongs to those the code gives up on: whatever the number of        *)
(* controllers, the size of the queue and the order of requests, plugin    *)
(* updates, disconnects and drains.                                        *)
THEOREM StaleAlwaysQueued == Spec => []StaleIsQueued
<1>1. NotificationInv => StaleIsQueued
  BY DEF NotificationInv
<1> QED
  BY <1>1, Invariant, PTL
=============================================================================
