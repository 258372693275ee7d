--------------------------- MODULE DispatchProofs ---------------------------
(***************************************************************************)
(* Proofs about Dispatch for every set of plugins, size of accessories,    *)
(* queue and table.  They rest on how many events of a code a queue holds  *)
(* after queueEvent (CountQueued) and popEvent (CountTaken): an increment  *)
(* is in the number, in the queue, or lost (NumberInv), a notification of  *)
(* a pass is in the array or still in the queue (PassInv).                 *)
(***************************************************************************)
EXTENDS Dispatch, FiniteSetTheorems, FunctionTheorems, TLAPS

Fits(q) == q \in Seq(Code) /\ Len(q) <= QueueSize

LEMMA CountType ==
  ASSUME NEW q \in Seq(Code), NEW c
  PROVE  /\ IsFiniteSet({ i \in DOMAIN q : q[i] = c })
         /\ InQueue(q, c) \in Nat
<1>1. IsFiniteSet(1 .. Len(q))
  BY FS_Interval
<1>2. { i \in DOMAIN q : q[i] = c } \in SUBSET (1 .. Len(q))
  OBVIOUS
<1>3. IsFiniteSet({ i \in DOMAIN q : q[i] = c })
  BY <1>1, <1>2, FS_Subset
<1> QED
  BY <1>3, FS_CardinalityType DEF InQueue

LEMMA CountNone ==
  ASSUME NEW c
  PROVE  InQueue(<< >>, c) = 0
<1>1. { i \in DOMAIN << >> : << >>[i] = c } = {}
  OBVIOUS
<1> QED
  BY <1>1, FS_EmptySet DEF InQueue

LEMMA AcceptedSome ==
  ASSUME NEW q, Fits(q), NEW n \in Nat
  PROVE  Accepted(q, n) \in 0 .. n /\ Accepted(q, n) \in Nat
  BY DispatchAssumption DEF Accepted, Lesser, Fits

(* queueEvent adds what it accepts, of its code only. *)
LEMMA CountQueued ==
  ASSUME NEW q, Fits(q), NEW d \in Code, NEW n \in Nat
  PROVE  /\ Fits(Queued(q, d, n))
         /\ \A c \in Code : InQueue(Queued(q, d, n), c)
                              = InQueue(q, c) + IF c = d THEN Accepted(q, n) ELSE 0
<1> DEFINE k == Accepted(q, n)
           more == [i \in 1 .. k |-> d]
           r == q \o more
<1>1. k \in Nat /\ Len(q) \in Nat /\ q \in Seq(Code) /\ Len(q) + k <= QueueSize
  BY AcceptedSome, DispatchAssumption DEF Fits, Accepted, Lesser
<1> HIDE DEF k
<1>2. more \in Seq(Code) /\ Len(more) = k
  BY <1>1
<1> HIDE DEF more
<1>3. r \in Seq(Code) /\ Len(r) = Len(q) + k
  BY <1>1, <1>2
<1>4. Queued(q, d, n) = r
  BY DEF Queued, more, k
<1>5. ASSUME NEW c \in Code
      PROVE  InQueue(r, c) = InQueue(q, c) + IF c = d THEN k ELSE 0
  <2> DEFINE S == { i \in DOMAIN q : q[i] = c }
             T == IF c = d THEN (Len(q) + 1) .. (Len(q) + k) ELSE {}
  <2>1. \A i \in 1 .. Len(q) : r[i] = q[i]
    BY <1>1, <1>2
  <2>2. \A i \in (Len(q) + 1) .. (Len(q) + k) : r[i] = d
    <3> SUFFICES ASSUME NEW i \in (Len(q) + 1) .. (Len(q) + k)
                 PROVE  r[i] = d
      OBVIOUS
    <3>1. r[i] = more[i - Len(q)]
      BY <1>1, <1>2
    <3> QED
      BY <3>1, <1>1 DEF more
  <2>3. { i \in DOMAIN r : r[i] = c } = S \cup T
    BY <2>1, <2>2, <1>1, <1>3
  <2>4. S \cap T = {}
    BY <1>1
  <2>5. IsFiniteSet(S) /\ Cardinality(S) \in Nat
    BY <1>1, CountType, FS_CardinalityType
  <2>6. IsFiniteSet(T) /\ Cardinality(T) = IF c = d THEN k ELSE 0
    <3>1. Len(q) + 1 \in Int /\ Len(q) + k \in Int
      BY <1>1
    <3>2. /\ IsFiniteSet((Len(q) + 1) .. (Len(q) + k))
          /\ Cardinality((Len(q) + 1) .. (Len(q) + k)) = k
      BY <3>1, <1>1, FS_Interval
    <3> QED
      BY <3>2, FS_EmptySet, Zenon
  <2>7. Cardinality(S \cup T) = Cardinality(S) + Cardinality(T)
    <3>1. Cardinality(T) \in Nat
      BY <2>6, FS_CardinalityType
    <3> HIDE DEF S, T
    <3>2. Cardinality(S \cup T) = Cardinality(S) + Cardinality(T) - Cardinality(S \cap T)
      BY <2>5, <2>6, FS_Union
    <3>3. Cardinality(S \cap T) = 0
      BY <2>4, FS_EmptySet
    <3> QED
      BY <2>5, <3>1, <3>2, <3>3
  <2> QED
    BY <2>3, <2>6, <2>7 DEF InQueue
<1> QED
  BY <1>1, <1>3, <1>4, <1>5 DEF Fits, k

(* popEvent takes one event of its code away. *)
LEMMA CountTaken ==
  ASSUME NEW q, Fits(q), q # << >>, NEW c \in Code
  PROVE  /\ Fits(Tail(q)) /\ Head(q) \in Code
         /\ InQueue(q, c) = InQueue(Tail(q), c) + IF Head(q) = c THEN 1 ELSE 0
<1> DEFINE t == Tail(q)
           S == { i \in DOMAIN t : t[i] = c }
           T == { i \in DOMAIN q \ {1} : q[i] = c }
           f == [i \in S |-> i + 1]
<1>1. q \in Seq(Code) /\ Len(q) \in Nat \ {0} /\ t \in Seq(Code) /\ Len(t) = Len(q) - 1
  BY DEF Fits
<1>2. \A i \in 1 .. Len(t) : t[i] = q[i + 1]
  BY <1>1
<1>3. Fits(t) /\ Head(q) \in Code
  BY <1>1, DispatchAssumption DEF Fits
<1>4. f \in Bijection(S, T)
  <2>1. f \in [S -> T]
    BY <1>1, <1>2
  <2>2. \A a, b \in S : f[a] = f[b] => a = b
    BY <1>1
  <2>3. \A i \in T : \E j \in S : f[j] = i
    <3> SUFFICES ASSUME NEW i \in T
                 PROVE  \E j \in S : f[j] = i
      OBVIOUS
    <3>1. i - 1 \in 1 .. Len(t) /\ (i - 1) + 1 = i
      BY <1>1
    <3>2. i - 1 \in S
      BY <3>1, <1>1, <1>2
    <3> QED
      BY <3>1, <3>2
  <2> QED
    BY <2>1, <2>2, <2>3 DEF Bijection, Injection, Surjection, IsInjective
<1>5. IsFiniteSet(S) /\ Cardinality(S) \in Nat
  BY <1>1, CountType, FS_CardinalityType
<1>6. IsFiniteSet(T) /\ Cardinality(T) = Cardinality(S)
  <2> HIDE DEF f, S, T
  <2> QED
    BY <1>4, <1>5, FS_Bijection DEF ExistsBijection
<1>7. /\ Head(q) = c => { i \in DOMAIN q : q[i] = c } = T \cup {1}
      /\ Head(q) # c => { i \in DOMAIN q : q[i] = c } = T
  BY <1>1
<1>8. Cardinality(T \cup {1}) = Cardinality(T) + 1
  <2>1. 1 \notin T
    OBVIOUS
  <2> HIDE DEF T
  <2> QED
    BY <2>1, <1>6, FS_AddElement
<1>9. InQueue(t, c) = Cardinality(S)
  BY DEF InQueue
<1>10. InQueue(q, c) = Cardinality({ i \in DOMAIN q : q[i] = c })
  BY DEF InQueue
<1> HIDE DEF S, T, t
<1>11. CASE Head(q) = c
  BY <1>11, <1>3, <1>5, <1>6, <1>7, <1>8, <1>9, <1>10 DEF t
<1>12. CASE Head(q) # c
  <2>1. InQueue(q, c) = Cardinality(T)
    BY <1>12, <1>7, <1>10
  <2> QED
    BY <2>1, <1>12, <1>3, <1>5, <1>6, <1>9 DEF t
<1> QED
  BY <1>11, <1>12
-----------------------------------------------------------------------------
(* What Init and Restart begin with. *)
LEMMA Fresh ==
  /\ Fits(<< >>)
  /\ Fits(Queued(<< >>, "increment", BridgeChars))
  /\ Accepted(<< >>, BridgeChars) \in 0 .. BridgeChars
  /\ ServerListeners \subseteq Listener /\ IsFiniteSet(ServerListeners)
<1>1. Fits(<< >>) /\ "increment" \in Code
  BY DispatchAssumption DEF Fits, Code, ServerCodes
<1>2. /\ Fits(Queued(<< >>, "increment", BridgeChars))
      /\ Accepted(<< >>, BridgeChars) \in 0 .. BridgeChars
  BY <1>1, AcceptedSome, CountQueued, DispatchAssumption
<1> DEFINE one == {Entry("increment", "server")}
           two == one \cup {Entry("config", "server")}
<1>3. ServerListeners = two \cup {Entry("press", "server")}
  BY DEF ServerListeners, ServerCodes
<1>4. IsFiniteSet(one)
  BY FS_Singleton
<1>5. IsFiniteSet(two)
  <2> HIDE DEF one
  <2> QED
    BY <1>4, FS_AddElement
<1>6. IsFiniteSet(ServerListeners)
  <2> HIDE DEF two
  <2> QED
    BY <1>3, <1>5, FS_AddElement
<1>7. ServerListeners \subseteq Listener
  BY DEF ServerListeners, Listener, Entry, Code
<1> QED
  BY <1>1, <1>2, <1>6, <1>7

LEMMA TypeInit == Init => TypeOK
<1> SUFFICES ASSUME Init PROVE TypeOK
  OBVIOUS
<1>1. lost \in Nat
  BY Fresh, DispatchAssumption DEF Init
<1> QED
  BY <1>1, Fresh, DispatchAssumption DEF Init, TypeOK, Fits

(* What begin() makes of the table for one plugin. *)
LEMMA Registered ==
  ASSUME TypeOK, NEW p \in Plugin
  PROVE  /\ WithListenersOf(p) \subseteq listeners \cup {Entry("pairing", p), Entry("notify", p)}
         /\ listeners \subseteq WithListenersOf(p)
         /\ WithListenersOf(p) \subseteq Listener
         /\ IsFiniteSet(WithListenersOf(p))
         /\ removeListener(WithListenersOf(p), p) \subseteq Listener
         /\ IsFiniteSet(removeListener(WithListenersOf(p), p))
<1> DEFINE t == addListener(listeners, Entry("pairing", p))
           w == WithListenersOf(p)
<1>1. listeners \subseteq Listener /\ IsFiniteSet(listeners)
  BY DEF TypeOK
<1>2. /\ t \subseteq listeners \cup {Entry("pairing", p)}
      /\ listeners \subseteq t /\ IsFiniteSet(t)
  BY <1>1, FS_AddElement DEF addListener
<1>3. /\ w \subseteq t \cup {Entry("notify", p)} /\ t \subseteq w /\ IsFiniteSet(w)
  BY <1>2, FS_AddElement DEF addListener, WithListenersOf
<1>4. Entry("pairing", p) \in Listener /\ Entry("notify", p) \in Listener
  BY DEF Entry, Listener, Code, PluginCodes
<1> HIDE DEF t, w
<1>5. w \subseteq Listener
  BY <1>1, <1>2, <1>3, <1>4
<1>6. removeListener(w, p) \in SUBSET w
  BY DEF removeListener
<1>7. IsFiniteSet(removeListener(w, p))
  BY <1>3, <1>6, FS_Subset
<1> QED
  BY <1>2, <1>3, <1>5, <1>6, <1>7 DEF w

LEMMA Added ==
  ASSUME TypeOK, NEW n \in Nat, AddCharacteristics(n)
  PROVE  Fits(high') /\ lost' \in Nat /\ chars' \in Nat
<1>1. Fits(high) /\ lost \in Nat /\ chars \in Nat
  BY DEF TypeOK, Fits
<1>2. Accepted(high, n) \in 0 .. n
  BY <1>1, AcceptedSome
<1>3. Fits(high')
  BY <1>1, CountQueued DEF AddCharacteristics, Code, ServerCodes
<1> QED
  BY <1>1, <1>2, <1>3 DEF AddCharacteristics

LEMMA Sent ==
  ASSUME TypeOK, NEW c \in Code, sendEvent(c), Keep(c)
  PROVE  /\ configurationNumber' \in Nat /\ advertised' \in Nat /\ taken' \in Nat
         /\ pc' \in {pc, "fault"}
<1>1. Called(c) \in SUBSET listeners
  BY DEF Called
<1>2. Cardinality(Called(c)) \in Nat
  BY <1>1, FS_Subset, FS_CardinalityType DEF TypeOK
<1> DEFINE n == IF c = "increment" THEN Cardinality(Called(c)) ELSE 0
<1>3. n \in Nat
  BY <1>2
<1>4. Increment(n)
  BY DEF sendEvent
<1> HIDE DEF n
<1>5. configurationNumber' \in Nat /\ advertised' \in Nat
  BY <1>3, <1>4 DEF Increment, TypeOK
<1> QED
  BY <1>5 DEF sendEvent, Keep, TypeOK

LEMMA TypeStep == TypeOK /\ [Next]_vars => TypeOK'
<1> SUFFICES ASSUME TypeOK, [Next]_vars PROVE TypeOK'
  OBVIOUS
<1>0. Fits(high) /\ Fits(low) /\ "increment" \in Code
  BY DEF TypeOK, Fits, Code, ServerCodes
<1>1. ASSUME NEW p \in Plugin, LoadPlugin(p) PROVE TypeOK'
  <2>1. loaded' \subseteq Plugin /\ loaded \subseteq loaded' /\ p \in loaded'
    BY <1>1 DEF LoadPlugin, TypeOK
  <2>2. listeners' \subseteq Listener /\ IsFiniteSet(listeners')
    BY <1>1, Registered DEF LoadPlugin, Starts, Fails, IsDisabled
  <2>3. alive' \subseteq loaded'
    BY <1>1, <2>1 DEF LoadPlugin, Starts, Fails, IsDisabled, TypeOK
  <2>4. Fits(high') /\ lost' \in Nat /\ chars' \in Nat
    <3>1. CASE Starts(p)
      <4>1. Chars[p] \in Nat
        BY DispatchAssumption
      <4> QED
        BY <3>1, <4>1, Added DEF Starts
    <3>2. CASE Fails(p) \/ IsDisabled(p)
      BY <3>2, <1>0 DEF Fails, IsDisabled, TypeOK
    <3> QED
      BY <3>1, <3>2, <1>1 DEF LoadPlugin
  <2> QED
    BY <1>1, <2>1, <2>2, <2>3, <2>4
    DEF LoadPlugin, TypeOK, Fits, number, pass
<1>2. CASE Loaded
  <2>1. Fits(high')
    BY <1>0, <1>2, CountQueued DEF Loaded, Code
  <2> QED
    BY <1>2, <2>1 DEF Loaded, TypeOK, Fits, number, pass
<1>3. CASE TakeHigh
  <2>1. Fits(high') /\ Head(high) \in Code
    BY <1>0, <1>3, CountTaken DEF TakeHigh
  <2>2. /\ configurationNumber' \in Nat /\ advertised' \in Nat /\ taken' \in Nat
        /\ pc' \in {pc, "fault"}
    BY <1>3, <2>1, Sent DEF TakeHigh
  <2> QED
    BY <1>3, <2>1, <2>2 DEF TakeHigh, TypeOK, Fits
<1>4. CASE TakeLow
  <2>1. Fits(low') /\ Head(low) \in Code
    BY <1>0, <1>4, CountTaken DEF TakeLow
  <2>2. /\ configurationNumber' \in Nat /\ advertised' \in Nat /\ taken' \in Nat
        /\ pc' \in {pc, "fault"}
    BY <1>4, <2>1, Sent DEF TakeLow
  <2> QED
    BY <1>4, <2>1, <2>2 DEF TakeLow, TypeOK, Fits
<1>5. CASE HighDone
  BY <1>5 DEF HighDone, TypeOK, queues, number, pass
<1>6. CASE LowDone
  BY <1>6 DEF LowDone, TypeOK, queues, pass
<1>7. CASE BeginPass
  <2>1. InQueue(high, "notify") \in Nat /\ InQueue(low, "notify") \in Nat
    BY <1>0, CountType DEF Fits
  <2>2. counted' \in Nat
    BY <1>7, <2>1 DEF BeginPass
  <2> QED
    BY <1>7, <2>2 DEF BeginPass, TypeOK, queues, number
<1>8. ASSUME NEW c \in PluginCodes, QueueIdle(c) PROVE TypeOK'
  <2>1. Fits(high')
    BY <1>0, <1>8, CountQueued DEF QueueIdle, Code
  <2> QED
    BY <1>8, <2>1 DEF QueueIdle, TypeOK, Fits, number, pass
<1>9. CASE AddDevice
  <2>1. Fits(high') /\ lost' \in Nat /\ chars' \in Nat
    BY <1>9, Added, DispatchAssumption DEF AddDevice
  <2>2. Fits(low')
    BY <1>0, <1>9, CountQueued DEF AddDevice, Code, ServerCodes
  <2> QED
    BY <1>9, <2>1, <2>2 DEF AddDevice, TypeOK, Fits, number, pass
<1>10. CASE Press
  <2>1. Fits(high')
    BY <1>0, <1>10, CountQueued DEF Press, Pressed, Code, ServerCodes
  <2> QED
    BY <1>10, <2>1 DEF Press, TypeOK, Fits, number, pass
<1>11. CASE Fetch
  BY <1>11 DEF Fetch, TypeOK, Whole, queues, number, pass
<1>12. CASE Restart
  <2>1. lost' \in Nat
    BY <1>12, Fresh, DispatchAssumption DEF Restart, Begin
  <2> QED
    BY <1>12, <2>1, Fresh, DispatchAssumption DEF Restart, Begin, TypeOK, Fits
<1>13. CASE UNCHANGED vars
  BY <1>13 DEF vars, TypeOK, queues, number, pass
<1> QED
  BY <1>1, <1>2, <1>3, <1>4, <1>5, <1>6, <1>7, <1>8, <1>9, <1>10, <1>11, <1>12, <1>13
  DEF Next, Loop

(* Each variable stays in its domain; the queues keep to their size. *)
THEOREM TypeIsInvariant == Spec => []TypeOK
  BY TypeInit, TypeStep, PTL DEF Spec
-----------------------------------------------------------------------------
(* The server's own listeners are in the table, those of plugins have the  *)
(* codes plugins ask for, and those without an object are of disabled      *)
(* plugins.                                                                *)
ListInv == /\ ServerListeners \subseteq listeners
           /\ \A l \in listeners : \/ l \in ServerListeners
                                   \/ l.code \in PluginCodes /\ l.callback \in Plugin
           /\ DeadIsDisabled

LEMMA ListInit == Init => ListInv
<1> SUFFICES ASSUME Init PROVE ListInv
  OBVIOUS
<1>1. \A l \in ServerListeners : l.callback = "server"
  BY DEF ServerListeners, Entry
<1> QED
  BY <1>1 DEF Init, ListInv, DeadIsDisabled

(* A walk goes wrong only at a listener whose object is gone. *)
LEMMA SendFaults ==
  ASSUME ListInv, NEW c, sendEvent(c), pc' = "fault"
  PROVE  pc = "fault" \/ disabled # {}
  BY DEF ListInv, DeadIsDisabled, sendEvent, Called

LEMMA ListStep == TypeOK /\ ListInv /\ [Next]_vars => ListInv'
<1> SUFFICES ASSUME TypeOK, ListInv, [Next]_vars PROVE ListInv'
  OBVIOUS
<1>0. \A l \in ServerListeners : l.callback = "server"
  BY DEF ServerListeners, Entry
<1>1. ASSUME NEW p \in Plugin, LoadPlugin(p) PROVE ListInv'
  <2> DEFINE w == WithListenersOf(p)
             new == {Entry("pairing", p), Entry("notify", p)}
  <2>1. w \subseteq listeners \cup new /\ listeners \subseteq w
    BY Registered
  <2>2. \A l \in new : l.code \in PluginCodes /\ l.callback = p
    BY DEF Entry, PluginCodes
  <2>3. p # "server"
    BY DispatchAssumption
  <2> HIDE DEF w, new
  <2>4. CASE Starts(p)
    <3>1. listeners' = w /\ alive' = alive \cup {p}
      BY <2>4 DEF Starts, w
    <3>2. pc' = pc /\ disabled' = disabled
      BY <1>1 DEF LoadPlugin
    <3> QED
      BY <3>1, <3>2, <2>1, <2>2 DEF ListInv, DeadIsDisabled
  <2>5. CASE Fails(p)
    <3>1. listeners' = { l \in w : l.callback # p } /\ alive' = alive
      BY <2>5 DEF Fails, removeListener, w
    <3>2. pc' = pc /\ disabled' = disabled
      BY <1>1 DEF LoadPlugin
    <3>3. listeners' \subseteq listeners /\ ServerListeners \subseteq listeners'
      BY <3>1, <2>1, <2>2, <2>3, <1>0 DEF ListInv
    <3> QED
      BY <3>1, <3>2, <3>3 DEF ListInv, DeadIsDisabled
  <2>6. CASE IsDisabled(p)
    <3>1. listeners' = w /\ alive' = alive /\ p \in disabled
      BY <2>6 DEF IsDisabled, w
    <3>2. pc' = pc /\ disabled' = disabled
      BY <1>1 DEF LoadPlugin
    <3> QED
      BY <3>1, <3>2, <2>1, <2>2 DEF ListInv, DeadIsDisabled
  <2> QED
    BY <1>1, <2>4, <2>5, <2>6 DEF LoadPlugin
<1>2. CASE Loaded
  BY <1>2 DEF Loaded, ListInv, DeadIsDisabled
<1>3. CASE TakeHigh
  <2>1. pc' = "fault" => pc = "fault" \/ disabled # {}
    BY <1>3, SendFaults DEF TakeHigh
  <2> QED
    BY <1>3, <2>1 DEF TakeHigh, ListInv, DeadIsDisabled
<1>4. CASE TakeLow
  <2>1. pc' = "fault" => pc = "fault" \/ disabled # {}
    BY <1>4, SendFaults DEF TakeLow
  <2> QED
    BY <1>4, <2>1 DEF TakeLow, ListInv, DeadIsDisabled
<1>5. CASE HighDone
  BY <1>5 DEF HighDone, ListInv, DeadIsDisabled
<1>6. CASE LowDone
  BY <1>6 DEF LowDone, ListInv, DeadIsDisabled
<1>7. CASE BeginPass
  BY <1>7 DEF BeginPass, ListInv, DeadIsDisabled
<1>8. ASSUME NEW c \in PluginCodes, QueueIdle(c) PROVE ListInv'
  BY <1>8 DEF QueueIdle, ListInv, DeadIsDisabled
<1>9. CASE AddDevice
  BY <1>9 DEF AddDevice, ListInv, DeadIsDisabled
<1>10. CASE Press
  BY <1>10 DEF Press, ListInv, DeadIsDisabled
<1>11. CASE Fetch
  BY <1>11 DEF Fetch, ListInv, DeadIsDisabled
<1>12. CASE Restart
  BY <1>12, <1>0 DEF Restart, Begin, ListInv, DeadIsDisabled
<1>13. CASE UNCHANGED vars
  BY <1>13 DEF vars, ListInv, DeadIsDisabled
<1> QED
  BY <1>1, <1>2, <1>3, <1>4, <1>5, <1>6, <1>7, <1>8, <1>9, <1>10, <1>11, <1>12, <1>13
  DEF Next, Loop

(* Only a plugin the configuration disabled leaves listeners behind that   *)
(* point to a deleted object.                                              *)
THEOREM OnlyDisabledLeaveListeners == Spec => []DeadIsDisabled
<1>1. ListInv => DeadIsDisabled
  BY DEF ListInv
<1> QED
  BY <1>1, TypeIsInvariant, ListInit, ListStep, PTL DEF Spec
-----------------------------------------------------------------------------
(* Notifications: while the high priority queue is drained, those taken    *)
(* and those still queued are no more than were counted.                   *)
PassInv == /\ InQueue(low, "notify") = 0
           /\ taken <= counted
           /\ pc \in {"load", "bootHigh", "bootLow", "idle"} => taken = 0
           /\ pc = "high" => taken + InQueue(high, "notify") <= counted

LEMMA PassInit == Init => PassInv
  BY CountNone DEF Init, PassInv

LEMMA PassStep == TypeOK /\ PassInv /\ [Next]_vars => PassInv'
<1> SUFFICES ASSUME TypeOK, PassInv, [Next]_vars PROVE PassInv'
  OBVIOUS
<1>0. /\ Fits(high) /\ Fits(low)
      /\ {"increment", "config", "press", "started", "notify"} \subseteq Code
  BY DEF TypeOK, Fits, Code, ServerCodes, PluginCodes
<1>00. /\ InQueue(high, "notify") \in Nat /\ InQueue(low, "notify") \in Nat
       /\ counted \in Nat /\ taken \in Nat
  BY <1>0, CountType DEF TypeOK, Fits
<1>1. ASSUME NEW p \in Plugin, LoadPlugin(p) PROVE PassInv'
  BY <1>1 DEF LoadPlugin, PassInv, pass
<1>2. CASE Loaded
  BY <1>2 DEF Loaded, PassInv, pass
<1>3. CASE TakeHigh
  <2>1. /\ InQueue(high, "notify")
             = InQueue(high', "notify") + IF Head(high) = "notify" THEN 1 ELSE 0
        /\ Fits(high')
    BY <1>0, <1>3, CountTaken DEF TakeHigh
  <2>2. InQueue(high', "notify") \in Nat
    BY <2>1, CountType DEF Fits
  <2>3. pc' \in {pc, "fault"}
    BY <1>3 DEF TakeHigh, sendEvent
  <2>4. CASE Booting
    <3>1. taken' = taken /\ pc' # "high"
      BY <1>3, <2>3, <2>4 DEF TakeHigh, Keep, Booting
    <3> QED
      BY <1>3, <2>3, <2>4, <3>1 DEF TakeHigh, PassInv, Booting
  <2>5. CASE ~ Booting
    <3>1. pc = "high"
      BY <1>3, <2>5 DEF TakeHigh, Booting
    <3>2. taken' = IF Head(high) = "notify" THEN taken + 1 ELSE taken
      BY <1>3, <2>5 DEF TakeHigh, Keep
    <3>3. taken' + InQueue(high', "notify") <= counted /\ taken' <= counted
      BY <3>1, <3>2, <2>1, <2>2, <1>00 DEF PassInv
    <3>4. counted' = counted /\ low' = low
      BY <1>3 DEF TakeHigh
    <3> QED
      BY <3>1, <3>3, <3>4, <2>3 DEF PassInv
  <2> QED
    BY <2>4, <2>5
<1>4. CASE TakeLow
  <2>1. /\ InQueue(low, "notify")
             = InQueue(low', "notify") + IF Head(low) = "notify" THEN 1 ELSE 0
        /\ Fits(low')
    BY <1>0, <1>4, CountTaken DEF TakeLow
  <2>2. InQueue(low', "notify") \in Nat
    BY <2>1, CountType DEF Fits
  <2>3. Head(low) # "notify" /\ InQueue(low', "notify") = 0
    BY <2>1, <2>2 DEF PassInv
  <2>4. taken' = taken /\ counted' = counted /\ pc' \in {pc, "fault"} /\ pc # "high"
    BY <1>4, <2>3 DEF TakeLow, Keep, sendEvent
  <2> QED
    BY <1>4, <2>3, <2>4 DEF PassInv
<1>5. CASE HighDone
  BY <1>5 DEF HighDone, PassInv, queues, pass
<1>6. CASE LowDone
  BY <1>6 DEF LowDone, PassInv, queues
<1>7. CASE BeginPass
  BY <1>7, <1>00 DEF BeginPass, PassInv, queues
<1>8. ASSUME NEW c \in PluginCodes, QueueIdle(c) PROVE PassInv'
  BY <1>8 DEF QueueIdle, PassInv, pass
<1>9. CASE AddDevice
  <2>1. InQueue(low', "notify") = InQueue(low, "notify") + 0
    BY <1>0, <1>9, CountQueued DEF AddDevice
  <2> QED
    BY <1>9, <2>1, <1>00 DEF AddDevice, PassInv, pass
<1>10. CASE Press
  <2>1. InQueue(high', "notify") = InQueue(high, "notify") + 0
    BY <1>0, <1>10, CountQueued DEF Press, Pressed
  <2> QED
    BY <1>10, <2>1, <1>00 DEF Press, PassInv, pass
<1>11. CASE Fetch
  BY <1>11 DEF Fetch, PassInv, queues, pass
<1>12. CASE Restart
  BY <1>12, CountNone DEF Restart, Begin, PassInv
<1>13. CASE UNCHANGED vars
  BY <1>13 DEF vars, PassInv, queues, pass
<1> QED
  BY <1>1, <1>2, <1>3, <1>4, <1>5, <1>6, <1>7, <1>8, <1>9, <1>10, <1>11, <1>12, <1>13
  DEF Next, Loop

(* The array of processEvents is never too small, whatever is queued       *)
(* beside the loop.                                                        *)
THEOREM NeverOverruns == Spec => []NoOverrun
<1>1. PassInv => NoOverrun
  BY DEF PassInv, NoOverrun
<1> QED
  BY <1>1, TypeIsInvariant, PassInit, PassStep, PTL DEF Spec
-----------------------------------------------------------------------------
(* Every characteristic is in the number, in the queue, or lost.           *)
NumberInv == /\ configurationNumber + InQueue(high, "increment") + lost = FirstNumber + chars
             /\ InQueue(low, "increment") = 0
             /\ pc \in {"idle", "high", "low"} => advertised = configurationNumber
             /\ seen.whole => seen.number = FirstNumber + seen.chars

LEMMA NumberInit == Init => NumberInv
<1> SUFFICES ASSUME Init PROVE NumberInv
  OBVIOUS
<1>1. "increment" \in Code
  BY DEF Code, ServerCodes
<1>2. InQueue(high, "increment") = 0 + Accepted(<< >>, BridgeChars)
  BY <1>1, Fresh, CountQueued, CountNone, DispatchAssumption DEF Init
<1> QED
  BY <1>2, Fresh, CountNone, DispatchAssumption DEF Init, NumberInv

(* Characteristics are accounted for when they are added. *)
LEMMA AddedCount ==
  ASSUME TypeOK, NEW n \in Nat, AddCharacteristics(n), UNCHANGED configurationNumber,
         configurationNumber + InQueue(high, "increment") + lost = FirstNumber + chars
  PROVE  configurationNumber' + InQueue(high', "increment") + lost' = FirstNumber + chars'
<1>1. Fits(high) /\ "increment" \in Code
  BY DEF TypeOK, Fits, Code, ServerCodes
<1>2. InQueue(high', "increment") = InQueue(high, "increment") + Accepted(high, n)
  BY <1>1, CountQueued DEF AddCharacteristics
<1>3. InQueue(high, "increment") \in Nat /\ Accepted(high, n) \in Nat
  BY <1>1, CountType, AcceptedSome DEF Fits
<1>4. lost' = lost + n - Accepted(high, n) /\ chars' = chars + n
  BY DEF AddCharacteristics
<1>5. /\ configurationNumber \in Nat /\ lost \in Nat /\ chars \in Nat
      /\ FirstNumber \in Nat
  BY DispatchAssumption DEF TypeOK
<1> DEFINE a == Accepted(high, n)
           i == InQueue(high, "increment")
           j == InQueue(high', "increment")
<1> HIDE DEF a, i, j
<1>6. j = i + a /\ i \in Nat /\ a \in Nat /\ lost' = lost + n - a
  BY <1>2, <1>3, <1>4 DEF a, i, j
<1>7. configurationNumber + i + lost = FirstNumber + chars
  BY DEF i
<1>8. configurationNumber + j + lost' = FirstNumber + chars'
  BY <1>4, <1>5, <1>6, <1>7
<1> QED
  BY <1>8 DEF j

(* The server alone listens to increments. *)
LEMMA OneListener ==
  ASSUME ListInv
  PROVE  Cardinality(Called("increment")) = 1
<1>1. Entry("increment", "server") \in Called("increment")
  BY DEF ListInv, ServerListeners, ServerCodes, Called, Entry
<1>2. \A l \in Called("increment") : l = Entry("increment", "server")
  BY DEF ListInv, ServerListeners, PluginCodes, Called, Entry
<1>3. Called("increment") = {Entry("increment", "server")}
  BY <1>1, <1>2
<1> QED
  BY <1>3, FS_Singleton

(* What an event does to the number and to the record. *)
LEMMA SentCount ==
  ASSUME TypeOK, ListInv, NumberInv, NEW c, sendEvent(c)
  PROVE  /\ configurationNumber' = configurationNumber + IF c = "increment" THEN 1 ELSE 0
         /\ pc' \in {"idle", "high", "low"} => advertised' = configurationNumber'
<1> DEFINE n == IF c = "increment" THEN Cardinality(Called(c)) ELSE 0
<1>1. n = IF c = "increment" THEN 1 ELSE 0
  BY OneListener
<1>2. Increment(n) /\ pc' \in {pc, "fault"}
  BY DEF sendEvent
<1> HIDE DEF n
<1>3. configurationNumber' = configurationNumber + n
  BY <1>2 DEF Increment
<1>4. ASSUME pc' \in {"idle", "high", "low"} PROVE advertised' = configurationNumber'
  <2>1. pc \in {"idle", "high", "low"} /\ ~ Booting
    BY <1>2, <1>4 DEF Booting
  <2>2. advertised = configurationNumber
    BY <2>1 DEF NumberInv
  <2>3. advertised' = IF n = 0 THEN advertised ELSE configurationNumber + n
    BY <1>2, <2>1 DEF Increment
  <2> QED
    BY <1>1, <1>3, <2>2, <2>3 DEF TypeOK
<1> QED
  BY <1>1, <1>3, <1>4

LEMMA NumberStep == TypeOK /\ ListInv /\ NumberInv /\ [Next]_vars => NumberInv'
<1> SUFFICES ASSUME TypeOK, ListInv, NumberInv, [Next]_vars PROVE NumberInv'
  OBVIOUS
<1>0. /\ Fits(high) /\ Fits(low)
      /\ {"increment", "config", "press", "started", "notify", "pairing"} \subseteq Code
  BY DEF TypeOK, Fits, Code, ServerCodes, PluginCodes
<1>00. /\ InQueue(high, "increment") \in Nat /\ InQueue(low, "increment") \in Nat
       /\ configurationNumber \in Nat /\ lost \in Nat /\ chars \in Nat
  BY <1>0, CountType DEF TypeOK, Fits
<1>1. ASSUME NEW p \in Plugin, LoadPlugin(p) PROVE NumberInv'
  <2>1. configurationNumber' + InQueue(high', "increment") + lost' = FirstNumber + chars'
    <3>1. CASE Starts(p)
      <4>1. Chars[p] \in Nat
        BY DispatchAssumption
      <4> QED
        BY <1>1, <3>1, <4>1, AddedCount DEF Starts, NumberInv, LoadPlugin, number
    <3>2. CASE Fails(p) \/ IsDisabled(p)
      BY <1>1, <3>2 DEF Fails, IsDisabled, NumberInv, LoadPlugin, number
    <3> QED
      BY <1>1, <3>1, <3>2 DEF LoadPlugin
  <2> QED
    BY <1>1, <2>1 DEF LoadPlugin, NumberInv, number
<1>2. CASE Loaded
  <2>1. InQueue(high', "increment") = InQueue(high, "increment") + 0
    BY <1>0, <1>2, CountQueued DEF Loaded
  <2> QED
    BY <1>2, <2>1, <1>00 DEF Loaded, NumberInv, number
<1>3. CASE TakeHigh
  <2>1. /\ InQueue(high, "increment")
             = InQueue(high', "increment") + IF Head(high) = "increment" THEN 1 ELSE 0
        /\ Fits(high')
    BY <1>0, <1>3, CountTaken DEF TakeHigh
  <2>2. InQueue(high', "increment") \in Nat
    BY <2>1, CountType DEF Fits
  <2>3. /\ configurationNumber'
             = configurationNumber + IF Head(high) = "increment" THEN 1 ELSE 0
        /\ pc' \in {"idle", "high", "low"} => advertised' = configurationNumber'
    BY <1>3, SentCount DEF TakeHigh
  <2>4. configurationNumber' + InQueue(high', "increment") + lost = FirstNumber + chars
    BY <2>1, <2>2, <2>3, <1>00 DEF NumberInv
  <2> QED
    BY <1>3, <2>3, <2>4 DEF TakeHigh, NumberInv
<1>4. CASE TakeLow
  <2>1. /\ InQueue(low, "increment")
             = InQueue(low', "increment") + IF Head(low) = "increment" THEN 1 ELSE 0
        /\ Fits(low')
    BY <1>0, <1>4, CountTaken DEF TakeLow
  <2>2. InQueue(low', "increment") \in Nat
    BY <2>1, CountType DEF Fits
  <2>3. Head(low) # "increment" /\ InQueue(low', "increment") = 0
    BY <2>1, <2>2 DEF NumberInv
  <2>4. /\ configurationNumber' = configurationNumber
        /\ pc' \in {"idle", "high", "low"} => advertised' = configurationNumber'
    BY <1>4, <2>3, <1>00, SentCount DEF TakeLow
  <2> QED
    BY <1>4, <2>3, <2>4 DEF TakeLow, NumberInv
<1>5. CASE HighDone
  BY <1>5 DEF HighDone, NumberInv, queues, number
<1>6. CASE LowDone
  BY <1>6 DEF LowDone, NumberInv, queues, Booting
<1>7. CASE BeginPass
  BY <1>7 DEF BeginPass, NumberInv, queues, number
<1>8. ASSUME NEW c \in PluginCodes, QueueIdle(c) PROVE NumberInv'
  <2>1. c \in Code /\ c # "increment"
    BY DEF Code, PluginCodes
  <2>2. InQueue(high', "increment") = InQueue(high, "increment") + 0
    BY <1>0, <1>8, <2>1, CountQueued DEF QueueIdle
  <2> QED
    BY <1>8, <2>2, <1>00 DEF QueueIdle, NumberInv, number
<1>9. CASE AddDevice
  <2>1. configurationNumber' + InQueue(high', "increment") + lost' = FirstNumber + chars'
    BY <1>9, AddedCount, DispatchAssumption DEF AddDevice, NumberInv, number
  <2>2. InQueue(low', "increment") = InQueue(low, "increment") + 0
    BY <1>0, <1>9, CountQueued DEF AddDevice
  <2> QED
    BY <1>9, <2>1, <2>2, <1>00 DEF AddDevice, NumberInv, number
<1>10. CASE Press
  <2>1. InQueue(high', "increment") = InQueue(high, "increment") + 0
    BY <1>0, <1>10, CountQueued DEF Press, Pressed
  <2> QED
    BY <1>10, <2>1, <1>00 DEF Press, NumberInv, number
<1>11. CASE Fetch
  <2>1. /\ pc = "idle" /\ pc' = pc
        /\ UNCHANGED <<high, low, chars, configurationNumber, advertised, lost>>
        /\ seen' = [number |-> advertised, chars |-> chars, whole |-> Whole]
    BY <1>11 DEF Fetch, queues, number
  <2>2. Whole => configurationNumber = FirstNumber + chars
    BY <1>00, DispatchAssumption DEF NumberInv, Whole
  <2>3. seen'.whole => seen'.number = FirstNumber + seen'.chars
    BY <2>1, <2>2 DEF NumberInv
  <2> QED
    BY <2>1, <2>3 DEF NumberInv
<1>12. CASE Restart
  <2>1. InQueue(high', "increment") = 0 + Accepted(<< >>, BridgeChars)
    BY <1>0, <1>12, Fresh, CountQueued, CountNone, DispatchAssumption DEF Restart, Begin
  <2> QED
    BY <1>12, <2>1, Fresh, CountNone, DispatchAssumption DEF Restart, Begin, NumberInv
<1>13. CASE UNCHANGED vars
  BY <1>13 DEF vars, NumberInv, queues, number
<1> QED
  BY <1>1, <1>2, <1>3, <1>4, <1>5, <1>6, <1>7, <1>8, <1>9, <1>10, <1>11, <1>12, <1>13
  DEF Next, Loop

(* Across restarts, plugins and devices: the same number means as many     *)
(* characteristics, unless some increment was lost or still queued.        *)
THEOREM ChangeIsAlwaysNoticed == Spec => []ChangeIsNoticed
<1>1. TypeOK /\ NumberInv => ChangeIsNoticed
  <2> SUFFICES ASSUME TypeOK, NumberInv, pc = "idle", Whole, seen.whole,
                      advertised = seen.number
               PROVE  chars = seen.chars
    BY DEF ChangeIsNoticed
  <2>1. seen.chars \in Nat /\ chars \in Nat /\ configurationNumber \in Nat
    BY DEF TypeOK
  <2> QED
    BY <2>1, DispatchAssumption DEF NumberInv, Whole
<1> QED
  BY <1>1, TypeIsInvariant, ListInit, ListStep, NumberInit, NumberStep, PTL DEF Spec
=============================================================================
