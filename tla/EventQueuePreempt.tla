-------------------------- MODULE EventQueuePreempt --------------------------
(***************************************************************************)
(* EventManager::EventQueue used by two contexts at once: the main loop,   *)
(* which queues and pops, and a context that only queues (an interrupt     *)
(* handler, or on ESP32 the button task, pinned to the other core).  Each  *)
(* load and store of a shared word is a step.  The SuppressInterrupts      *)
(* object of queueEvent and popEvent is no step: on Teensy 4.1 and ESP32,  *)
(* the boards that are built, its constructor and destructor are empty.    *)
(***************************************************************************)
EXTENDS EventRing, FiniteSets

CONSTANTS MaxCalls             \* bound: queueEvent calls per context

Loop == "loop"
Producer == "producer"
Context == {Loop, Producer}

VARIABLES code, owner,       \* the slots: event code, and parameter (who queued it)
          head, tail, num,   \* mEventQueueHead, mEventQueueTail, mNumEvents
          pc, reg, arg,      \* per context: next step, loaded word, event code
          calls,             \* per context: queueEvent calls so far
          accepted, popped,  \* history: events accepted, events handed out
          answer,            \* history: what the last call that took effect returned
          overlapped         \* history: has a call ever begun or gone on inside another?

shared == <<code, owner, head, tail, num>>
vars == <<shared, pc, reg, arg, calls, accepted, popped, answer, overlapped>>

Event == [code : Code, param : Context]
NoEvent == [code |-> kEventNone, param |-> Loop]
Answer(ok, e) == [ok |-> ok, event |-> e]

Init == /\ code = [i \in Index |-> kEventNone]
        /\ owner = [i \in Index |-> Loop]
        /\ head = 0 /\ tail = 0 /\ num = 0
        /\ pc = [c \in Context |-> "idle"]
        /\ reg = [c \in Context |-> 0]
        /\ arg = [c \in Context |-> kEventNone]
        /\ calls = [c \in Context |-> 0]
        /\ accepted = [c \in Context |-> 0]
        /\ popped = [c \in Context |-> 0]
        /\ answer = Answer(FALSE, NoEvent)
        /\ overlapped = FALSE

isFull == num = kEventQueueSize

(* A context moves on, whether or not the other one is inside a call:      *)
(* nothing keeps it out.                                                   *)
Step(c, from, to) == /\ pc[c] = from
                     /\ pc' = [pc EXCEPT ![c] = to]
                     /\ overlapped' = (overlapped \/ \E d \in Context \ {c} : pc[d] # "idle")
-----------------------------------------------------------------------------
(* queueEvent *)
Call(c) == /\ calls[c] < MaxCalls
           /\ calls' = [calls EXCEPT ![c] = @ + 1]
           /\ \E e \in Code : arg' = [arg EXCEPT ![c] = e]
           /\ Step(c, "idle", "check full")
           /\ UNCHANGED <<shared, reg, accepted, popped, answer>>

CheckFull(c) == /\ \/ /\ isFull
                      /\ Step(c, "check full", "idle")
                      /\ answer' = Answer(FALSE, NoEvent)
                   \/ /\ ~ isFull
                      /\ Step(c, "check full", "store code") /\ UNCHANGED answer
                /\ UNCHANGED <<shared, reg, arg, calls, accepted, popped>>

StoreCode(c) == /\ Step(c, "store code", "store param")
                /\ code' = [code EXCEPT ![tail] = arg[c]]
                /\ UNCHANGED <<owner, head, tail, num,
                               reg, arg, calls, accepted, popped, answer>>

StoreParam(c) == /\ Step(c, "store param", "load tail")
                 /\ owner' = [owner EXCEPT ![tail] = c]
                 /\ UNCHANGED <<code, head, tail, num,
                                reg, arg, calls, accepted, popped, answer>>

LoadTail(c) == /\ Step(c, "load tail", "store tail")
               /\ reg' = [reg EXCEPT ![c] = tail]
               /\ UNCHANGED <<shared, arg, calls, accepted, popped, answer>>

StoreTail(c) == /\ Step(c, "store tail", "load count")
                /\ tail' = Advance(reg[c])
                /\ UNCHANGED <<code, owner, head, num,
                               reg, arg, calls, accepted, popped, answer>>

(* mNumEvents++ *)
LoadCount(c) == /\ Step(c, "load count", "store count")
                /\ reg' = [reg EXCEPT ![c] = num]
                /\ UNCHANGED <<shared, arg, calls, accepted, popped, answer>>

StoreCount(c) == /\ Step(c, "store count", "idle")
                 /\ num' = reg[c] + 1
                 /\ accepted' = [accepted EXCEPT ![c] = @ + 1]
                 /\ answer' = Answer(TRUE, NoEvent)
                 /\ UNCHANGED <<code, owner, head, tail, reg, arg, calls, popped>>
-----------------------------------------------------------------------------
(* popEvent, by the main loop only. *)
FindEmpty == /\ num = 0
             /\ Step(Loop, "idle", "idle")
             /\ answer' = Answer(FALSE, NoEvent)
             /\ UNCHANGED <<shared, reg, arg, calls, accepted, popped>>

CheckEmpty == /\ num # 0
              /\ Step(Loop, "idle", "take")
              /\ UNCHANGED <<shared, reg, arg, calls, accepted, popped, answer>>

TakeCode == /\ Step(Loop, "take", "take param")
            /\ arg' = [arg EXCEPT ![Loop] = code[head]]
            /\ UNCHANGED <<shared, reg, calls, accepted, popped, answer>>

TakeParam == /\ Step(Loop, "take param", "clear")
             /\ popped' = [popped EXCEPT ![owner[head]] = @ + 1]
             /\ answer' = Answer(TRUE, [code |-> arg[Loop], param |-> owner[head]])
             /\ UNCHANGED <<shared, reg, arg, calls, accepted>>

ClearCode == /\ Step(Loop, "clear", "move head")
             /\ code' = [code EXCEPT ![head] = kEventNone]
             /\ UNCHANGED <<owner, head, tail, num,
                            reg, arg, calls, accepted, popped, answer>>

MoveHead == /\ Step(Loop, "move head", "load less")
            /\ head' = Advance(head)
            /\ UNCHANGED <<code, owner, tail, num,
                           reg, arg, calls, accepted, popped, answer>>

(* mNumEvents-- *)
LoadLess == /\ Step(Loop, "load less", "store less")
            /\ reg' = [reg EXCEPT ![Loop] = num]
            /\ UNCHANGED <<shared, arg, calls, accepted, popped, answer>>

StoreLess == /\ Step(Loop, "store less", "idle")
             /\ num' = reg[Loop] - 1
             /\ UNCHANGED <<code, owner, head, tail,
                            reg, arg, calls, accepted, popped, answer>>

popEvent == FindEmpty \/ CheckEmpty \/ TakeCode \/ TakeParam \/ ClearCode
              \/ MoveHead \/ LoadLess \/ StoreLess

Continue(c) == CheckFull(c) \/ StoreCode(c) \/ StoreParam(c) \/ LoadTail(c)
                 \/ StoreTail(c) \/ LoadCount(c) \/ StoreCount(c)

queueEvent(c) == Call(c) \/ Continue(c)

Next == popEvent \/ \E c \in Context : queueEvent(c)

Spec == Init /\ [][Next]_vars
-----------------------------------------------------------------------------
(* Where a context can be inside a call.                                   *)
PushAt == {"check full", "store code", "store param", "load tail", "store tail", "load count",
           "store count"}
PopAt == {"take", "take param", "clear", "move head", "load less", "store less"}

Answers == [ok : BOOLEAN, event : [code : Code \cup {kEventNone}, param : Context]]

(* Whatever two contexts do to each other, no index leaves the array and   *)
(* the count does not go below zero; it may go above the size.             *)
TypeOK == /\ code \in [Index -> Code \cup {kEventNone}]
          /\ owner \in [Index -> Context]
          /\ head \in Index /\ tail \in Index /\ num \in Nat
          /\ pc \in [Context -> {"idle"} \cup PushAt \cup PopAt]
          /\ reg \in [Context -> Nat]
          /\ arg \in [Context -> Code \cup {kEventNone}]
          /\ answer \in Answers
          /\ calls \in [Context -> Nat]
          /\ accepted \in [Context -> Nat]
          /\ popped \in [Context -> Nat]
          /\ overlapped \in BOOLEAN

Idle(c) == pc[c] = "idle"
Live == { (head + k) % kEventQueueSize : k \in 0 .. num - 1 }

(* Whenever no call is under way the queue holds exactly the events that   *)
(* were accepted and not yet popped: the count, the indices and the slots  *)
(* agree, whichever context queued them.  The class comment says so:       *)
(* "It always operates in interrupt safe mode, allowing you to queue       *)
(* events from interrupt handlers" (EventManager.h:232).                   *)
SafeForTwoContexts ==
  (\A c \in Context : Idle(c)) =>
    /\ tail = (head + num) % kEventQueueSize
    /\ { i \in Index : code[i] # kEventNone } = Live
    /\ \A c \in Context :
         accepted[c] - popped[c] = Cardinality({ i \in Live : owner[i] = c })

(* As long as no call was interrupted by another the queue is safe for     *)
(* two contexts: events of both may follow each other in any order.        *)
SafeUnlessOverlapped == overlapped \/ SafeForTwoContexts

(* Until then it is a bounded FIFO for two contexts as for one: the events *)
(* leave whole and in the order in which they were counted in, and every   *)
(* answer is that of an uninterrupted call.  A push takes effect when the  *)
(* count is stored, a pop when the parameter has been read.                *)
Gone == pc[Loop] \in {"clear", "move head"}
First == IF Gone THEN Advance(head) ELSE head
Held == IF Gone \/ pc[Loop] \in {"load less", "store less"} THEN num - 1 ELSE num
Contents == [k \in 1 .. Held |->
               LET i == (First + (k - 1)) % kEventQueueSize
               IN  [code |-> code[i], param |-> owner[i]]]
Fifo == INSTANCE EventFifo WITH fifo <- Contents, Capacity <- kEventQueueSize
FifoUnlessOverlapped == /\ Fifo!Init
                        /\ [][overlapped' \/ Fifo!Next]_(Fifo!vars)
=============================================================================
