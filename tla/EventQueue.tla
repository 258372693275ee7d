----------------------------- MODULE EventQueue -----------------------------
(***************************************************************************)
(* EventManager::EventQueue (src/src/HAP/EventManager.{h,cpp}): the ring   *)
(* buffer behind each of the two event queues of the server, used by one   *)
(* context at a time.  EventQueuePreempt is the same code used by two.     *)
(***************************************************************************)
EXTENDS EventRing, FiniteSets

CONSTANTS Param,            \* values of the HAPEvent parameter
          NoParam           \* HAPEvent() of the constructor

Event == [code : Code, param : Param]
Slot  == [code : Code \cup {kEventNone}, param : Param \cup {NoParam}]
NoEvent == [code |-> kEventNone, param |-> NoParam]

VARIABLES mEventQueue, mEventQueueHead, mEventQueueTail, mNumEvents,
          answer            \* result of the last call, with the event popped

vars == <<mEventQueue, mEventQueueHead, mEventQueueTail, mNumEvents, answer>>

Answer(ok, e) == [ok |-> ok, event |-> e]

TypeOK == /\ mEventQueue \in [Index -> Slot]
          /\ mEventQueueHead \in Index
          /\ mEventQueueTail \in Index
          /\ mNumEvents \in 0 .. kEventQueueSize
          /\ answer \in [ok : BOOLEAN, event : Event \cup {NoEvent}]
-----------------------------------------------------------------------------
isEmpty == mNumEvents = 0
(* Mutant: the check is off by one. *)
isFullLate == mNumEvents = kEventQueueSize + 1

isFull  == mNumEvents = kEventQueueSize

(* The constructor. *)
Init == /\ mEventQueue = [i \in Index |-> NoEvent]
        /\ mEventQueueHead = 0
        /\ mEventQueueTail = 0
        /\ mNumEvents = 0
        /\ answer = Answer(FALSE, NoEvent)

(* queueEvent with room: store at the tail, move the tail, count. *)
Store(e) == /\ ~ isFull
            /\ mEventQueue' = [mEventQueue EXCEPT ![mEventQueueTail] = e]
            /\ mEventQueueTail' = Advance(mEventQueueTail)
            /\ mNumEvents' = mNumEvents + 1
            /\ answer' = Answer(TRUE, NoEvent)
            /\ UNCHANGED mEventQueueHead

(* queueEvent without room: the event is dropped. *)
Drop(e) == /\ isFull
           /\ answer' = Answer(FALSE, NoEvent)
           /\ UNCHANGED <<mEventQueue, mEventQueueHead, mEventQueueTail, mNumEvents>>

queueEvent(e) == Store(e) \/ Drop(e)

(* Mutant: the freed slot keeps its code. *)
RemoveKeepsCode == /\ ~ isEmpty
                   /\ answer' = Answer(TRUE, mEventQueue[mEventQueueHead])
                   /\ mEventQueueHead' = Advance(mEventQueueHead)
                   /\ mNumEvents' = mNumEvents - 1
                   /\ UNCHANGED <<mEventQueue, mEventQueueTail>>

(* popEvent with something queued: copy out, clear the code only, move the head. *)
Remove == /\ ~ isEmpty
          /\ answer' = Answer(TRUE, mEventQueue[mEventQueueHead])
          /\ mEventQueue' = [mEventQueue EXCEPT ![mEventQueueHead].code = kEventNone]
          /\ mEventQueueHead' = Advance(mEventQueueHead)
          /\ mNumEvents' = mNumEvents - 1
          /\ UNCHANGED mEventQueueTail

FindEmpty == /\ isEmpty
             /\ answer' = Answer(FALSE, NoEvent)
             /\ UNCHANGED <<mEventQueue, mEventQueueHead, mEventQueueTail, mNumEvents>>

popEvent == Remove \/ FindEmpty

Next == (\E e \in Event : queueEvent(e)) \/ popEvent

Spec == Init /\ [][Next]_vars
-----------------------------------------------------------------------------
(* The slot that holds the k-th oldest queued event (k counts from 1). *)
SlotOf(k) == (mEventQueueHead + k - 1) % kEventQueueSize
Live == { SlotOf(k) : k \in 1 .. mNumEvents }

(* getNumEventCodeInQueue: every slot is scanned, not only the live ones. *)
getNumEventCodeInQueue(c) == Cardinality({ i \in Index : mEventQueue[i].code = c })

(* The events in the queue, oldest first. *)
Contents == [k \in 1 .. mNumEvents |-> mEventQueue[SlotOf(k)]]

(* The tail is always mNumEvents slots past the head: the three indices,   *)
(* which the code updates one by one, never drift apart.                   *)
TailFollowsHead ==
  mEventQueueTail = (mEventQueueHead + mNumEvents) % kEventQueueSize

(* popEvent clears the code of the slot it frees ("Clear the event         *)
(* (paranoia)"): a slot carries a code exactly while its event is queued.  *)
CodesMarkLiveSlots ==
  \A i \in Index : (mEventQueue[i].code # kEventNone) <=> (i \in Live)

(* A slot in the queued stretch holds what some caller queued, code and    *)
(* parameter: a slot never mixes two events.                               *)
LiveSlotsHoldEvents == \A k \in 1 .. mNumEvents : mEventQueue[SlotOf(k)] \in Event

(* The inductive invariant of the ring. *)
RingInv == TypeOK /\ TailFollowsHead /\ CodesMarkLiveSlots /\ LiveSlotsHoldEvents

(* The scan over all slots therefore counts the queued events of a code    *)
(* and nothing else; handle() sizes an array by this number.               *)
ScanCountsQueued ==
  \A c \in Code : getNumEventCodeInQueue(c)
                    = Cardinality({ k \in 1 .. mNumEvents : Contents[k].code = c })

(* The ring buffer is a bounded FIFO: it accepts until full, loses nothing *)
(* it accepted, and returns events in the order it accepted them.          *)
Fifo == INSTANCE EventFifo WITH fifo <- Contents, Capacity <- kEventQueueSize
ImplementsFifo == Fifo!Spec
=============================================================================
