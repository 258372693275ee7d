------------------------------ MODULE EventRing ------------------------------
(***************************************************************************)
(* The array of an EventManager::EventQueue (src/src/HAP/EventManager.h,   *)
(* 320-356): what EventQueue and EventQueuePreempt have in common.         *)
(***************************************************************************)
EXTENDS Integers

CONSTANTS kEventQueueSize,  \* EVENTMANAGER_EVENT_QUEUE_SIZE
          Code,             \* the event codes callers queue
          kEventNone        \* the code of a cleared slot

ASSUME QueueAssumption == /\ kEventQueueSize \in Nat \ {0}
                          /\ kEventNone \notin Code

Index == 0 .. kEventQueueSize - 1

Advance(i) == (i + 1) % kEventQueueSize
=============================================================================
