----------------------------- MODULE EventFifo -----------------------------
(***************************************************************************)
(* What EventManager::EventQueue promises its callers: a FIFO of at most   *)
(* Capacity events.  queueEvent answers TRUE exactly when it stored the    *)
(* event, popEvent answers FALSE exactly when nothing was queued, and      *)
(* events leave in the order in which they were accepted.                  *)
(***************************************************************************)
EXTENDS Integers, Sequences

CONSTANTS Event,     \* the events a caller can queue
          NoEvent,   \* "*eventCode was not written"
          Capacity   \* how many events the queue holds

VARIABLES fifo,      \* the events queued and not yet popped, oldest first
          answer     \* what the last call returned to its caller

vars == <<fifo, answer>>

Answer(ok, e) == [ok |-> ok, event |-> e]

Init == fifo = << >> /\ answer = Answer(FALSE, NoEvent)

Accept(e) == /\ Len(fifo) < Capacity
             /\ fifo' = Append(fifo, e)
             /\ answer' = Answer(TRUE, NoEvent)

Refuse == /\ Len(fifo) = Capacity
          /\ answer' = Answer(FALSE, NoEvent)
          /\ UNCHANGED fifo

Take == /\ fifo # << >>
        /\ fifo' = Tail(fifo)
        /\ answer' = Answer(TRUE, Head(fifo))

Nothing == /\ fifo = << >>
           /\ answer' = Answer(FALSE, NoEvent)
           /\ UNCHANGED fifo

Next == (\E e \in Event : Accept(e)) \/ Refuse \/ Take \/ Nothing

Spec == Init /\ [][Next]_vars
=============================================================================
