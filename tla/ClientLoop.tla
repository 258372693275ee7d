----------------------------- MODULE ClientLoop -----------------------------
(***************************************************************************)
(* The connection list of HAPServer::handle: a vector of pointers that a   *)
(* range-for walks while the handlers it calls erase from it.  The loop    *)
(* fixes its end when it starts; erase shifts the later pointers down and  *)
(* leaves the last slot as it was.  HAPServer.tla has what a request does; *)
(* here a request only keeps its connection, ends it, or ends all.         *)
(***************************************************************************)
EXTENDS Integers, FiniteSets

CONSTANTS HAPClient,    \* the HAPClient objects the allocator can hand out
          nullptr,
          MaxClients    \* bound: connections in the vector

ASSUME LoopAssumption == nullptr \notin HAPClient /\ MaxClients \in Nat \ {0}

Slot == 0 .. MaxClients - 1

VARIABLES slot, size,   \* _clients: its storage and its length
          alive,        \* objects created and not deleted
          lost,         \* history: those of connections gone when they were accepted
          up,           \* objects whose client.connected() is true
          it, end,      \* the iterators of the range-for
          start, met    \* history: _clients when the pass began, objects visited since

clients == <<slot, size, alive, lost>>
loopVars == <<clients, up, it, end, start, met>>

LoopTypeOK == /\ slot \in [Slot -> HAPClient \cup {nullptr}]
              /\ size \in 0 .. MaxClients
              /\ alive \subseteq HAPClient /\ up \subseteq HAPClient /\ lost \subseteq HAPClient
              /\ end \in 0 .. MaxClients /\ it \in 0 .. end
              /\ start \subseteq HAPClient /\ met \subseteq HAPClient

LoopInit == /\ slot = [i \in Slot |-> nullptr] /\ size = 0
            /\ alive = {} /\ up = {} /\ lost = {}
            /\ it = 0 /\ end = 0
            /\ start = {} /\ met = {}

Listed == { slot[i] : i \in 0 .. size - 1 }
-----------------------------------------------------------------------------
(* Mutant of handleClientDisconnect: it erases the slot after the one it   *)
(* found.                                                                  *)
DisconnectNext(c) ==
  \E i \in 0 .. size - 1 :
    /\ slot[i] = c
    /\ slot' = [j \in Slot |-> IF i < j /\ j < size - 1 THEN slot[j + 1] ELSE slot[j]]
    /\ size' = size - 1
    /\ alive' = alive \ {c}
    /\ UNCHANGED lost

(* delete, then erase the first slot that held the pointer. *)
handleClientDisconnect(c) ==
  \E i \in 0 .. size - 1 :
    /\ slot[i] = c /\ \A j \in 0 .. i - 1 : slot[j] # c
    /\ slot' = [j \in Slot |-> IF i <= j /\ j < size - 1 THEN slot[j + 1] ELSE slot[j]]
    /\ size' = size - 1
    /\ alive' = alive \ {c}
    /\ UNCHANGED lost

(* A visit that finds the connection up and leaves it so: nothing arrived, *)
(* or a request was answered.                                              *)
Keep(c) == c \in up /\ UNCHANGED <<clients, up>>

(* A request whose handler calls client.stop(). *)
Stop(c) == c \in up /\ handleClientDisconnect(c) /\ up' = up \ {c}

(* The removal of the last pairing stops every client and erases none. *)
handleAllPairingsRemoved(c) == c \in up /\ up' = up \ Listed /\ UNCHANGED clients

(* The peer was gone when the loop looked. *)
Drop(c) == c \notin up /\ handleClientDisconnect(c) /\ UNCHANGED up

(* The range-for.  (Mutants: an erase that advances too; a break after it.) *)
HasNext == it < end
AdvancePastErased == it' = IF size' < size THEN it + 2 ELSE it + 1
AdvanceOrBreak == it' = IF size' < size THEN end ELSE it + 1
Advance == it' = it + 1

Visit == LET c == slot[it] IN
         /\ HasNext /\ c \in alive
         /\ Keep(c) \/ Stop(c) \/ handleAllPairingsRemoved(c) \/ Drop(c)
         /\ Advance
         /\ met' = met \cup {c}
         /\ UNCHANGED <<end, start>>

(* handleClientState of a new object.  Its connection is up: push_back, and *)
(* the first request may already be there and end it.  Its connection is   *)
(* gone: handleClientDisconnect looks for an object that is not in the     *)
(* list yet, finds none, and nothing refers to the object any more.        *)
Accept(c) ==
  /\ c \notin alive /\ size < MaxClients
  /\ \/ /\ slot' = [slot EXCEPT ![size] = c]
        /\ size' = size + 1
        /\ alive' = alive \cup {c}
        /\ up' = up \cup {c}
        /\ UNCHANGED lost
     \/ slot' = [slot EXCEPT ![size] = c] /\ UNCHANGED <<size, alive, lost, up>>
     \/ /\ alive' = alive \cup {c} /\ lost' = lost \cup {c}
        /\ UNCHANGED <<slot, size, up>>

(* After the loop handle() takes at most one new connection; the next pass *)
(* starts with what is then in the vector.                                 *)
NextPass == /\ it = end
            /\ (\E c \in HAPClient : Accept(c)) \/ UNCHANGED <<clients, up>>
            /\ it' = 0 /\ end' = size'
            /\ start' = { slot'[i] : i \in 0 .. size' - 1 } /\ met' = {}

PeerLeaves(c) == /\ c \in up /\ c \in alive
                 /\ up' = up \ {c}
                 /\ UNCHANGED <<clients, it, end, start, met>>

LoopNext == Visit \/ NextPass \/ \E c \in HAPClient : PeerLeaves(c)

LoopSpec == LoopInit /\ [][LoopNext]_loopVars
-----------------------------------------------------------------------------
(* The loop never reads a deleted object.  "Handle existing clients", says *)
(* the comment on it; the slot past an erased one may hold the pointer of  *)
(* a client that is gone.                                                  *)
VisitsExisting == it < end => slot[it] \in alive

(* The vector owns each object it was given once: it lists none that was   *)
(* deleted and none twice, and forgets none.  The objects outside of it    *)
(* are those of connections that were gone when they were accepted: these  *)
(* are never deleted, and no handler reaches them again.                   *)
OwnedOnce == Listed = alive \ lost /\ Cardinality(Listed) = size

(* A pass skips no client that was in the list when it began. *)
NoneSkipped == it = end => start \subseteq met
=============================================================================
