------------------------------ MODULE History ------------------------------
(***************************************************************************)
(* HAPFakegato (src/src/HAP/HAPFakegato.{hpp,cpp}): the history of an      *)
(* accessory, a ring of measurements, and its transfer to the app in       *)
(* batches.  The number asked for and the flag of a pending transfer are   *)
(* shared by all connections; the answer is the value of a characteristic  *)
(* (HAPCharacteristicData), which keeps the last one.  A measurement is    *)
(* its place in the order of all measurements.  What the app does is taken *)
(* from the comments on the three characteristics.                         *)
(***************************************************************************)
EXTENDS Integers, FiniteSets, SequencesExt

CONSTANTS App,          \* connections whose app downloads the history
          Capacity,     \* HAP_FAKEGATO_BUFFER_SIZE
          BatchSize,    \* HAP_FAKEGATO_BATCH_SIZE
          MaxMeasured,  \* bound: measurements
          MaxRestarts   \* bound: restarts

ASSUME HistoryAssumption == /\ IsFiniteSet(App)
                            /\ Capacity \in Nat \ {0}
                            /\ BatchSize \in Nat \ {0, 1}
                            /\ MaxMeasured \in Nat /\ MaxRestarts \in Nat

RefTime == 0      \* the record that sets the reference time
Record == [number : Nat, entry : Nat]

VARIABLES entries,         \* _entries, oldest first
          requestedIndex,  \* _requestedIndex
          transfer,        \* _transfer
          restarted,       \* _restarted
          value,           \* _value of the entries characteristic: its records, none
                           \* in its first zero byte (HAPFakegato.cpp:59)
          up,              \* FALSE once a read went outside the ring
          app,             \* per app: see AppState
          measured, restarts   \* counters of the bounds

device == <<entries, requestedIndex, transfer, restarted, value, up>>
vars == <<device, app, measured, restarts>>

(* address is the next to ask for, last the number of the last record it   *)
(* has.  The rest is history: the entries of this download, whether it     *)
(* began at the beginning and only got answers of its own, the entries     *)
(* overwritten since, and whether the pending request was overridden.      *)
AppState == [phase : {"idle", "ready", "asked"}, address : Nat, last : Nat,
             got : SUBSET (1 .. MaxMeasured), clean : BOOLEAN,
             overwritten : Nat, overridden : BOOLEAN]
NewApp == [phase |-> "idle", address |-> 0, last |-> 0, got |-> {}, clean |-> FALSE,
           overwritten |-> 0, overridden |-> FALSE]

TypeOK == /\ entries \in Seq(1 .. MaxMeasured) /\ Len(entries) <= Capacity
          /\ requestedIndex \in 0 .. Capacity + 1
          /\ transfer \in BOOLEAN /\ restarted \in BOOLEAN /\ up \in BOOLEAN
          /\ value \in Seq(Record) /\ Len(value) <= BatchSize
          /\ app \in [App -> AppState]
          /\ measured \in 0 .. MaxMeasured /\ restarts \in 0 .. MaxRestarts

Init == /\ entries = << >> /\ value = << >>
        /\ requestedIndex = 0
        /\ transfer = FALSE /\ restarted = TRUE /\ up = TRUE
        /\ app = [c \in App |-> NewApp]
        /\ measured = 0 /\ restarts = 0
-----------------------------------------------------------------------------
isFull == Len(entries) = Capacity

(* Mutant: nothing is removed. *)
RoomNone == entries

(* addDataToBuffer shifts the oldest entry out of a full ring. *)
Room == IF isFull THEN Tail(entries) ELSE entries

(* addEntry, when the interval of handle() is over or a plugin calls it. *)
AddEntry ==
  /\ measured < MaxMeasured
  /\ measured' = measured + 1
  /\ entries' = Append(Room, measured')
  /\ app' = [c \in App |-> [app[c] EXCEPT !.overwritten = @ + IF isFull THEN 1 ELSE 0]]
  /\ UNCHANGED <<requestedIndex, transfer, restarted, value, up, restarts>>

(* callbackSetHistoryAddress: whoever writes the address has the transfer. *)
SetHistoryAddress(n) == /\ requestedIndex' = n
                        /\ transfer' = TRUE
                        /\ UNCHANGED <<entries, restarted, value, up>>

(* What callbackGetHistoryEntries answers: records from the number asked   *)
(* for on, the first of them the reference time in the first batch after a *)
(* restart and at the beginning, which takes the number of an entry.       *)
First == IF requestedIndex = 0 THEN 1 ELSE requestedIndex
RefTimes == IF restarted \/ First = 1 THEN 1 ELSE 0
Lesser(a, b) == IF a < b THEN a ELSE b
Count == IF First > Len(entries) THEN 0
         ELSE Lesser(BatchSize - RefTimes, Len(entries) - (First - 1))

(* Mutant: the counter is one ahead. *)
BatchAhead == [k \in 1 .. Count + RefTimes |->
                 [number |-> First + k,
                  entry |-> IF k <= RefTimes THEN RefTime
                            ELSE entries[First + k - 1 - RefTimes]]]

Batch == [k \in 1 .. Count + RefTimes |->
            [number |-> First + k - 1,
             entry |-> IF k <= RefTimes THEN RefTime ELSE entries[First + k - 1 - RefTimes]]]

(* Mutant: an empty answer replaces the value. *)
StoredAlways(answer) == answer

(* setValueRaw: an answer equal to the start of the value, and so the      *)
(* empty one, leaves it as it is.                                          *)
Stored(answer) == IF IsPrefix(answer, value) THEN value ELSE answer

(* value(): the callback, then what is stored.  Any request that reads the *)
(* characteristic does this, the transfer of another app or not.           *)
GetHistoryEntries ==
  /\ transfer => entries # << >>
  /\ transfer' = FALSE
  /\ value' = Stored(IF transfer THEN Batch ELSE << >>)
  /\ requestedIndex' = IF transfer THEN First - 1 + Count ELSE requestedIndex
  /\ restarted' = (restarted /\ ~ transfer)
  /\ UNCHANGED <<entries, up>>

(* The same on an empty ring: its size less one is converted to the        *)
(* largest index there is, and entries that do not exist are read.         *)
GetHistoryEntriesFaults == /\ transfer /\ entries = << >>
                           /\ up' = FALSE
                           /\ UNCHANGED <<entries, requestedIndex, transfer, restarted, value>>
-----------------------------------------------------------------------------
(* The app reads the status: the memory used, against its last number.     *)
AppInfo(c) ==
  /\ app[c].phase = "idle" /\ Len(entries) # app[c].last
  /\ app' = [app EXCEPT ![c].phase = "ready",
                        ![c].address = IF Len(entries) < app[c].last THEN 0
                                       ELSE app[c].last + 1]
  /\ UNCHANGED <<device, measured, restarts>>

AppAsk(c) ==
  /\ app[c].phase = "ready"
  /\ SetHistoryAddress(app[c].address)
  /\ app' = [d \in App |->
       IF d # c THEN [app[d] EXCEPT !.overridden = TRUE]
       ELSE [app[c] EXCEPT !.phase = "asked", !.overridden = FALSE,
                           !.overwritten = IF app[c].address <= 1 THEN 0 ELSE @]]
  /\ UNCHANGED <<measured, restarts>>

(* The app takes what it reads for the answer to its request. *)
AppRead(c) ==
  /\ app[c].phase = "asked"
  /\ GetHistoryEntries
  /\ LET a == app[c]
         begins == a.address <= 1
         news == { value'[k].entry : k \in DOMAIN value' } \ {RefTime}
     IN  app' = [app EXCEPT ![c] =
           [phase |-> "idle", address |-> 0,
            last |-> IF value' = << >> THEN a.last ELSE value'[Len(value')].number,
            got |-> IF begins THEN news ELSE a.got \cup news,
            clean |-> (begins \/ a.clean) /\ ~ a.overridden,
            overwritten |-> a.overwritten,
            overridden |-> FALSE]]
  /\ UNCHANGED <<measured, restarts>>

(* A controller that reads every characteristic (GET /accessories). *)
ReadAll == GetHistoryEntries /\ UNCHANGED <<app, measured, restarts>>

(* The history is in RAM; the apps keep what they have, and its number. *)
Restart ==
  /\ restarts < MaxRestarts /\ restarts' = restarts + 1
  /\ entries' = << >> /\ value' = << >>
  /\ requestedIndex' = 0 /\ transfer' = FALSE /\ restarted' = TRUE
  /\ app' = [c \in App |-> [app[c] EXCEPT !.phase = "idle", !.clean = FALSE]]
  /\ UNCHANGED <<up, measured>>

Faults == GetHistoryEntriesFaults /\ UNCHANGED <<app, measured, restarts>>

Next == /\ up
        /\ \/ AddEntry \/ ReadAll \/ Restart \/ Faults
           \/ \E c \in App : AppInfo(c) \/ AppAsk(c) \/ AppRead(c)

Spec == Init /\ [][Next]_vars
-----------------------------------------------------------------------------
(* An app is answered what it asked for, whatever the other connections    *)
(* read between its request and its read, unless one of them writes an     *)
(* address: a read without a transfer repeats the last answer.             *)
AnswersOwnRequest ==
  [][\A c \in App :
       /\ app[c].phase = "asked" /\ app'[c].phase = "idle" /\ restarts' = restarts
       /\ ~ app[c].overridden
       => value' # << >> /\ value'[1].number = IF app[c].address = 0 THEN 1
                                                ELSE app[c].address]_vars

(* An app that began at the beginning and was never answered the request   *)
(* of another has, between its oldest entry and its newest, every          *)
(* measurement but one (the reference time took a number) and those passed *)
(* over because the numbers moved when entries were overwritten.           *)
Between(got) == { e \in 1 .. MaxMeasured : \E a, b \in got : a <= e /\ e <= b }
Complete ==
  \A c \in App : app[c].clean =>
    Cardinality(Between(app[c].got) \ app[c].got) <= 1 + app[c].overwritten
=============================================================================
