------------------------------ MODULE Storage ------------------------------
(***************************************************************************)
(* The configuration of HAPConfiguration and its files in the external     *)
(* flash (HAPConfigurationT41SPIFFSExt): written in place, one after the   *)
(* other, with a magic in a file of its own that says they are there.      *)
(* The power may go between any two steps, and a write may fail.  Of the   *)
(* accessory configuration the list of pairings is kept, in its order.     *)
(* The flash file system is external: a file is truncated when it is       *)
(* opened, and holds a part of its data until the write is over.           *)
(***************************************************************************)
EXTENDS Integers, Sequences

CONSTANTS Controller,         \* pairing identifiers
          HAP_PAIRINGS_MAX

ASSUME StorageAssumption == HAP_PAIRINGS_MAX \in Nat \ {0}

(* Mutant: the magic is withdrawn while the list is written. *)
AccessorySaveUnderMagic == <<"validate", "cAcc", "validate">>

(* The save callback of the accessory configuration: its own file only. *)
AccessorySave == <<"cAcc">>

(* Mutant: the magic is written before what it vouches for. *)
ConfigurationSaveMagicFirst == <<"cPltfrm", "validate", "cAcc", "plugin">>

(* HAPConfiguration::save, in its order; one plugin stands for all. *)
ConfigurationSave == <<"cPltfrm", "cAcc", "plugin", "validate">>

(* What is left of it after each file, and of any save at each point. *)
AfterPlatform == <<"cAcc", "plugin", "validate">>
AfterList == <<"plugin", "validate">>
AfterPlugin == <<"validate">>
Todo == {<< >>, AccessorySave, ConfigurationSave, AfterPlatform, AfterList, AfterPlugin}

File == {"cPltfrm", "cAcc", "plugin", "validate"}
PairingList == { s \in UNION { [1 .. n -> Controller] : n \in 0 .. HAP_PAIRINGS_MAX } :
                   \A i, j \in DOMAIN s : s[i] = s[j] => i = j }
Defaults == << >>

VARIABLES pairings,  \* _accessoryConfig->pairings
          todo,      \* the files the save under way has still to write
          opened,    \* the first of them is open
          file,      \* per file: "absent", "empty", "part" or "whole"
          stored,    \* what cAcc holds when it is whole
          before,    \* history: the pairings when the save under way began
          trusted    \* history: the last save, or boot, found everything in order

vars == <<pairings, todo, opened, file, stored, before, trusted>>

TypeOK == /\ pairings \in PairingList /\ stored \in PairingList /\ before \in PairingList
          /\ todo \in Todo
          /\ opened \in BOOLEAN /\ trusted \in BOOLEAN
          /\ file \in [File -> {"absent", "empty", "part", "whole"}]

(* First boot: begin() found no magic and saves the defaults. *)
Init == /\ pairings = Defaults /\ stored = Defaults /\ before = Defaults
        /\ todo = ConfigurationSave /\ opened = FALSE
        /\ file = [f \in File |-> "absent"]
        /\ trusted = FALSE
-----------------------------------------------------------------------------
(* The loop of loadAccessoryConfig: how many entries it has taken of a     *)
(* list of n when its counter is at i.  Its bound, the entries behind the  *)
(* offset, shrinks by one with each entry taken.                           *)
Taken(n) ==
  LET t[i \in 0 .. HAP_PAIRINGS_MAX] ==
        IF i = 0 THEN 0
        ELSE IF i - 1 < HAP_PAIRINGS_MAX - t[i - 1] /\ t[i - 1] < n
               THEN t[i - 1] + 1 ELSE t[i - 1]
  IN  t[HAP_PAIRINGS_MAX]

(* Mutant: the last entry is left behind. *)
RestoredButLast(s) == SubSeq(s, 1, Taken(Len(s)) - 1)
Restored(s) == SubSeq(s, 1, Taken(Len(s)))

(* What HAPServer uses in its place: StorageProofs!LoadTakesHalf. *)
LoadMax == (HAP_PAIRINGS_MAX + 1) \div 2

(* validConfig: of a magic that is there in part the other byte is         *)
(* whatever was on the stack.                                              *)
validConfig == IF file["validate"] = "part" THEN {TRUE, FALSE}
               ELSE { file["validate"] = "whole" }

(* loadAccessoryConfig: a file that is there in part is read as if it were *)
(* whole, so that anything may be in the list; an empty one is refused.    *)
loadAccessoryConfig == CASE file["cAcc"] = "whole" -> { Restored(stored) }
                         [] file["cAcc"] = "part" -> { s \in PairingList : Len(s) <= LoadMax }
                         [] OTHER -> {}
-----------------------------------------------------------------------------
(* The flash. *)

Open == /\ todo # << >> /\ ~ opened
        /\ opened' = TRUE
        /\ file' = [file EXCEPT ![Head(todo)] = "empty"]
        /\ stored' = IF Head(todo) = "cAcc" THEN Defaults ELSE stored
        /\ UNCHANGED <<pairings, todo, before, trusted>>

Write == /\ opened /\ file[Head(todo)] = "empty"
         /\ file' = [file EXCEPT ![Head(todo)] = "part"]
         /\ UNCHANGED <<pairings, todo, opened, stored, before, trusted>>

Close == /\ opened /\ file[Head(todo)] = "part"
         /\ opened' = FALSE
         /\ file' = [file EXCEPT ![Head(todo)] = "whole"]
         /\ stored' = IF Head(todo) = "cAcc" THEN pairings ELSE stored
         /\ todo' = Tail(todo)
         /\ IF todo' = << >>
              THEN before' = pairings /\ trusted' = (file'["validate"] = "whole")
              ELSE UNCHANGED <<before, trusted>>
         /\ UNCHANGED pairings

(* f_open or f_write reports an error.  save() gives up, except that       *)
(* savePluginConfig takes the negative result for a large size.  Nobody    *)
(* looks at the result of save().                                          *)
WriteFails == /\ todo # << >>
              /\ opened' = FALSE
              /\ IF Head(todo) = "plugin"
                   THEN todo' = Tail(todo) /\ UNCHANGED trusted
                   ELSE todo' = << >> /\ trusted' = FALSE
              /\ UNCHANGED <<pairings, file, stored, before>>
-----------------------------------------------------------------------------
(* What the server does when no save is under way. *)
Change(list, save) == /\ todo = << >>
                      /\ pairings' = list
                      /\ before' = pairings
                      /\ todo' = save
                      /\ UNCHANGED <<opened, file, stored, trusted>>

Has(k) == \E i \in DOMAIN pairings : pairings[i] = k

(* Mutant: without looking for the identifier. *)
addPairingAgain(k) == /\ Len(pairings) < HAP_PAIRINGS_MAX
                      /\ Change(Append(pairings, k), AccessorySave)

(* handlePairingsAdd refuses when the list is full; that pair-setup does   *)
(* not is in HAPServer.                                                    *)
addPairing(k) == /\ Len(pairings) < HAP_PAIRINGS_MAX
                 /\ Change(IF Has(k) THEN pairings ELSE Append(pairings, k), AccessorySave)

(* The entry with the identifier is erased at its index. *)
removePairing(k) ==
  \E i \in DOMAIN pairings :
    /\ pairings[i] = k
    /\ Change([j \in 1 .. Len(pairings) - 1 |-> IF j < i THEN pairings[j] ELSE pairings[j + 1]],
              AccessorySave)

removeAllPairings == Change(Defaults, AccessorySave)

(* handleEventConfigReset. *)
setDefaultsAndSave == Change(Defaults, ConfigurationSave)

(* The power goes, and comes back: begin() loads, or saves the defaults. *)
PowerCycle ==
  /\ opened' = FALSE
  /\ \/ /\ TRUE \in validConfig
        /\ pairings' \in loadAccessoryConfig
        /\ todo' = << >>
        /\ trusted' = (file["cAcc"] = "whole" /\ file["validate"] = "whole")
     \/ /\ FALSE \in validConfig \/ loadAccessoryConfig = {}
        /\ pairings' = Defaults
        /\ todo' = ConfigurationSave
        /\ trusted' = FALSE
  /\ before' = pairings'
  /\ UNCHANGED <<file, stored>>

Next == \/ Open \/ Write \/ Close \/ WriteFails
        \/ \E k \in Controller : addPairing(k) \/ removePairing(k)
        \/ removeAllPairings \/ setDefaultsAndSave \/ PowerCycle

Spec == Init /\ [][Next]_vars
-----------------------------------------------------------------------------
(* Between two saves, flash holds what RAM holds: a power cycle restores   *)
(* exactly the pairings, as many as load takes.  This needs the magic as   *)
(* well as the list: after a first save that failed, nothing saved later   *)
(* is found again.                                                         *)
SavedIsLoaded ==
  todo = << >> /\ trusted /\ Len(pairings) <= LoadMax
    => validConfig = {TRUE} /\ loadAccessoryConfig = {pairings}

(* The magic is written last: once there is any, the files that load       *)
(* requires have been written.                                             *)
MagicMeansComplete ==
  file["validate"] # "absent" => file["cPltfrm"] # "absent" /\ file["cAcc"] # "absent"

(* A power cut in the middle of a save leaves the old list or the new one, *)
(* except while the list itself is rewritten: the file has no old copy.    *)
CutKeepsOldOrNew ==
  [][ PowerCycle /\ trusted /\ Len(pairings) <= LoadMax /\ Len(before) <= LoadMax
        /\ ~ (opened /\ Head(todo) = "cAcc")
        => pairings' \in {before, pairings} ]_vars
=============================================================================
