--------------------------- MODULE StorageProofs ----------------------------
(***************************************************************************)
(* Proofs about Storage, for every set of controllers and every maximum of *)
(* the list.  First what the loop of loadAccessoryConfig takes             *)
(* (LoadTakesHalf), then what the files hold at each point of a save       *)
(* (StorageInv), from which the three properties follow.                   *)
(***************************************************************************)
EXTENDS Storage, WellFoundedInduction, TLAPS

(* A set of naturals has a least element: induction, where the set is that *)
(* of the counterexamples.                                                 *)
LEMMA LeastNatural ==
  ASSUME NEW T \in SUBSET Nat, T # {}
  PROVE  \E m \in T : \A k \in T : m <= k
<1>1. PICK m \in T : \A k \in T : ~ (<<k, m>> \in OpToRel(<, Nat))
  BY NatLessThanWellFounded, WFMin
<1>2. ASSUME NEW k \in T PROVE m <= k
  <2>1. ~ (<<k, m>> \in OpToRel(<, Nat))
    BY <1>1
  <2>2. m \in Nat /\ k \in Nat
    OBVIOUS
  <2>3. ~ (k < m)
    BY <2>1, <2>2 DEF OpToRel
  <2> QED
    BY <2>2, <2>3
<1> QED
  BY <1>2

LEMMA MaximumType ==
  /\ HAP_PAIRINGS_MAX \in Nat \ {0} /\ LoadMax \in Nat /\ LoadMax <= HAP_PAIRINGS_MAX
  /\ 2 * LoadMax \in HAP_PAIRINGS_MAX .. HAP_PAIRINGS_MAX + 1
  BY StorageAssumption DEF LoadMax
-----------------------------------------------------------------------------
(* One turn of the loop, with the counter at i and k entries taken, and    *)
(* what it is to have reached: as many entries as turns, as there are, or  *)
(* as half of the maximum.                                                 *)
Turn(i, k, n) == IF i = 0 THEN 0
                 ELSE IF i - 1 < HAP_PAIRINGS_MAX - k /\ k < n THEN k + 1 ELSE k
Least(a, b) == IF a <= b THEN a ELSE b
Reached(i, n) == Least(i, Least(n, LoadMax))

LEMMA ReachedByTurns ==
  ASSUME NEW n \in Nat, NEW i \in 0 .. HAP_PAIRINGS_MAX
  PROVE  Reached(i, n) = Turn(i, Reached(i - 1, n), n)
  BY MaximumType DEF Reached, Least, Turn

(* Of a list of n entries load takes all, or as many as half the maximum:  *)
(* LoadMax, which is what HAPServer uses (HAPConfiguration.cpp:1271).      *)
THEOREM LoadTakesHalf ==
  ASSUME NEW n \in Nat
  PROVE  Taken(n) = IF n <= LoadMax THEN n ELSE LoadMax
<1> DEFINE S == 0 .. HAP_PAIRINGS_MAX
           t == CHOOSE t : t = [i \in S |->
                  IF i = 0 THEN 0
                  ELSE IF i - 1 < HAP_PAIRINGS_MAX - t[i - 1] /\ t[i - 1] < n
                         THEN t[i - 1] + 1 ELSE t[i - 1]]
           r == [i \in S |-> Reached(i, n)]
<1>1. Taken(n) = t[HAP_PAIRINGS_MAX]
  BY DEF Taken
<1>2. r = [i \in S |->
             IF i = 0 THEN 0
             ELSE IF i - 1 < HAP_PAIRINGS_MAX - r[i - 1] /\ r[i - 1] < n
                    THEN r[i - 1] + 1 ELSE r[i - 1]]
  <2>1. ASSUME NEW i \in S
        PROVE  Reached(i, n) =
                 IF i = 0 THEN 0
                 ELSE IF i - 1 < HAP_PAIRINGS_MAX - r[i - 1] /\ r[i - 1] < n
                        THEN r[i - 1] + 1 ELSE r[i - 1]
    <3>1. CASE i = 0
      BY <3>1, ReachedByTurns DEF Turn
    <3>2. CASE i # 0
      <4>1. i - 1 \in S
        BY MaximumType, <3>2
      <4>2. r[i - 1] = Reached(i - 1, n)
        BY <4>1
      <4> QED
        BY <3>2, <4>2, ReachedByTurns DEF Turn
    <3> QED
      BY <3>1, <3>2
  <2> HIDE DEF r
  <2>2. r = [i \in S |-> Reached(i, n)]
    BY DEF r
  <2> QED
    BY <2>1, <2>2
<1>3. t = [i \in S |->
             IF i = 0 THEN 0
             ELSE IF i - 1 < HAP_PAIRINGS_MAX - t[i - 1] /\ t[i - 1] < n
                    THEN t[i - 1] + 1 ELSE t[i - 1]]
  <2> HIDE DEF r
  <2> QED
    BY <1>2
<1> HIDE DEF t, r
<1>4. ASSUME NEW i \in S PROVE t[i] = Turn(i, t[i - 1], n)
  BY ONLY <1>3, <1>4, MaximumType DEF Turn
<1>5. \A i \in S : t[i] = Reached(i, n)
  <2> DEFINE T == { i \in S : t[i] # Reached(i, n) }
  <2> SUFFICES ASSUME T # {} PROVE FALSE
    OBVIOUS
  <2>1. T \in SUBSET Nat
    BY MaximumType
  <2>2. PICK m \in T : \A k \in T : m <= k
    <3> HIDE DEF T
    <3> QED
      BY <2>1, LeastNatural
  <2>3. m \in S /\ t[m] # Reached(m, n)
    OBVIOUS
  <2>4. CASE m = 0
    BY <2>3, <2>4, <1>4, ReachedByTurns DEF Turn
  <2>5. CASE m # 0
    <3>1. m - 1 \in S /\ m - 1 \notin T
      BY <2>2, <2>3, <2>5, MaximumType
    <3>2. t[m - 1] = Reached(m - 1, n)
      BY <3>1
    <3>3. t[m] = Turn(m, t[m - 1], n)
      BY <2>3, <1>4
    <3>4. Reached(m, n) = Turn(m, Reached(m - 1, n), n)
      BY <2>3, ReachedByTurns
    <3> QED
      BY <2>3, <3>2, <3>3, <3>4
  <2> QED
    BY <2>4, <2>5
<1>6. HAP_PAIRINGS_MAX \in S
  BY MaximumType
<1>7. t[HAP_PAIRINGS_MAX] = Reached(HAP_PAIRINGS_MAX, n)
  BY <1>5, <1>6
<1>8. Reached(HAP_PAIRINGS_MAX, n) = IF n <= LoadMax THEN n ELSE LoadMax
  BY MaximumType DEF Reached, Least
<1> QED
  BY <1>1, <1>7, <1>8
-----------------------------------------------------------------------------
IsList(s) == /\ s \in Seq(Controller) /\ Len(s) <= HAP_PAIRINGS_MAX
             /\ \A i, j \in 1 .. Len(s) : s[i] = s[j] => i = j

LEMMA ListMembers ==
  ASSUME NEW s
  PROVE  s \in PairingList <=> IsList(s)
<1> USE DEF IsList
<1>1. ASSUME s \in PairingList
      PROVE  /\ s \in Seq(Controller) /\ Len(s) <= HAP_PAIRINGS_MAX
             /\ \A i, j \in 1 .. Len(s) : s[i] = s[j] => i = j
  <2>1. PICK n \in 0 .. HAP_PAIRINGS_MAX : s \in [1 .. n -> Controller]
    BY <1>1 DEF PairingList
  <2>2. n \in Nat /\ n <= HAP_PAIRINGS_MAX
    BY MaximumType
  <2>3. s \in Seq(Controller) /\ Len(s) = n /\ DOMAIN s = 1 .. n
    BY <2>1, <2>2
  <2> QED
    BY <1>1, <2>2, <2>3 DEF PairingList
<1>2. ASSUME /\ s \in Seq(Controller) /\ Len(s) <= HAP_PAIRINGS_MAX
             /\ \A i, j \in 1 .. Len(s) : s[i] = s[j] => i = j
      PROVE  s \in PairingList
  <2>1. Len(s) \in 0 .. HAP_PAIRINGS_MAX /\ s \in [1 .. Len(s) -> Controller]
    BY <1>2, MaximumType
  <2>2. s \in UNION { [1 .. n -> Controller] : n \in 0 .. HAP_PAIRINGS_MAX }
    BY <2>1
  <2> QED
    BY <1>2, <2>1, <2>2 DEF PairingList
<1> QED
  BY <1>1, <1>2

LEMMA DefaultsAreAList == Defaults \in PairingList /\ Restored(Defaults) = Defaults
<1>1. << >> \in Seq(Controller) /\ Len(<< >>) = 0
  OBVIOUS
<1>2. IsList(<< >>)
  BY <1>1, MaximumType DEF IsList
<1>3. Taken(0) = 0
  BY LoadTakesHalf, MaximumType
<1> QED
  BY <1>1, <1>2, <1>3, ListMembers DEF Defaults, Restored

(* What load leaves of a list is a list, of which the next load takes all. *)
LEMMA RestoredList ==
  ASSUME NEW s \in PairingList
  PROVE  /\ Restored(s) \in PairingList /\ Len(Restored(s)) <= LoadMax
         /\ Len(s) <= LoadMax => Restored(s) = s
<1>1. /\ s \in Seq(Controller) /\ Len(s) <= HAP_PAIRINGS_MAX /\ Len(s) \in Nat
      /\ \A i, j \in 1 .. Len(s) : s[i] = s[j] => i = j
  BY ListMembers DEF IsList
<1> DEFINE n == Taken(Len(s))
<1>2. n = IF Len(s) <= LoadMax THEN Len(s) ELSE LoadMax
  BY <1>1, LoadTakesHalf
<1>3. n \in 0 .. Len(s) /\ n <= LoadMax
  BY <1>1, <1>2, MaximumType
<1>4. Restored(s) = SubSeq(s, 1, n)
  BY DEF Restored
<1> HIDE DEF n
<1>5. /\ SubSeq(s, 1, n) \in Seq(Controller) /\ Len(SubSeq(s, 1, n)) = n
      /\ \A i \in 1 .. n : SubSeq(s, 1, n)[i] = s[i]
  BY <1>1, <1>3
<1>6. IsList(Restored(s))
  <2>1. ASSUME NEW i \in 1 .. n, NEW j \in 1 .. n, SubSeq(s, 1, n)[i] = SubSeq(s, 1, n)[j]
        PROVE  i = j
    <3>1. i \in 1 .. Len(s) /\ j \in 1 .. Len(s)
      BY <1>1, <1>3
    <3>2. s[i] = s[j]
      BY <1>5, <2>1
    <3> QED
      BY ONLY <1>1, <3>1, <3>2
  <2> QED
    BY <1>1, <1>3, <1>4, <1>5, <2>1, MaximumType DEF IsList
<1>7. n = Len(s) => Restored(s) = s
  BY <1>1, <1>4, <1>5
<1> QED
  BY <1>2, <1>3, <1>4, <1>5, <1>6, <1>7, ListMembers

LEMMA AddedToList ==
  ASSUME NEW s \in PairingList, NEW k \in Controller,
         Len(s) < HAP_PAIRINGS_MAX, \A i \in DOMAIN s : s[i] # k
  PROVE  Append(s, k) \in PairingList
<1>1. /\ s \in Seq(Controller) /\ Len(s) \in Nat /\ DOMAIN s = 1 .. Len(s)
      /\ \A i, j \in 1 .. Len(s) : s[i] = s[j] => i = j
  BY ListMembers DEF IsList
<1>2. /\ Append(s, k) \in Seq(Controller) /\ Len(Append(s, k)) = Len(s) + 1
      /\ Append(s, k)[Len(s) + 1] = k
      /\ \A i \in 1 .. Len(s) : Append(s, k)[i] = s[i]
  BY <1>1
<1>3. ASSUME NEW i \in 1 .. Len(s) + 1, NEW j \in 1 .. Len(s) + 1,
             Append(s, k)[i] = Append(s, k)[j]
      PROVE  i = j
  <2>1. CASE i \in 1 .. Len(s) /\ j \in 1 .. Len(s)
    BY <1>1, <1>2, <1>3, <2>1
  <2>2. CASE i \in 1 .. Len(s) /\ j = Len(s) + 1
    BY <1>1, <1>2, <1>3, <2>2
  <2>3. CASE i = Len(s) + 1 /\ j \in 1 .. Len(s)
    BY <1>1, <1>2, <1>3, <2>3
  <2> QED
    BY <1>1, <2>1, <2>2, <2>3
<1>4. IsList(Append(s, k))
  BY <1>1, <1>2, <1>3, MaximumType DEF IsList
<1> QED
  BY <1>4, ListMembers

LEMMA ErasedFromList ==
  ASSUME NEW s \in PairingList, NEW i \in DOMAIN s
  PROVE  [j \in 1 .. Len(s) - 1 |-> IF j < i THEN s[j] ELSE s[j + 1]] \in PairingList
<1> DEFINE e == [j \in 1 .. Len(s) - 1 |-> IF j < i THEN s[j] ELSE s[j + 1]]
<1>1. /\ s \in Seq(Controller) /\ Len(s) \in Nat /\ Len(s) <= HAP_PAIRINGS_MAX
      /\ DOMAIN s = 1 .. Len(s)
      /\ \A a, b \in 1 .. Len(s) : s[a] = s[b] => a = b
  BY ListMembers DEF IsList
<1>2. Len(s) - 1 \in Nat
  BY <1>1
<1>3. \A j \in 1 .. Len(s) - 1 : e[j] \in Controller
  BY <1>1
<1>4. e \in Seq(Controller) /\ Len(e) = Len(s) - 1
  BY <1>2, <1>3
<1>5. ASSUME NEW a \in 1 .. Len(s) - 1, NEW b \in 1 .. Len(s) - 1, e[a] = e[b]
      PROVE  a = b
  BY <1>1, <1>5
<1> HIDE DEF e
<1>6. IsList(e)
  BY <1>1, <1>4, <1>5, MaximumType DEF IsList
<1> QED
  BY <1>6, ListMembers DEF e
-----------------------------------------------------------------------------
(* The steps of a save. *)
LEMMA Saves ==
  /\ Head(AccessorySave) = "cAcc" /\ Tail(AccessorySave) = << >>
  /\ Head(ConfigurationSave) = "cPltfrm" /\ Tail(ConfigurationSave) = AfterPlatform
  /\ Head(AfterPlatform) = "cAcc" /\ Tail(AfterPlatform) = AfterList
  /\ Head(AfterList) = "plugin" /\ Tail(AfterList) = AfterPlugin
  /\ Head(AfterPlugin) = "validate" /\ Tail(AfterPlugin) = << >>
  BY DEF AccessorySave, ConfigurationSave, AfterPlatform, AfterList, AfterPlugin

LEMMA SavesDiffer ==
  /\ << >> \notin {AccessorySave, ConfigurationSave, AfterPlatform, AfterList, AfterPlugin}
  /\ AccessorySave \notin {ConfigurationSave, AfterPlatform, AfterList, AfterPlugin}
  /\ ConfigurationSave \notin {AfterPlatform, AfterList, AfterPlugin}
  /\ AfterPlatform \notin {AfterList, AfterPlugin} /\ AfterList # AfterPlugin
  BY DEF AccessorySave, ConfigurationSave, AfterPlatform, AfterList, AfterPlugin

LEMMA TodoSteps ==
  ASSUME todo \in Todo, todo # << >>
  PROVE  Head(todo) \in File /\ Tail(todo) \in Todo
  BY Saves DEF Todo, File
-----------------------------------------------------------------------------
(* Type correctness.  Of the list it says that no identifier is in it      *)
(* twice, whatever is added, removed, cut off or read from half a file     *)
(* (HAPConfigurationAccessory.hpp:148-185).                                *)
Type == TypeOK /\ (opened => todo # << >>)

LEMMA LoadedType ==
  ASSUME Type, NEW s \in loadAccessoryConfig
  PROVE  s \in PairingList
  BY RestoredList DEF Type, TypeOK, loadAccessoryConfig

LEMMA TypeStep == Type /\ [Next]_vars => Type'
<1> SUFFICES ASSUME Type, [Next]_vars PROVE Type'
  OBVIOUS
<1> USE DEF Type, TypeOK
<1>1. ASSUME Open PROVE Type'
  BY <1>1, TodoSteps, DefaultsAreAList DEF Open
<1>2. ASSUME Write PROVE Type'
  BY <1>2, TodoSteps DEF Write
<1>3. ASSUME Close PROVE Type'
  BY <1>3, TodoSteps DEF Close
<1>4. ASSUME WriteFails PROVE Type'
  BY <1>4, TodoSteps DEF WriteFails, Todo
<1>5. ASSUME NEW l \in PairingList, NEW s \in {AccessorySave, ConfigurationSave}, Change(l, s)
      PROVE  Type'
  BY <1>5, SavesDiffer DEF Change, Todo
<1>6. ASSUME NEW k \in Controller, addPairing(k) PROVE Type'
  <2>1. (IF Has(k) THEN pairings ELSE Append(pairings, k)) \in PairingList
    BY <1>6, AddedToList DEF addPairing, Has
  <2> QED
    BY <1>5, <1>6, <2>1 DEF addPairing
<1>7. ASSUME NEW k \in Controller, removePairing(k) PROVE Type'
  <2>1. PICK i \in DOMAIN pairings :
          Change([j \in 1 .. Len(pairings) - 1 |->
                    IF j < i THEN pairings[j] ELSE pairings[j + 1]], AccessorySave)
    BY <1>7 DEF removePairing
  <2> QED
    BY <1>5, <2>1, ErasedFromList
<1>8. ASSUME removeAllPairings \/ setDefaultsAndSave PROVE Type'
  BY <1>5, <1>8, DefaultsAreAList DEF removeAllPairings, setDefaultsAndSave
<1>9. ASSUME PowerCycle PROVE Type'
  <2>1. pairings' \in PairingList
    BY <1>9, LoadedType, DefaultsAreAList DEF PowerCycle
  <2>2. todo' \in Todo
    BY <1>9 DEF PowerCycle, Todo
  <2>3. trusted' \in BOOLEAN
    BY <1>9 DEF PowerCycle
  <2> QED
    BY <1>9, <2>1, <2>2, <2>3 DEF PowerCycle
<1>10. CASE UNCHANGED vars
  BY <1>10 DEF vars
<1> QED
  BY <1>1, <1>2, <1>3, <1>4, <1>6, <1>7, <1>8, <1>9, <1>10 DEF Next

LEMMA TypeAlways == Spec => []Type
<1>1. Init => Type
  BY DefaultsAreAList, SavesDiffer DEF Init, Type, TypeOK, Todo
<1> QED
  BY <1>1, TypeStep, PTL DEF Spec

(* The lists keep within their maximum and hold no identifier twice, and   *)
(* what is left of a save is always the end of one of the two.             *)
THEOREM TypeIsInvariant == Spec => []TypeOK
<1>1. Type => TypeOK
  BY DEF Type
<1> QED
  BY <1>1, TypeAlways, PTL
-----------------------------------------------------------------------------
(* What is in flash at each point of a save. *)
Opening(f) == opened /\ Head(todo) = f

(* The file that is open is the one there is no good copy of. *)
OpenedIsCut == opened => file[Head(todo)] \in {"empty", "part"}

(* Only the defaults are ever saved with all the files. *)
FullSavesDefaults == todo \notin {<< >>, AccessorySave} => pairings = Defaults

(* The files that are behind a save have been written. *)
WrittenInOrder ==
  /\ todo \in {AfterPlatform, AfterList, AfterPlugin} => file["cPltfrm"] # "absent"
  /\ todo \in {AfterList, AfterPlugin} => file["cAcc"] = "whole" /\ stored = pairings

(* Of what was in order, the magic is there until it is written again, and *)
(* the list is the old one until then: a list that load cuts short is as   *)
(* good as the list it restores.                                           *)
OldIsSafe ==
  trusted =>
    /\ ~ Opening("validate") => file["validate"] = "whole"
    /\ todo \in {AccessorySave, ConfigurationSave, AfterPlatform} /\ ~ Opening("cAcc")
         => file["cAcc"] = "whole" /\ Restored(stored) = Restored(before)
    /\ todo = << >> => file["cAcc"] = "whole" /\ Restored(stored) = Restored(pairings)

StorageInv == /\ Type /\ OpenedIsCut /\ FullSavesDefaults /\ WrittenInOrder
              /\ MagicMeansComplete /\ OldIsSafe

LEMMA StorageInit == Init => StorageInv
  BY DefaultsAreAList, SavesDiffer
     DEF Init, StorageInv, Type, TypeOK, Todo, File, OpenedIsCut, FullSavesDefaults, WrittenInOrder,
         MagicMeansComplete, OldIsSafe

LEMMA OpenStep == StorageInv /\ Open => StorageInv'
<1> SUFFICES ASSUME StorageInv, Open PROVE StorageInv'
  OBVIOUS
<1> USE Saves, SavesDiffer
<1>1. Type'
  BY TypeStep DEF StorageInv, Next
<1>2. OpenedIsCut'
  BY TodoSteps DEF StorageInv, Type, TypeOK, Open, OpenedIsCut
<1>3. FullSavesDefaults'
  BY DEF StorageInv, Open, FullSavesDefaults
<1>4. WrittenInOrder'
  BY DEF StorageInv, Type, TypeOK, Todo, File, Open, WrittenInOrder
<1>5. MagicMeansComplete'
  BY DEF StorageInv, Type, TypeOK, Todo, File, Open, WrittenInOrder, MagicMeansComplete
<1>6. OldIsSafe'
  BY DEF StorageInv, Type, TypeOK, Todo, File, Open, Opening, OldIsSafe
<1> QED
  BY <1>1, <1>2, <1>3, <1>4, <1>5, <1>6 DEF StorageInv

LEMMA WriteStep == StorageInv /\ Write => StorageInv'
<1> SUFFICES ASSUME StorageInv, Write PROVE StorageInv'
  OBVIOUS
<1> USE Saves, SavesDiffer
<1>1. Type'
  BY TypeStep DEF StorageInv, Next
<1>2. OpenedIsCut'
  BY TodoSteps DEF StorageInv, Type, TypeOK, Write, OpenedIsCut
<1>3. FullSavesDefaults'
  BY DEF StorageInv, Write, FullSavesDefaults
<1>4. WrittenInOrder'
  BY DEF StorageInv, Type, TypeOK, Todo, File, Write, WrittenInOrder
<1>5. MagicMeansComplete'
  BY DEF StorageInv, Type, TypeOK, Todo, File, Write, MagicMeansComplete
<1>6. OldIsSafe'
  BY DEF StorageInv, Type, TypeOK, Todo, File, Write, Opening, OldIsSafe
<1> QED
  BY <1>1, <1>2, <1>3, <1>4, <1>5, <1>6 DEF StorageInv

LEMMA CloseStep == StorageInv /\ Close => StorageInv'
<1> SUFFICES ASSUME StorageInv, Close PROVE StorageInv'
  OBVIOUS
<1> USE Saves, SavesDiffer
<1>1. Type'
  BY TypeStep DEF StorageInv, Next
<1>2. OpenedIsCut'
  BY DEF Close, OpenedIsCut
<1>3. FullSavesDefaults'
  BY DEF StorageInv, Type, TypeOK, Todo, Close, FullSavesDefaults
<1>4. WrittenInOrder'
  BY DEF StorageInv, Type, TypeOK, Todo, File, Close, WrittenInOrder
<1>5. MagicMeansComplete'
  BY DEF StorageInv, Type, TypeOK, Todo, File, Close, MagicMeansComplete
<1>6. OldIsSafe'
  BY DEF StorageInv, Type, TypeOK, Todo, File, Close, Opening, WrittenInOrder, OldIsSafe
<1> QED
  BY <1>1, <1>2, <1>3, <1>4, <1>5, <1>6 DEF StorageInv

LEMMA WriteFailsStep == StorageInv /\ WriteFails => StorageInv'
<1> SUFFICES ASSUME StorageInv, WriteFails PROVE StorageInv'
  OBVIOUS
<1> USE Saves, SavesDiffer
<1>1. Type'
  BY TypeStep DEF StorageInv, Next
<1>2. OpenedIsCut'
  BY DEF WriteFails, OpenedIsCut
<1>3. FullSavesDefaults'
  BY DEF StorageInv, Type, TypeOK, Todo, WriteFails, FullSavesDefaults
<1>4. WrittenInOrder'
  BY DEF StorageInv, Type, TypeOK, Todo, WriteFails, WrittenInOrder
<1>5. MagicMeansComplete'
  BY DEF StorageInv, WriteFails, MagicMeansComplete
<1>6. OldIsSafe'
  BY DEF StorageInv, Type, TypeOK, Todo, WriteFails, Opening, OldIsSafe
<1> QED
  BY <1>1, <1>2, <1>3, <1>4, <1>5, <1>6 DEF StorageInv

(* A change keeps what is in flash: the list there is the old one from now *)
(* on.                                                                     *)
LEMMA ChangeStep ==
  ASSUME StorageInv, NEW list, NEW save \in {AccessorySave, ConfigurationSave},
         Change(list, save), save = ConfigurationSave => list = Defaults, Type'
  PROVE  StorageInv'
<1> USE Saves, SavesDiffer
<1>1. ~ opened' /\ todo' \in {AccessorySave, ConfigurationSave}
  BY DEF StorageInv, Type, TypeOK, Change
<1>2. OpenedIsCut' /\ WrittenInOrder'
  BY <1>1 DEF OpenedIsCut, WrittenInOrder
<1>3. FullSavesDefaults'
  BY DEF Change, FullSavesDefaults
<1>4. MagicMeansComplete'
  BY DEF StorageInv, Change, MagicMeansComplete
<1>5. OldIsSafe'
  BY <1>1 DEF StorageInv, Change, Opening, OldIsSafe
<1> QED
  BY <1>2, <1>3, <1>4, <1>5 DEF StorageInv

LEMMA PowerCycleStep == StorageInv /\ PowerCycle => StorageInv'
<1> SUFFICES ASSUME StorageInv, PowerCycle PROVE StorageInv'
  OBVIOUS
<1> USE Saves, SavesDiffer
<1>1. Type'
  BY TypeStep DEF StorageInv, Next
<1>2. ~ opened' /\ todo' \in {<< >>, ConfigurationSave}
  BY DEF PowerCycle
<1>3. OpenedIsCut' /\ WrittenInOrder'
  BY <1>2 DEF OpenedIsCut, WrittenInOrder
<1>4. FullSavesDefaults'
  BY DEF PowerCycle, FullSavesDefaults
<1>5. MagicMeansComplete'
  BY DEF StorageInv, PowerCycle, MagicMeansComplete
<1>6. OldIsSafe'
  <2>1. SUFFICES ASSUME trusted' PROVE OldIsSafe'
    BY DEF OldIsSafe
  <2>2. /\ pairings' \in loadAccessoryConfig /\ todo' = << >>
        /\ file["cAcc"] = "whole" /\ file["validate"] = "whole"
        /\ file' = file /\ stored' = stored
    BY <2>1 DEF PowerCycle
  <2>3. pairings' = Restored(stored)
    BY <2>2 DEF loadAccessoryConfig
  <2>4. Restored(pairings') = Restored(stored)
    BY <2>3, RestoredList DEF StorageInv, Type, TypeOK
  <2> QED
    BY <2>2, <2>4, <1>2 DEF OldIsSafe, Opening
<1> QED
  BY <1>1, <1>3, <1>4, <1>5, <1>6 DEF StorageInv

LEMMA StorageStep == StorageInv /\ [Next]_vars => StorageInv'
<1> SUFFICES ASSUME StorageInv, [Next]_vars PROVE StorageInv'
  OBVIOUS
<1>1. Type'
  BY TypeStep DEF StorageInv
<1>2. CASE \E k \in Controller : addPairing(k) \/ removePairing(k)
  <2>1. PICK list : Change(list, AccessorySave)
    BY <1>2 DEF addPairing, removePairing
  <2> QED
    BY <1>1, <2>1, ChangeStep, SavesDiffer
<1>3. CASE removeAllPairings \/ setDefaultsAndSave
  BY <1>1, <1>3, ChangeStep DEF removeAllPairings, setDefaultsAndSave
<1>4. CASE UNCHANGED vars
  BY <1>4 DEF vars, StorageInv, Type, TypeOK, OpenedIsCut, FullSavesDefaults, WrittenInOrder,
              MagicMeansComplete, OldIsSafe, Opening
<1> QED
  BY <1>2, <1>3, <1>4, OpenStep, WriteStep, CloseStep, WriteFailsStep, PowerCycleStep DEF Next

LEMMA StorageAlways == Spec => []StorageInv
  BY StorageInit, StorageStep, PTL DEF Spec
-----------------------------------------------------------------------------
(* Between two saves a power cycle restores exactly the pairings, as many  *)
(* as load takes (HAPConfiguration::load, HAPConfiguration.cpp:650-721).   *)
THEOREM SavedListIsLoaded == Spec => []SavedIsLoaded
<1>1. ASSUME StorageInv, todo = << >>, trusted, Len(pairings) <= LoadMax
      PROVE  validConfig = {TRUE} /\ loadAccessoryConfig = {pairings}
  <2>1. ~ opened /\ pairings \in PairingList
    BY <1>1 DEF StorageInv, Type, TypeOK
  <2>2. /\ file["validate"] = "whole" /\ file["cAcc"] = "whole"
        /\ Restored(stored) = Restored(pairings)
    BY <1>1, <2>1 DEF StorageInv, OldIsSafe, Opening
  <2>3. Restored(pairings) = pairings
    BY <1>1, <2>1, RestoredList
  <2> QED
    BY <2>2, <2>3 DEF validConfig, loadAccessoryConfig
<1>2. StorageInv => SavedIsLoaded
  BY <1>1 DEF SavedIsLoaded
<1> QED
  BY <1>2, StorageAlways, PTL

(* Once there is any magic, the files that load requires have been written *)
(* (HAPConfiguration::save, HAPConfiguration.cpp:726-802).                 *)
THEOREM MagicIsWrittenLast == Spec => []MagicMeansComplete
<1>1. StorageInv => MagicMeansComplete
  BY DEF StorageInv
<1> QED
  BY <1>1, StorageAlways, PTL

(* A power cut leaves the old list or the new one, unless the list itself  *)
(* was being rewritten.                                                    *)
THEOREM PowerCutKeepsOldOrNew == Spec => CutKeepsOldOrNew
<1> DEFINE Cut == PowerCycle /\ trusted /\ Len(pairings) <= LoadMax /\ Len(before) <= LoadMax
                    /\ ~ (opened /\ Head(todo) = "cAcc")
                    => pairings' \in {before, pairings}
<1>1. ASSUME StorageInv, PowerCycle, trusted, Len(pairings) <= LoadMax, Len(before) <= LoadMax,
             ~ Opening("cAcc")
      PROVE  pairings' \in {before, pairings}
  <2> USE Saves, SavesDiffer
  <2>1. Restored(before) = before /\ Restored(pairings) = pairings
    BY <1>1, RestoredList DEF StorageInv, Type, TypeOK
  <2>2. file["cAcc"] = "whole" /\ Restored(stored) \in {before, pairings}
    BY <1>1, <2>1 DEF StorageInv, Type, TypeOK, Todo, OldIsSafe, WrittenInOrder
  <2>3. loadAccessoryConfig = {Restored(stored)}
    BY <2>2 DEF loadAccessoryConfig
  <2>4. CASE pairings' \in loadAccessoryConfig
    BY <2>2, <2>3, <2>4
  <2>5. CASE FALSE \in validConfig /\ pairings' = Defaults
    <3>1. Opening("validate")
      BY <1>1, <2>5 DEF StorageInv, OldIsSafe, validConfig
    <3>2. todo = AfterPlugin
      BY <1>1, <3>1 DEF StorageInv, Type, TypeOK, Todo, Opening
    <3> QED
      BY <1>1, <2>5, <3>2 DEF StorageInv, FullSavesDefaults
  <2> QED
    BY <1>1, <2>3, <2>4, <2>5 DEF PowerCycle
<1>2. StorageInv /\ [Next]_vars => [Cut]_vars
  BY <1>1 DEF Opening
<1> QED
  BY <1>2, StorageAlways, PTL DEF Spec, CutKeepsOldOrNew
=============================================================================
