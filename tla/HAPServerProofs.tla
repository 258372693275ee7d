-------------------------- MODULE HAPServerProofs --------------------------
(***************************************************************************)
(* Theorems about the pairing core, for any number of connections,         *)
(* controllers and keys.                                                   *)
(*                                                                         *)
(* What is stored in flash changes in few ways (StoreChanges), and so does *)
(* the SRP session (SetupChanges); the invariants about the pairing list,  *)
(* the keys, the mDNS flag and pair-setup are proved from those.           *)
(***************************************************************************)
EXTENDS HAPServer, FiniteSetTheorems, TLAPS

USE ServerAssumption

LEMMA InitTypes == NoSession \in Session
BY DEF Session, NoSession

(* What pair-verify makes of a connection's record is a Session. *)
LEMMA VerifiedIsSession ==
  ASSUME NEW s \in Session, NEW k \in Controller, NEW a \in BOOLEAN
  PROVE  [s EXCEPT !.encrypted = TRUE, !.id = k, !.admin = a] \in Session
BY DEF Session

LEMMA InitTypeOK == Init => TypeOK
<1> SUFFICES ASSUME Init PROVE TypeOK
  OBVIOUS
<1>1. /\ conn \in [Client -> {"free", "open", "closed"}]
      /\ pairings \in Pairings
  BY DEF Init, Pairings, NoPairings, Role
<1>2. NoSession \in Session /\ session \in [Client -> Session]
  BY DEF Init, Session, NoSession
<1>3. srp \in Srp
  BY DEF Init, Srp
<1>4. saved \in [pairings : Pairings, ltpk : Key \cup {ZeroKey}]
  BY DEF Init, Pairings, NoPairings, Role
<1>5. attempts \in 0 .. AttemptsModulus - 1
  BY DEF Init
<1>6. pending \in SUBSET Deletion
  BY DEF Init
<1> QED
  BY <1>1, <1>2, <1>3, <1>4, <1>5, <1>6 DEF TypeOK, Init

(* Every step keeps the type invariant, which also says that the attempt   *)
(* counter wraps within its width.                                         *)
LEMMA NextTypeOK == TypeOK /\ [Next]_vars => TypeOK'
<1> SUFFICES ASSUME TypeOK, [Next]_vars PROVE TypeOK'
  OBVIOUS
<1> USE DEF TypeOK, net, setup, store, Pairings, NoPairings, Role, Session, NoSession,
            Srp, Deletion
<1>m. (attempts + 1) % AttemptsModulus \in 0 .. AttemptsModulus - 1
  OBVIOUS
<1>1. ASSUME NEW c \in Client, Accept(c) PROVE TypeOK'
  BY <1>1 DEF Accept
<1>2. ASSUME NEW c \in Client, PeerCloses(c) PROVE TypeOK'
  BY <1>2 DEF PeerCloses
<1>3. ASSUME NEW c \in Client, Reap(c) PROVE TypeOK'
  BY <1>3 DEF Reap, Free, Idle
<1>4. ASSUME NEW c \in Client, PlainRequest(c) PROVE TypeOK'
  <2> USE DEF sendErrorTLV, Free, Idle, Fault
  <2>1. CASE BadRequest(c)
    BY <2>1, <1>m DEF BadRequest
  <2>2. CASE PairSetupM1Refused(c)
    BY <2>2, <1>m DEF PairSetupM1Refused
  <2>3. CASE PairSetupM1(c)
    <3>1. session' \in [Client -> Session]
      BY <2>3 DEF PairSetupM1
    <3>2. srp' \in Srp
      BY <2>3 DEF PairSetupM1, begin
    <3> QED
      BY <2>3, <3>1, <3>2 DEF PairSetupM1, generateKey
  <2>4. CASE PairSetupM1Fails(c)
    BY <2>4, <1>m DEF PairSetupM1Fails, generateKey
  <2>5. CASE PairSetupM3(c)
    <3>1. srp' \in Srp
      BY <2>5 DEF PairSetupM3
    <3> QED
      BY <2>5, <3>1 DEF PairSetupM3
  <2>6. CASE PairSetupM3Fails(c)
    BY <2>6, <1>m DEF PairSetupM3Fails
  <2>7. CASE PairSetupM3Faults(c)
    BY <2>7 DEF PairSetupM3Faults
  <2>8. CASE PairSetupM5Fails(c)
    BY <2>8, <1>m DEF PairSetupM5Fails
  <2>9. CASE PairSetupM5Faults(c)
    BY <2>9 DEF PairSetupM5Faults
  <2>10. CASE PairVerifyM1(c)
    BY <2>10 DEF PairVerifyM1
  <2>11. ASSUME NEW k \in Controller, PairSetupM5(c, k) PROVE TypeOK'
    <3>1. pairings' \in Pairings /\ sf' \in BOOLEAN
      BY <2>11 DEF PairSetupM5, updateServiceTxt
    <3>2. saved' \in [pairings : Pairings, ltpk : Key \cup {ZeroKey}]
      BY <2>11, <3>1 DEF PairSetupM5, Save
    <3> QED
      BY <2>11, <3>1, <3>2 DEF PairSetupM5
  <2>12. ASSUME NEW k \in Controller, PairVerifyM3(c, k) PROVE TypeOK'
    <3>1. session' \in [Client -> Session]
      <4> HIDE DEF Session
      <4>2. session[c] \in Session /\ (pairings[k] = "admin") \in BOOLEAN
        OBVIOUS
      <4>1. [session[c] EXCEPT !.encrypted = TRUE, !.id = k,
                               !.admin = (pairings[k] = "admin")] \in Session
        BY <4>2, VerifiedIsSession
      <4> QED
        BY <2>12, <4>1 DEF PairVerifyM3
    <3> QED
      BY <2>12, <3>1 DEF PairVerifyM3
  <2>13. ASSUME NEW k \in Controller, PairVerifyM3Faults(c, k) PROVE TypeOK'
    BY <2>13 DEF PairVerifyM3Faults
  <2>14. ASSUME NEW k \in Controller, PairSetupM5Overruns(c, k) PROVE TypeOK'
    BY <2>14 DEF PairSetupM5Overruns
  <2> QED
    BY <1>4, <2>1, <2>2, <2>3, <2>4, <2>5, <2>6, <2>7, <2>8, <2>9, <2>10, <2>11, <2>12,
       <2>13, <2>14 DEF PlainRequest
<1>5. ASSUME NEW c \in Client, EncryptedRequest(c) PROVE TypeOK'
  <2> USE DEF sendErrorTLV, Free, Idle, Again, Save, updateServiceTxt
  <2>1. CASE SecureRequest(c)
    BY <2>1 DEF SecureRequest
  <2>2. CASE UnknownPath(c)
    BY <2>2 DEF UnknownPath
  <2>3. CASE NotAdmin(c)
    BY <2>3, <1>m DEF NotAdmin
  <2>4. CASE FrameInPart(c)
    BY <2>4 DEF FrameInPart
  <2>5. CASE PairingsRemoveOwn(c)
    <3>1. pairings' \in Pairings /\ sf' \in BOOLEAN
      BY <2>5 DEF PairingsRemoveOwn
    <3>2. saved' \in [pairings : Pairings, ltpk : Key \cup {ZeroKey}]
      BY <2>5, <3>1 DEF PairingsRemoveOwn
    <3> QED
      BY <2>5, <3>1, <3>2 DEF PairingsRemoveOwn
  <2>6. CASE PairingsUnknownMethod(c)
    BY <2>6 DEF PairingsUnknownMethod
  <2>7. ASSUME NEW k \in Controller, PairingsRemoveOther(c, k) PROVE TypeOK'
    <3>1. pairings' \in Pairings /\ sf' \in BOOLEAN
      BY <2>7 DEF PairingsRemoveOther
    <3>2. saved' \in [pairings : Pairings, ltpk : Key \cup {ZeroKey}]
      BY <2>7, <3>1 DEF PairingsRemoveOther
    <3>3. /\ conn' \in [Client -> {"free", "open", "closed"}]
          /\ spinning' \in Client \cup {NoClient} /\ waiting' \in Client \cup {NoClient}
      BY <2>7 DEF PairingsRemoveOther, CloseAll
    <3>4. session' \in [Client -> Session]
      <4> HIDE DEF Session, NoSession
      <4> QED
        BY <2>7, InitTypes DEF PairingsRemoveOther, CloseAll
    <3> QED
      BY <2>7, <3>1, <3>2, <3>3, <3>4 DEF PairingsRemoveOther
  <2>8. ASSUME NEW k \in Controller, NEW role \in {"user", "admin"}, PairingsAdd(c, k, role)
        PROVE TypeOK'
    BY <2>8 DEF PairingsAdd
  <2> QED
    BY <1>5, <2>1, <2>2, <2>3, <2>4, <2>5, <2>6, <2>7, <2>8 DEF EncryptedRequest
<1>6. ASSUME NEW e \in Deletion, ButtonHeld(e) PROVE TypeOK'
  BY <1>6 DEF ButtonHeld
<1>7. CASE processEvents
  <2>1. pairings' \in Pairings /\ ltpk' \in Key \cup {ZeroKey} /\ sf' \in BOOLEAN
    BY <1>7 DEF processEvents, handleDeletion, updateServiceTxt
  <2>2. saved' \in [pairings : Pairings, ltpk : Key \cup {ZeroKey}]
    BY <1>7, <2>1 DEF processEvents, handleDeletion, Save
  <2> QED
    BY <1>7, <2>1, <2>2 DEF processEvents, handleDeletion
<1>8. CASE StackOverflow
  BY <1>8 DEF StackOverflow, Fault
<1>9. CASE Restart
  <2>1. /\ pairings' \in Pairings /\ ltpk' \in Key \cup {ZeroKey} /\ sf' \in BOOLEAN
        /\ saved' \in [pairings : Pairings, ltpk : Key \cup {ZeroKey}]
        /\ attempts' \in 0 .. AttemptsModulus - 1
    BY <1>9 DEF Restart, loadPairings, updateServiceTxt
  <2>2. session' \in [Client -> Session] /\ srp' \in Srp
    <3> HIDE DEF Session, NoSession
    <3> QED
      BY <1>9, InitTypes DEF Restart
  <2> QED
    BY <1>9, <2>1, <2>2 DEF Restart
<1>10. CASE UNCHANGED vars
  BY <1>10 DEF vars
<1> QED
  BY <1>1, <1>2, <1>3, <1>4, <1>5, <1>6, <1>7, <1>8, <1>9, <1>10 DEF Next

(* The server's state has its type in every reachable state. *)
THEOREM TypeIsInvariant == Spec => []TypeOK
BY InitTypeOK, NextTypeOK, PTL DEF Spec
-----------------------------------------------------------------------------
(* How a step can change what is stored. *)
Rewrites == /\ ltpk' = ltpk
            /\ saved' = [pairings |-> pairings', ltpk |-> ltpk']
            /\ pairings' = NoPairings => sf'
Keeps    == /\ UNCHANGED <<pairings, ltpk, saved>>
            /\ sf' = sf \/ (pairings' = NoPairings => sf')
NewKey   == generateKey /\ UNCHANGED <<pairings, saved, sf>>

(* A removal of an identifier that is not in the list changes nothing. *)
LEMMA RemoveUnknown ==
  ASSUME NEW p \in Pairings, NEW k, k \in Controller => p[k] = "none"
  PROVE  [p EXCEPT ![k] = "none"] = p
BY DEF Pairings

LEMMA StoreChanges ==
  ASSUME TypeOK, [Next]_vars
  PROVE  NewKey \/ Rewrites \/ Keeps \/ processEvents \/ Restart
<1> USE DEF store
<1>p. pairings \in Pairings
  BY DEF TypeOK
<1>1. ASSUME NEW c \in Client, Accept(c) \/ PeerCloses(c) \/ Reap(c) PROVE Keeps
  BY <1>1 DEF Accept, PeerCloses, Reap, Keeps
<1>2. ASSUME NEW c \in Client, PairSetupM1(c) \/ PairSetupM1Fails(c) PROVE NewKey
  BY <1>2 DEF PairSetupM1, PairSetupM1Fails, NewKey
<1>3. ASSUME NEW c \in Client, NEW k \in Controller, PairSetupM5(c, k) PROVE Rewrites
  BY <1>3 DEF PairSetupM5, Rewrites, Save, updateServiceTxt
<1>4. ASSUME NEW c \in Client, PlainRequest(c) PROVE NewKey \/ Rewrites \/ Keeps
  BY <1>2, <1>3, <1>4 DEF PlainRequest, BadRequest, PairSetupM1Refused, PairSetupM3,
     PairSetupM3Fails, PairSetupM3Faults, PairSetupM5Fails, PairSetupM5Faults,
     PairSetupM5Overruns, PairVerifyM1, PairVerifyM3, PairVerifyM3Faults, Keeps, Fault
<1>5. ASSUME NEW c \in Client, PairingsRemoveOwn(c) PROVE Rewrites \/ Keeps
  <2>1. CASE session[c].id \in Paired
    BY <1>5, <2>1 DEF PairingsRemoveOwn, Rewrites, Save, updateServiceTxt
  <2>2. CASE session[c].id \notin Paired
    <3>1. pairings' = pairings
      BY <1>5, <1>p, <2>2, RemoveUnknown DEF PairingsRemoveOwn, Paired, Entries
    <3> QED
      BY <1>5, <2>2, <3>1 DEF PairingsRemoveOwn, Keeps, updateServiceTxt
  <2> QED
    BY <2>1, <2>2
<1>6. ASSUME NEW c \in Client, NEW k \in Controller, PairingsRemoveOther(c, k)
      PROVE Rewrites \/ Keeps
  <2>1. CASE k \in Paired
    BY <1>6, <2>1 DEF PairingsRemoveOther, Rewrites, Save, updateServiceTxt
  <2>2. CASE k \notin Paired
    <3>1. pairings' = pairings
      BY <1>6, <1>p, <2>2, RemoveUnknown DEF PairingsRemoveOther, Paired, Entries
    <3> QED
      BY <1>6, <2>2, <3>1 DEF PairingsRemoveOther, Keeps, updateServiceTxt
  <2> QED
    BY <2>1, <2>2
<1>7. ASSUME NEW c \in Client, NEW k \in Controller, NEW role \in {"user", "admin"},
             PairingsAdd(c, k, role)
      PROVE Rewrites
  <2>1. pairings'[k] # "none"
    BY <1>7, <1>p DEF PairingsAdd, Pairings
  <2>2. pairings' # NoPairings
    BY <2>1 DEF NoPairings
  <2> QED
    BY <1>7, <2>2 DEF PairingsAdd, Rewrites, Save
<1>8. ASSUME NEW c \in Client, EncryptedRequest(c) PROVE Rewrites \/ Keeps
  BY <1>5, <1>6, <1>7, <1>8 DEF EncryptedRequest, SecureRequest, UnknownPath, NotAdmin,
     FrameInPart, PairingsUnknownMethod, Keeps
<1>9. ASSUME NEW e \in Deletion, ButtonHeld(e) PROVE Keeps
  BY <1>9 DEF ButtonHeld, Keeps
<1>10. ASSUME StackOverflow \/ UNCHANGED vars PROVE Keeps
  BY <1>10 DEF StackOverflow, Fault, Keeps, vars
<1> QED
  BY <1>1, <1>4, <1>8, <1>9, <1>10 DEF Next
-----------------------------------------------------------------------------
(* The pairing list and the key in flash. *)

(* A list that load cuts short was not empty, and what is left is not. *)
LEMMA LoadKeepsPaired ==
  ASSUME TypeOK, loadPairings
  PROVE  pairings' = NoPairings <=> saved.pairings = NoPairings
<1>1. CASE ~ Truncated
  BY <1>1 DEF loadPairings
<1>2. CASE Truncated
  <2>1. Entries(NoPairings) = {} /\ Cardinality({}) = 0
    BY FS_EmptySet DEF Entries, NoPairings
  <2>2. LoadMax \in Nat /\ LoadMax >= 1
    BY DEF LoadMax
  <2>3. Cardinality(Entries(pairings')) = LoadMax /\ Cardinality(Entries(saved.pairings)) > LoadMax
    BY <1>2 DEF loadPairings, Truncated
  <2>4. pairings' # NoPairings
    BY <2>1, <2>2, <2>3
  <2>5. saved.pairings # NoPairings
    BY <2>1, <2>2, <2>3
  <2> QED
    BY <2>4, <2>5
<1> QED
  BY <1>1, <1>2

LEMMA InitDurable == Init => PairingsAreDurable
BY DEF Init, PairingsAreDurable, isPaired, Truncated

LEMMA NextDurable == TypeOK /\ PairingsAreDurable /\ [Next]_vars => PairingsAreDurable'
<1> SUFFICES ASSUME TypeOK, PairingsAreDurable, [Next]_vars PROVE PairingsAreDurable'
  OBVIOUS
<1> USE DEF PairingsAreDurable, isPaired, NoPairings, Truncated
<1>1. CASE NewKey
  BY <1>1 DEF NewKey, generateKey
<1>2. CASE Rewrites
  BY <1>2 DEF Rewrites
<1>3. CASE Keeps
  BY <1>3 DEF Keeps
<1>4. CASE processEvents
  BY <1>4 DEF processEvents, handleDeletion, Save
<1>5. CASE Restart
  BY <1>5, LoadKeepsPaired DEF Restart, loadPairings, Truncated
<1> QED
  BY <1>1, <1>2, <1>3, <1>4, <1>5, StoreChanges

(* The copy in flash is the pairing list, and holds the key that the       *)
(* paired controllers know, in every reachable state: also between the     *)
(* deletion by the button and the next request, and after any restart.     *)
THEOREM PairingsAlwaysDurable == Spec => []PairingsAreDurable
BY InitTypeOK, NextTypeOK, InitDurable, NextDurable, PTL DEF Spec

(* While anyone is paired, no step changes the accessory's key. *)
THEOREM IdentityAlwaysStable == Spec => IdentityIsStable
<1>1. TypeOK /\ PairingsAreDurable /\ [Next]_vars
        => [isPaired /\ pairings' # NoPairings => ltpk' = ltpk]_vars
  <2> SUFFICES ASSUME TypeOK, PairingsAreDurable, [Next]_vars, isPaired, pairings' # NoPairings
               PROVE  ltpk' = ltpk
    OBVIOUS
  <2> QED
    BY StoreChanges DEF NewKey, generateKey, Rewrites, Keeps, processEvents, handleDeletion,
       Restart, PairingsAreDurable
<1> QED
  BY <1>1, InitTypeOK, NextTypeOK, InitDurable, NextDurable, PTL DEF Spec, IdentityIsStable
-----------------------------------------------------------------------------
(* The single SRP session. *)

(* How a step can change it. *)
Drops     == srp' = "none" /\ ~ inPairingMode'
Continues == /\ (srp' = "none") = (srp = "none")
             /\ inPairingMode' = inPairingMode \/ ~ inPairingMode'

LEMMA SetupChanges ==
  ASSUME TypeOK, [Next]_vars
  PROVE  (\E c \in Client : PairSetupM1(c)) \/ Drops \/ Continues
<1> USE DEF setup
<1>1. ASSUME NEW c \in Client, Accept(c) \/ PeerCloses(c) \/ Reap(c) PROVE Continues
  BY <1>1 DEF Accept, PeerCloses, Reap, Continues
<1>2. ASSUME NEW c \in Client, PairSetupM3(c) PROVE Continues
  BY <1>2 DEF PairSetupM3, Continues
<1>3. ASSUME NEW c \in Client, PairSetupM1Fails(c) \/ PairSetupM3Fails(c) \/ PairSetupM5Fails(c)
      PROVE Drops
  BY <1>3 DEF PairSetupM1Fails, PairSetupM3Fails, PairSetupM5Fails, sendErrorTLV, Drops
<1>4. ASSUME NEW c \in Client, NEW k \in Controller, PairSetupM5(c, k) PROVE Drops
  BY <1>4 DEF PairSetupM5, Drops
<1>5. ASSUME NEW c \in Client, PlainRequest(c) PROVE PairSetupM1(c) \/ Drops \/ Continues
  BY <1>2, <1>3, <1>4, <1>5 DEF PlainRequest, BadRequest, PairSetupM1Refused,
     PairSetupM3Faults, PairSetupM5Faults, PairSetupM5Overruns, PairVerifyM1, PairVerifyM3,
     PairVerifyM3Faults, sendErrorTLV, Continues, Fault
<1>6. ASSUME NEW c \in Client, EncryptedRequest(c) PROVE Continues
  BY <1>6 DEF EncryptedRequest, SecureRequest, UnknownPath, NotAdmin, FrameInPart,
     PairingsRemoveOwn, PairingsUnknownMethod, PairingsRemoveOther, PairingsAdd, sendErrorTLV,
     Continues
<1>7. ASSUME NEW e \in Deletion, ButtonHeld(e) PROVE Continues
  BY <1>7 DEF ButtonHeld, Continues
<1>8. ASSUME processEvents \/ StackOverflow \/ UNCHANGED vars PROVE Continues
  BY <1>8 DEF processEvents, handleDeletion, StackOverflow, Fault, Continues, vars
<1>9. ASSUME Restart PROVE Drops
  BY <1>9 DEF Restart, Drops
<1> QED
  BY <1>1, <1>5, <1>6, <1>7, <1>8, <1>9 DEF Next

LEMMA InitBusy == Init => BusyHasSession
BY DEF Init, BusyHasSession

LEMMA NextBusy == TypeOK /\ BusyHasSession /\ [Next]_vars => BusyHasSession'
<1> SUFFICES ASSUME TypeOK, BusyHasSession, [Next]_vars PROVE BusyHasSession'
  OBVIOUS
<1>1. ASSUME NEW c \in Client, PairSetupM1(c) PROVE BusyHasSession'
  BY <1>1 DEF PairSetupM1, begin, BusyHasSession
<1>2. CASE Drops
  BY <1>2 DEF Drops, BusyHasSession
<1>3. CASE Continues
  BY <1>3 DEF Continues, BusyHasSession
<1> QED
  BY <1>1, <1>2, <1>3, SetupChanges

(* The accessory answers "busy" only while a pair-setup can go on. *)
THEOREM BusyAlwaysHasSession == Spec => []BusyHasSession
BY InitTypeOK, NextTypeOK, InitBusy, NextBusy, PTL DEF Spec

(* Where a step that leaves the accessory paired can come from. *)
LEMMA PairedFrom ==
  ASSUME TypeOK, [Next]_vars, isPaired', srp' # "none"
  PROVE  isPaired \/ \E c \in Client : session[c].encrypted
<1> USE DEF store, isPaired
<1>n. NoPairings' = NoPairings
  BY DEF NoPairings
<1>1. ASSUME NEW c \in Client, Accept(c) \/ PeerCloses(c) \/ Reap(c) PROVE isPaired
  BY <1>1, <1>n DEF Accept, PeerCloses, Reap
<1>2. ASSUME NEW c \in Client, PlainRequest(c) PROVE isPaired
  BY <1>2, <1>n DEF PlainRequest, BadRequest, PairSetupM1Refused, PairSetupM1,
     PairSetupM1Fails, PairSetupM3, PairSetupM3Fails, PairSetupM3Faults, PairSetupM5,
     PairSetupM5Fails, PairSetupM5Faults, PairSetupM5Overruns, PairVerifyM1, PairVerifyM3,
     PairVerifyM3Faults, Fault
<1>3. ASSUME NEW c \in Client, EncryptedRequest(c) PROVE session[c].encrypted
  BY <1>3 DEF EncryptedRequest, SecureRequest, UnknownPath, NotAdmin, FrameInPart,
     PairingsRemoveOwn, PairingsUnknownMethod, PairingsRemoveOther, PairingsAdd, Secure
<1>4. ASSUME NEW e \in Deletion, ButtonHeld(e) PROVE isPaired
  BY <1>4, <1>n DEF ButtonHeld
<1>5. CASE processEvents
  BY <1>5, <1>n DEF processEvents, handleDeletion
<1>6. CASE StackOverflow \/ UNCHANGED vars
  BY <1>6, <1>n DEF StackOverflow, Fault, vars
<1>7. CASE Restart
  BY <1>7 DEF Restart
<1> QED
  BY <1>1, <1>2, <1>3, <1>4, <1>5, <1>6, <1>7 DEF Next

(* In the release build a pairing ends pair-setup for everybody, whichever *)
(* of the peers in it completed it: a paired accessory with an SRP session *)
(* comes only from a connection that outlived the last pairing.            *)
THEOREM PairingAlwaysEndsSetup == Spec => PairingEndsSetup
<1>1. TypeOK /\ [Next]_vars
        => [~ AllowPairingWhilePaired /\ isPaired' /\ srp' # "none" =>
              \/ isPaired /\ srp # "none"
              \/ ~ isPaired /\ \E c \in Client : session[c].encrypted]_vars
  <2> SUFFICES ASSUME TypeOK, [Next]_vars, ~ AllowPairingWhilePaired, isPaired',
                      srp' # "none", isPaired
               PROVE  srp # "none"
    BY PairedFrom
  <2>1. ASSUME NEW c \in Client, PairSetupM1(c) PROVE FALSE
    BY <2>1 DEF PairSetupM1, M1Refused
  <2>2. CASE Drops
    BY <2>2 DEF Drops
  <2>3. CASE Continues
    BY <2>3 DEF Continues
  <2> QED
    BY <2>1, <2>2, <2>3, SetupChanges
<1> QED
  BY <1>1, InitTypeOK, NextTypeOK, PTL DEF Spec, PairingEndsSetup
-----------------------------------------------------------------------------
(* Without the button, nothing is deleted behind the server's back. *)
NoDeletion == ~ HasButton => pending = {}

LEMMA InitNoDeletion == Init => NoDeletion
BY DEF Init, NoDeletion

LEMMA NextNoDeletion == NoDeletion /\ [Next]_vars => NoDeletion'
<1> SUFFICES ASSUME NoDeletion, [Next]_vars, ~ HasButton PROVE pending' = {}
  BY DEF NoDeletion
<1>1. pending = {}
  BY DEF NoDeletion
<1>2. ASSUME NEW c \in Client, PlainRequest(c) PROVE pending' = pending
  BY <1>2 DEF PlainRequest, BadRequest, PairSetupM1Refused, PairSetupM1, PairSetupM1Fails,
     PairSetupM3, PairSetupM3Fails, PairSetupM3Faults, PairSetupM5, PairSetupM5Fails,
     PairSetupM5Faults, PairSetupM5Overruns, PairVerifyM1, PairVerifyM3, PairVerifyM3Faults, Fault
<1>3. ASSUME NEW c \in Client, EncryptedRequest(c) PROVE pending' = pending
  BY <1>3 DEF EncryptedRequest, SecureRequest, UnknownPath, NotAdmin, FrameInPart,
     PairingsRemoveOwn, PairingsUnknownMethod, PairingsRemoveOther, PairingsAdd
<1> QED
  BY <1>1, <1>2, <1>3 DEF Next, Accept, PeerCloses, Reap, ButtonHeld, processEvents, handleDeletion,
     StackOverflow, Fault, Restart, vars

(* A blank accessory: no pairing, no pair-setup under way, and nobody has  *)
(* a session from the time it was paired.  Only an M1 leads out of it.     *)
Blank == /\ ~ isPaired
         /\ srp = "none"
         /\ \A c \in Client : ~ session[c].encrypted

KeyUnlessBlank == Blank \/ ltpk # ZeroKey

LEMMA InitKey == Init => KeyUnlessBlank
BY DEF Init, KeyUnlessBlank, Blank, isPaired, NoSession

LEMMA BlankStays ==
  ASSUME TypeOK, PairingsAreDurable, Blank, [Next]_vars
  PROVE  Blank' \/ \E c \in Client : PairSetupM1(c)
<1> USE DEF Blank, isPaired, NoSession, net, setup, store
<1>t. session \in [Client -> Session] /\ Paired = {}
  BY DEF TypeOK, Paired, Entries, NoPairings
<1>1. ASSUME NEW c \in Client, Accept(c) \/ PeerCloses(c) \/ Reap(c) PROVE Blank'
  BY <1>1, <1>t DEF Accept, PeerCloses, Reap, Free, Idle
<1>2. ASSUME NEW c \in Client, PlainRequest(c) PROVE Blank' \/ PairSetupM1(c)
  BY <1>2, <1>t DEF PlainRequest, BadRequest, PairSetupM1Refused, PairSetupM1Fails,
     PairSetupM3, PairSetupM3Fails, PairSetupM3Faults, PairSetupM5, Proves, PairSetupM5Fails,
     PairSetupM5Faults, PairSetupM5Overruns, PairVerifyM1, PairVerifyM3, PairVerifyM3Faults,
     sendErrorTLV, Free, Idle, Fault
<1>3. ASSUME NEW c \in Client, EncryptedRequest(c) PROVE FALSE
  BY <1>3 DEF EncryptedRequest, SecureRequest, UnknownPath, NotAdmin, FrameInPart,
     PairingsRemoveOwn, PairingsUnknownMethod, PairingsRemoveOther, PairingsAdd, Secure
<1>4. ASSUME NEW e \in Deletion, ButtonHeld(e) PROVE Blank'
  BY <1>4 DEF ButtonHeld
<1>5. CASE processEvents
  BY <1>5 DEF processEvents, handleDeletion
<1>6. CASE StackOverflow \/ UNCHANGED vars
  BY <1>6 DEF StackOverflow, Fault, vars
<1>7. CASE Restart
  BY <1>7, LoadKeepsPaired DEF Restart, PairingsAreDurable
<1> QED
  BY <1>1, <1>2, <1>3, <1>4, <1>5, <1>6, <1>7 DEF Next

LEMMA NextKey ==
  ASSUME ~ HasButton
  PROVE  TypeOK /\ NoDeletion /\ PairingsAreDurable /\ KeyUnlessBlank /\ [Next]_vars
           => KeyUnlessBlank'
<1> SUFFICES ASSUME TypeOK, NoDeletion, PairingsAreDurable, KeyUnlessBlank, [Next]_vars
             PROVE  KeyUnlessBlank'
  OBVIOUS
<1>1. CASE NewKey \/ \E c \in Client : PairSetupM1(c)
  <2>1. generateKey
    BY <1>1 DEF NewKey, PairSetupM1
  <2>2. ltpk' # ZeroKey
    BY <2>1 DEF generateKey, KeyUnlessBlank, Blank
  <2> QED
    BY <2>2 DEF KeyUnlessBlank
<1>2. CASE (Rewrites \/ Keeps) /\ ~ \E c \in Client : PairSetupM1(c)
  <2>1. ltpk' = ltpk
    BY <1>2 DEF Rewrites, Keeps
  <2> QED
    BY <1>2, <2>1, BlankStays DEF KeyUnlessBlank
<1>3. CASE processEvents
  BY <1>3 DEF processEvents, handleDeletion, NoDeletion
<1>4. CASE Restart
  <2>1. srp' = "none" /\ \A c \in Client : ~ session'[c].encrypted
    BY <1>4 DEF Restart, NoSession
  <2>2. (pairings' = NoPairings <=> ~ isPaired) /\ (isPaired => ltpk' = ltpk)
    BY <1>4, LoadKeepsPaired DEF Restart, PairingsAreDurable
  <2> QED
    BY <2>1, <2>2 DEF KeyUnlessBlank, Blank, isPaired
<1> QED
  BY <1>1, <1>2, <1>3, <1>4, StoreChanges

(* Without the button, whoever is paired or pairing deals with an          *)
(* accessory that has a key: the M1 that skips key generation, the restart *)
(* that forgets an unsaved key and the removal of the last pairing never   *)
(* meet in a way that leaves a zero key in use.                            *)
THEOREM KeyAlwaysBeforePairing == ASSUME ~ HasButton PROVE Spec => []KeyBeforePairing
<1>1. KeyUnlessBlank => KeyBeforePairing
  BY DEF KeyUnlessBlank, Blank, KeyBeforePairing
<1> QED
  BY <1>1, InitTypeOK, NextTypeOK, InitDurable, NextDurable, InitNoDeletion, NextNoDeletion,
     InitKey, NextKey, PTL DEF Spec

LEMMA InitDiscoverable == Init => UnpairedIsDiscoverable
BY DEF Init, UnpairedIsDiscoverable

LEMMA NextDiscoverable ==
  ASSUME ~ HasButton
  PROVE  TypeOK /\ NoDeletion /\ UnpairedIsDiscoverable /\ [Next]_vars
           => UnpairedIsDiscoverable'
<1> SUFFICES ASSUME TypeOK, NoDeletion, UnpairedIsDiscoverable, [Next]_vars, ~ isPaired'
             PROVE  sf'
  BY DEF UnpairedIsDiscoverable
<1>p. pairings' = NoPairings
  BY DEF isPaired, NoPairings
<1>1. CASE NewKey
  BY <1>1, <1>p DEF NewKey, UnpairedIsDiscoverable, isPaired
<1>2. CASE Rewrites
  BY <1>2, <1>p DEF Rewrites
<1>3. CASE Keeps
  BY <1>3, <1>p DEF Keeps, UnpairedIsDiscoverable, isPaired
<1>4. CASE processEvents
  BY <1>4 DEF processEvents, handleDeletion, NoDeletion
<1>5. CASE Restart
  BY <1>5, <1>p DEF Restart, updateServiceTxt
<1> QED
  BY <1>1, <1>2, <1>3, <1>4, <1>5, StoreChanges

(* Without the button, an accessory that lost its last pairing, by         *)
(* whichever way, is advertised as unpaired.                               *)
THEOREM UnpairedAlwaysDiscoverable ==
  ASSUME ~ HasButton PROVE Spec => []UnpairedIsDiscoverable
BY InitTypeOK, NextTypeOK, InitNoDeletion, NextNoDeletion, InitDiscoverable, NextDiscoverable,
   PTL DEF Spec
=============================================================================
