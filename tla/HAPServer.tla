----------------------------- MODULE HAPServer -----------------------------
(***************************************************************************)
(* The pairing core of HAPServer: connections, the one SRP session of      *)
(* pair-setup, pair-verify, the pairing list with its copy in flash, the   *)
(* mDNS status flag, and the events that delete pairings.                  *)
(*                                                                         *)
(* The main loop is one thread, so each request handler is one action and  *)
(* ends as handleClientAvailable ends it: the connection idle, freed, or   *)
(* re-entered (spinning); a frame that is incomplete holds the whole loop  *)
(* (waiting).  Whether a proof or a signature is accepted is a choice: no  *)
(* handler remembers which peer sent the message before, so any peer may   *)
(* continue the one pair-setup.                                            *)
(***************************************************************************)
EXTENDS Integers, FiniteSets

CONSTANTS Client,                     \* connections (and the peers using them)
          Controller,                 \* pairing identifiers
          Key, ZeroKey,               \* the accessory's long-term keys; all zero
          NoClient, NoController,
          HAP_PAIRINGS_MAX,
          AllowPairingWhilePaired,    \* HAP_ALLOW_PAIRING_WHILE_PAIRED
          HasButton,                  \* HAP_ENABLE_WIFI_BUTTON
          MaxTries,                   \* the 100 of processIncomingRequest
          AttemptsModulus             \* 2^8: _homekitFailedLoginAttempts is uint8_t

ASSUME ServerAssumption ==
  /\ NoClient \notin Client /\ NoController \notin Controller
  /\ ZeroKey \notin Key
  /\ HAP_PAIRINGS_MAX \in Nat \ {0} /\ MaxTries \in Nat
  /\ AttemptsModulus \in Nat \ {0}
  /\ AllowPairingWhilePaired \in BOOLEAN /\ HasButton \in BOOLEAN

VARIABLES conn,           \* per connection: "free", "open", or "closed" but still in _clients
          session,        \* per connection: what pair-verify established
          srp,            \* _hapsrp: what pair-setup has reached with it
          inPairingMode,  \* _isInPairingMode
          attempts,       \* _homekitFailedLoginAttempts
          pairings,       \* the pairing list in RAM: the role of each controller
          ltpk,           \* the accessory's long-term key in RAM
          saved,          \* the configuration in flash
          sf,             \* mDNS status flag: TRUE is "not paired"
          pending,        \* queued events that touch pairings
          spinning,       \* the connection whose handler re-enters itself
          waiting,        \* the connection whose frame is incomplete
          fault           \* undefined behaviour was reached

net   == <<conn, session, spinning, waiting>>
setup == <<srp, inPairingMode, attempts>>
store == <<pairings, ltpk, saved, sf>>
vars  == <<net, setup, store, pending, fault>>

Role == {"none", "user", "admin"}
Pairings == [Controller -> Role]
NoPairings == [k \in Controller |-> "none"]
Session == [encrypted : BOOLEAN, admin : BOOLEAN, id : Controller \cup {NoController}]
NoSession == [encrypted |-> FALSE, admin |-> FALSE, id |-> NoController]
Srp == {"none", "begun", "verified"}
Deletion == {"ConfigReset", "RemoveAllPairings"}

TypeOK == /\ conn \in [Client -> {"free", "open", "closed"}]
          /\ session \in [Client -> Session]
          /\ srp \in Srp
          /\ inPairingMode \in BOOLEAN
          /\ attempts \in 0 .. AttemptsModulus - 1
          /\ pairings \in Pairings
          /\ ltpk \in Key \cup {ZeroKey}
          /\ saved \in [pairings : Pairings, ltpk : Key \cup {ZeroKey}]
          /\ sf \in BOOLEAN
          /\ pending \in SUBSET Deletion
          /\ spinning \in Client \cup {NoClient}
          /\ waiting \in Client \cup {NoClient}
          /\ fault \in BOOLEAN

Entries(list) == { k \in Controller : list[k] # "none" }
Paired == Entries(pairings)
isPaired == pairings # NoPairings

(* First boot: load() fails and begin() saves the defaults. *)
Init == /\ conn = [c \in Client |-> "free"]
        /\ session = [c \in Client |-> NoSession]
        /\ srp = "none"
        /\ inPairingMode = FALSE
        /\ attempts = 0
        /\ pairings = NoPairings
        /\ ltpk = ZeroKey
        /\ saved = [pairings |-> NoPairings, ltpk |-> ZeroKey]
        /\ sf = TRUE
        /\ pending = {}
        /\ spinning = NoClient
        /\ waiting = NoClient
        /\ fault = FALSE
-----------------------------------------------------------------------------
Stuck == spinning # NoClient \/ waiting # NoClient

(* The loop gets to c: no other connection's handler is on the stack. *)
Visits(c)  == ~ fault /\ {spinning, waiting} \subseteq {NoClient, c}
Serving(c) == Visits(c) /\ conn[c] = "open"
Plain(c)   == Serving(c) /\ ~ session[c].encrypted
Secure(c)  == Serving(c) /\ session[c].encrypted

(* How handleClientAvailable leaves the connection.  (Mutant: it is        *)
(* deleted but not erased from _clients.)                                  *)
Idle == spinning' = NoClient /\ waiting' = NoClient
Again(c) == spinning' = c /\ waiting' = NoClient
FreeWithoutErase(c) == Idle /\ UNCHANGED <<conn, session>>
Free(c) == /\ conn' = [conn EXCEPT ![c] = "free"]
           /\ session' = [session EXCEPT ![c] = NoSession]
           /\ Idle

(* Mutants of sendErrorTLV: the counter is wider than its type; the mode   *)
(* is left behind.                                                         *)
sendErrorTLVWide(c) == Free(c) /\ attempts' = attempts + 1 /\ inPairingMode' = FALSE
sendErrorTLVBusy(c) == /\ Free(c)
                       /\ attempts' = (attempts + 1) % AttemptsModulus
                       /\ UNCHANGED inPairingMode

(* sendErrorTLV: answer, stop, count the attempt, leave pairing mode. *)
sendErrorTLV(c) == /\ Free(c)
                   /\ attempts' = (attempts + 1) % AttemptsModulus
                   /\ inPairingMode' = FALSE

Fault == /\ fault' = TRUE
         /\ UNCHANGED <<net, setup, store, pending>>

(* Mutants of Save and updateServiceTxt: the keys are left out; the list   *)
(* is looked at before it changes.                                         *)
SavePairingsOnly == saved' = [saved EXCEPT !.pairings = pairings']
updateServiceTxtEarly == sf' = (pairings = NoPairings)

(* Every change of the pairing list ends in save(). *)
Save == saved' = [pairings |-> pairings', ltpk |-> ltpk']
updateServiceTxt == sf' = (pairings' = NoPairings)

Accept(c) == /\ ~ fault /\ ~ Stuck /\ conn[c] = "free"
             /\ conn' = [conn EXCEPT ![c] = "open"]
             /\ UNCHANGED <<session, spinning, waiting, setup, store, pending, fault>>

(* The peer goes away; the loop finds out on its next pass. *)
PeerCloses(c) == /\ ~ fault /\ conn[c] = "open"
                 /\ conn' = [conn EXCEPT ![c] = "closed"]
                 /\ session' = [session EXCEPT ![c] = NoSession]
                 /\ UNCHANGED <<spinning, waiting, setup, store, pending, fault>>

Reap(c) == /\ Visits(c) /\ waiting = NoClient /\ conn[c] = "closed"
           /\ Free(c)
           /\ UNCHANGED <<setup, store, pending, fault>>
-----------------------------------------------------------------------------
(* Requests on a plain connection. *)

(* encode() or a handler finds the TLV wrong, or pair-verify is refused. *)
BadRequest(c) == /\ Plain(c)
                 /\ sendErrorTLV(c)
                 /\ UNCHANGED <<srp, store, pending, fault>>

(* Mutant: the gate looks for a pair-setup under way, not for a pairing. *)
M1RefusedIfBusy == ~ AllowPairingWhilePaired /\ (inPairingMode \/ attempts >= MaxTries)

(* The gate in front of handlePairSetupM1. *)
M1Refused == /\ ~ AllowPairingWhilePaired
             /\ isPaired \/ inPairingMode \/ attempts >= MaxTries

PairSetupM1Refused(c) == /\ Plain(c) /\ M1Refused
                         /\ sendErrorTLV(c)
                         /\ UNCHANGED <<srp, store, pending, fault>>

(* Mutant: a new key pair for every M1. *)
generateAlways == ltpk' \in Key

(* A key pair is generated if not stored, that is if not paired; not saved. *)
generateKey == IF isPaired THEN ltpk' = ltpk ELSE ltpk' \in Key

(* _hapsrp->begin(): the single SRP session starts over, whoever had it. *)
begin == srp' = "begun"

PairSetupM1(c) == /\ Plain(c) /\ ~ M1Refused
                  /\ inPairingMode' = TRUE
                  /\ generateKey
                  /\ begin
                  /\ Idle
                  /\ UNCHANGED <<conn, session, attempts, pairings, saved, sf, pending, fault>>

(* The verifier or the key pair cannot be created. *)
PairSetupM1Fails(c) == /\ Plain(c) /\ ~ M1Refused
                       /\ generateKey
                       /\ srp' = "none"
                       /\ sendErrorTLV(c)
                       /\ UNCHANGED <<pairings, saved, sf, pending, fault>>

(* handlePairSetupM3 deletes the session on any error, and reads it before *)
(* looking whether there is one.                                           *)
PairSetupM3(c) == /\ Plain(c) /\ srp # "none"
                  /\ srp' = "verified"
                  /\ Idle
                  /\ UNCHANGED <<conn, session, inPairingMode, attempts, store, pending, fault>>

PairSetupM3Fails(c) == /\ Plain(c)
                       /\ srp' = "none"
                       /\ sendErrorTLV(c)
                       /\ UNCHANGED <<store, pending, fault>>

PairSetupM3Faults(c) == Plain(c) /\ srp = "none" /\ Fault

(* handlePairSetupM5 drops the session first; the pairing is stored last,  *)
(* after the answer, without looking at HAP_PAIRINGS_MAX: with one too     *)
(* many saveAccessoryConfig writes past its buffer, of which flash gets    *)
(* what it had.                                                            *)
Fits(k) == Cardinality(Paired \cup {k}) <= HAP_PAIRINGS_MAX
Proves(c) == Plain(c) /\ srp = "verified"

PairSetupM5(c, k) == /\ Proves(c) /\ Fits(k)
                     /\ srp' = "none"
                     /\ pairings' = [pairings EXCEPT ![k] = "admin"]
                     /\ UNCHANGED ltpk /\ Save
                     /\ updateServiceTxt
                     /\ inPairingMode' = FALSE
                     /\ Idle
                     /\ UNCHANGED <<conn, session, attempts, pending, fault>>

PairSetupM5Fails(c) == /\ Proves(c)
                       /\ srp' = "none"
                       /\ sendErrorTLV(c)
                       /\ UNCHANGED <<store, pending, fault>>

PairSetupM5Overruns(c, k) == Proves(c) /\ ~ Fits(k) /\ Fault

(* No session, or one without a verifier, is dereferenced. *)
PairSetupM5Faults(c) == Plain(c) /\ srp # "verified" /\ Fault

(* handlePairVerifyM1 answers an error when not paired (a BadRequest).     *)
(* What it keeps for M3 are keys: M3 does not ask whether M1 was sent.     *)
PairVerifyM1(c) == /\ Plain(c) /\ isPaired
                   /\ Idle
                   /\ UNCHANGED <<conn, session, setup, store, pending, fault>>

(* handlePairVerifyM3 with a signature by k: the session keeps the role k  *)
(* has now.                                                                *)
PairVerifyM3(c, k) ==
  /\ Plain(c) /\ k \in Paired
  /\ session' = [session EXCEPT ![c] = [@ EXCEPT !.encrypted = TRUE, !.id = k,
                                          !.admin = (pairings[k] = "admin")]]
  /\ Idle
  /\ UNCHANGED <<conn, setup, store, pending, fault>>

(* The key of an identifier that is not in the list is a null pointer. *)
PairVerifyM3Faults(c, k) == Plain(c) /\ k \notin Paired /\ Fault
-----------------------------------------------------------------------------
(* Requests on an encrypted connection. *)

(* Characteristics, accessories, list: the connection is idle afterwards. *)
SecureRequest(c) == /\ Secure(c)
                    /\ Idle
                    /\ UNCHANGED <<conn, session, setup, store, pending, fault>>

(* A frame arrives in part: processIncomingEncryptedRequest polls until the *)
(* rest is there, whether or not the peer still is.                         *)
FrameInPart(c) == /\ Secure(c)
                  /\ waiting' = c
                  /\ UNCHANGED <<conn, session, spinning, setup, store, pending, fault>>

(* A path nobody handles: client.stop(). *)
UnknownPath(c) == /\ Secure(c)
                  /\ Free(c)
                  /\ UNCHANGED <<setup, store, pending, fault>>

(* A pairing request of a connection without admin rights. *)
NotAdmin(c) == /\ Secure(c) /\ ~ session[c].admin
               /\ sendErrorTLV(c)
               /\ UNCHANGED <<srp, store, pending, fault>>

(* handlePairingsAdd: the mDNS flag is not touched. *)
PairingsAdd(c, k, role) ==
  /\ Secure(c) /\ session[c].admin
  /\ Cardinality(Paired) < HAP_PAIRINGS_MAX
  /\ pairings' = [pairings EXCEPT ![k] = role]
  /\ UNCHANGED ltpk /\ Save
  /\ Idle
  /\ UNCHANGED <<conn, session, setup, sf, pending, fault>>

(* handlePairingsRemove of the connection's own identifier: client.stop(). *)
PairingsRemoveOwn(c) ==
  LET k == session[c].id IN
  /\ Secure(c)
  /\ pairings' = [pairings EXCEPT ![k] = "none"]
  /\ UNCHANGED ltpk
  /\ IF k \in Paired THEN Save ELSE UNCHANGED saved
  /\ IF pairings' = NoPairings THEN updateServiceTxt ELSE UNCHANGED sf
  /\ Free(c)
  /\ UNCHANGED <<setup, pending, fault>>

(* handleAllPairingsRemoved: every connection is stopped, to be reaped. *)
CloseAll == /\ conn' = [d \in Client |-> IF conn[d] = "free" THEN "free" ELSE "closed"]
            /\ session' = [d \in Client |-> NoSession]
            /\ Idle

(* handlePairingsRemove of another identifier.  The state of the connection *)
(* stays AVAILABLE unless the list is empty, so that handleClientState      *)
(* calls handleClientAvailable again.                                       *)
PairingsRemoveOther(c, k) ==
  /\ Secure(c) /\ session[c].admin /\ k # session[c].id
  /\ pairings' = [pairings EXCEPT ![k] = "none"]
  /\ UNCHANGED ltpk
  /\ IF k \in Paired THEN Save ELSE UNCHANGED saved
  /\ IF pairings' = NoPairings
       THEN updateServiceTxt /\ CloseAll
       ELSE Again(c) /\ UNCHANGED <<conn, session, sf>>
  /\ UNCHANGED <<setup, pending, fault>>

(* handlePairingsPost with a method it does not know; likewise             *)
(* handleCharacteristicsPut with a body that is not JSON.                  *)
PairingsUnknownMethod(c) == /\ Secure(c)
                            /\ Again(c)
                            /\ UNCHANGED <<conn, session, setup, store, pending, fault>>

(* Nothing more arrives on the connection: the calls nest until the stack  *)
(* is used up.                                                             *)
StackOverflow == /\ ~ fault /\ waiting = NoClient
                 /\ spinning # NoClient /\ conn[spinning] = "open"
                 /\ Fault
-----------------------------------------------------------------------------
(* The button task queues a deletion at any time; the loop drains the      *)
(* queue at the end of a pass.                                             *)
ButtonHeld(e) == /\ HasButton /\ ~ fault
                 /\ pending' = pending \cup {e}
                 /\ UNCHANGED <<net, setup, store, fault>>

(* handleEventDeleteAllPairings updates mDNS, handleEventConfigReset resets *)
(* the keys too and does not update mDNS; neither looks at the connections. *)
handleDeletion ==
  /\ pairings' = NoPairings
  /\ ltpk' = IF "ConfigReset" \in pending THEN ZeroKey ELSE ltpk
  /\ Save
  /\ IF "RemoveAllPairings" \in pending THEN updateServiceTxt ELSE UNCHANGED sf
  /\ pending' = {}
  /\ UNCHANGED <<net, setup, fault>>

(* Mutant: the queue is drained only when there is something to delete. *)
processEventsIfPaired == ~ fault /\ ~ Stuck /\ pending # {} /\ isPaired /\ handleDeletion

processEvents == ~ fault /\ ~ Stuck /\ pending # {} /\ handleDeletion

(* loadAccessoryConfig takes the first entries of the list, and no more    *)
(* than half of the maximum (Storage shows the loop).                      *)
LoadMax == (HAP_PAIRINGS_MAX + 1) \div 2
Truncated == Cardinality(Entries(saved.pairings)) > LoadMax
loadPairings ==
  IF Truncated
    THEN /\ pairings' \in { list \in Pairings : Cardinality(Entries(list)) = LoadMax }
         /\ \A k \in Controller : pairings'[k] \in {"none", saved.pairings[k]}
    ELSE pairings' = saved.pairings

(* Power cut, crash or reboot: RAM is rebuilt from flash by begin(). *)
Restart == /\ conn' = [c \in Client |-> "free"]
           /\ session' = [c \in Client |-> NoSession]
           /\ srp' = "none"
           /\ inPairingMode' = FALSE
           /\ attempts' = 0
           /\ loadPairings
           /\ ltpk' = saved.ltpk
           /\ updateServiceTxt
           /\ pending' = {}
           /\ spinning' = NoClient
           /\ waiting' = NoClient
           /\ fault' = FALSE
           /\ UNCHANGED saved

PlainRequest(c) ==
  \/ BadRequest(c)
  \/ PairSetupM1Refused(c) \/ PairSetupM1(c) \/ PairSetupM1Fails(c)
  \/ PairSetupM3(c) \/ PairSetupM3Fails(c) \/ PairSetupM3Faults(c)
  \/ PairSetupM5Fails(c) \/ PairSetupM5Faults(c)
  \/ PairVerifyM1(c)
  \/ \E k \in Controller : \/ PairSetupM5(c, k) \/ PairSetupM5Overruns(c, k)
                           \/ PairVerifyM3(c, k) \/ PairVerifyM3Faults(c, k)

EncryptedRequest(c) ==
  \/ SecureRequest(c) \/ UnknownPath(c) \/ NotAdmin(c) \/ FrameInPart(c)
  \/ PairingsRemoveOwn(c) \/ PairingsUnknownMethod(c)
  \/ \E k \in Controller : PairingsRemoveOther(c, k)
  \/ \E k \in Controller, role \in {"user", "admin"} : PairingsAdd(c, k, role)

Next == \/ \E c \in Client : Accept(c) \/ PeerCloses(c) \/ Reap(c)
                              \/ PlainRequest(c) \/ EncryptedRequest(c)
        \/ \E e \in Deletion : ButtonHeld(e)
        \/ processEvents \/ StackOverflow \/ Restart

(* Every pass of handle() visits each connection once and then drains the  *)
(* queue: what is possible infinitely often at that place is done.         *)
Fairness == /\ \A c \in Client : SF_vars(Reap(c))
            /\ SF_vars(processEvents)

Spec == Init /\ [][Next]_vars /\ Fairness
-----------------------------------------------------------------------------
(* Flash never lags behind the pairing list: whatever the power does, the  *)
(* accessory comes back with the pairings it had, as long as load takes    *)
(* them all, paired if and only if it was paired, and with the key that    *)
(* the paired controllers know.                                            *)
PairingsAreDurable == /\ ~ Truncated => saved.pairings = pairings
                      /\ saved.pairings = NoPairings <=> ~ isPaired
                      /\ isPaired => saved.ltpk = ltpk

(* Nobody is paired with, or being paired with, an accessory whose key was *)
(* never generated.  (Key generation is skipped by an M1 while paired and  *)
(* is lost by a restart between M1 and M5.)                                *)
KeyBeforePairing == isPaired \/ srp # "none" => ltpk # ZeroKey

(* An accessory without pairings is advertised as such: it can be found by *)
(* a controller that wants to pair.                                        *)
UnpairedIsDiscoverable == ~ isPaired => sf

(* The long-term key that paired controllers know is the accessory's for   *)
(* as long as anyone is paired: neither another M1 nor a restart changes   *)
(* it.                                                                     *)
IdentityIsStable == [][isPaired /\ pairings' # NoPairings => ltpk' = ltpk]_vars

(* In the release build an accessory that is paired has no pair-setup      *)
(* under way that could still add a pairing: the M1 of a second peer waits *)
(* for nobody, but what it began does not outlive the pairing.  The only   *)
(* way into that state is a connection that is still encrypted after the   *)
(* last pairing was removed, and adds one while another peer is in         *)
(* pair-setup.                                                             *)
PairingEndsSetup ==
  [][~ AllowPairingWhilePaired /\ isPaired' /\ srp' # "none" =>
       \/ isPaired /\ srp # "none"
       \/ ~ isPaired /\ \E c \in Client : session[c].encrypted]_vars

(* The accessory says it is busy pairing only while there is an SRP        *)
(* session to continue: no error path leaves the mode behind.              *)
BusyHasSession == inPairingMode => srp # "none"

(* A connection that its peer closed does not stay in _clients, as long as *)
(* the loop keeps returning from the handlers of single connections.       *)
ClosedIsReaped ==
  []<>(~ Stuck) => \A c \in Client : []<>(conn[c] # "closed" \/ fault)

(* A deletion the button asked for does not stay queued, on the same       *)
(* condition.                                                              *)
ButtonIsServed == []<>(~ Stuck) => []<>(pending = {} \/ fault)
-----------------------------------------------------------------------------
(* What comments in the code say and the code does not do. *)

(* "tear down all other pairings if admin removed" (handlePairingsRemove): *)
(* with no pairing left, no controller keeps an encrypted connection.      *)
NoPairingNoSession == ~ isPaired => \A c \in Client : ~ session[c].encrypted
=============================================================================
