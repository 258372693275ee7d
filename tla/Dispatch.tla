------------------------------ MODULE Dispatch ------------------------------
(***************************************************************************)
(* Starting the server (HAPServer::begin), the listeners it and the        *)
(* plugins register with the EventManager, the passes that take events     *)
(* out of the two queues (processAllEvents, HAPServer::processEvents), and *)
(* what they do to the configuration number "c#" by which a controller     *)
(* tells whether the database it keeps is the current one.                 *)
(* The queues are the FIFOs that EventQueue implements.  No callback of    *)
(* this tree touches the list of listeners, so the order of the list does  *)
(* not show, and it is a set.                                              *)
(***************************************************************************)
EXTENDS Integers, FiniteSets, Sequences

CONSTANTS
  Plugin,           \* the plugins of the build
  MayFail,          \* those whose begin() can answer FALSE: BME280
  MayBeDisabled,    \* those the stored configuration may disable
  Chars,            \* per plugin, the characteristics of its accessory
  BridgeChars,      \* those of the bridge itself
  DeviceChars,      \* those of a device added at run time: RCSwitch
  QueueSize,        \* HAP_EVENTMANAGER_QUEUE_SIZE, 32
  ListenerSize,     \* HAP_EVENTMANAGER_LISTENER_SIZE, 32
  FirstNumber,      \* HOMEKIT_CONFIGURATION_NUMBER + initConfigNumber
  MaxChars          \* bound: characteristics with which no device is added

ASSUME DispatchAssumption ==
  /\ MayFail \subseteq Plugin /\ MayBeDisabled \subseteq Plugin /\ "server" \notin Plugin
  /\ Chars \in [Plugin -> Nat] /\ BridgeChars \in Nat /\ DeviceChars \in Nat
  /\ QueueSize \in Nat \ {0} /\ ListenerSize \in Nat /\ FirstNumber \in Nat
  /\ MaxChars \in Nat

VARIABLES
  pc,          \* "load"; "bootHigh", "bootLow" in processAllEvents; "idle";
               \* "high", "low" in processEvents; "fault"
  disabled,    \* plugins with enabled = 0 in the stored configuration
  loaded,      \* plugins the loop of begin() has been through
  alive,       \* those whose object is kept in _plugins
  listeners,   \* of EventManager::ListenerList
  high, low,   \* the codes in the two queues, oldest first
  chars,       \* characteristics in the accessory set
  configurationNumber,
  advertised,  \* the c# of the mDNS record
  counted,     \* noOfEvents, the length of evParams
  taken,       \* noOfEventsToSend
  seen,        \* a controller's copy of the database, with its number
  lost         \* history: increments that found the queue full

queues == <<high, low>>
number == <<configurationNumber, advertised>>
pass == <<counted, taken>>
vars == <<pc, disabled, loaded, alive, listeners, queues, chars, number, pass, seen, lost>>

ServerCodes == {"increment", "config", "press"}
PluginCodes == {"notify", "pairing"}
Code == ServerCodes \cup PluginCodes \cup {"started"}
Listener == [code : Code, callback : Plugin \cup {"server"}]

TypeOK == /\ pc \in {"load", "bootHigh", "bootLow", "idle", "high", "low", "fault"}
          /\ disabled \subseteq MayBeDisabled
          /\ loaded \subseteq Plugin /\ alive \subseteq loaded
          /\ listeners \subseteq Listener /\ IsFiniteSet(listeners)
          /\ high \in Seq(Code) /\ Len(high) <= QueueSize
          /\ low \in Seq(Code) /\ Len(low) <= QueueSize
          /\ chars \in Nat /\ configurationNumber \in Nat /\ advertised \in Nat
          /\ counted \in Nat /\ taken \in Nat /\ lost \in Nat
          /\ seen \in [number : Nat, chars : Nat, whole : BOOLEAN]
-----------------------------------------------------------------------------
Lesser(a, b) == IF a < b THEN a ELSE b

(* n calls of queueEvent with one code; those without room are refused,    *)
(* and nobody looks.                                                       *)
AcceptedAlways(q, n) == n   \* mutant: the queue never refuses
Accepted(q, n) == Lesser(n, QueueSize - Len(q))
Queued(q, c, n) == q \o [i \in 1 .. Accepted(q, n) |-> c]

InQueue(q, c) == Cardinality({ i \in DOMAIN q : q[i] = c })

(* addCharacteristicToService, n times. *)
AddCharacteristics(n) == /\ high' = Queued(high, "increment", n)
                         /\ lost' = lost + n - Accepted(high, n)
                         /\ chars' = chars + n

Entry(c, o) == [code |-> c, callback |-> o]

(* addListener: refused when the table is full. *)
addListener(table, l) ==
  IF Cardinality(table) < ListenerSize THEN table \cup {l} ELSE table

(* addEventListener of a plugin. *)
WithListenersOf(p) ==
  addListener(addListener(listeners, Entry("pairing", p)), Entry("notify", p))

(* Mutant: the overload that takes one code is called. *)
RemovePairing(table, o) == table \ {Entry("pairing", o)}

removeListener(table, o) == { l \in table : l.callback # o }

ServerListeners == { Entry(c, "server") : c \in ServerCodes }

(* Power on: the accessory set of the bridge and the server's listeners.   *)
(* The stored configuration may be another one than at the last start.     *)
Begin ==
  /\ pc' = "load" /\ loaded' = {} /\ alive' = {}
  /\ disabled' \in SUBSET MayBeDisabled
  /\ listeners' = ServerListeners
  /\ high' = Queued(<< >>, "increment", BridgeChars) /\ low' = << >>
  /\ lost' = BridgeChars - Accepted(<< >>, BridgeChars)
  /\ chars' = BridgeChars
  /\ configurationNumber' = FirstNumber /\ advertised' = FirstNumber
  /\ counted' = 0 /\ taken' = 0

Init ==
  /\ pc = "load" /\ loaded = {} /\ alive = {}
  /\ disabled \in SUBSET MayBeDisabled
  /\ listeners = ServerListeners
  /\ high = Queued(<< >>, "increment", BridgeChars) /\ low = << >>
  /\ lost = BridgeChars - Accepted(<< >>, BridgeChars)
  /\ chars = BridgeChars
  /\ configurationNumber = FirstNumber /\ advertised = FirstNumber
  /\ counted = 0 /\ taken = 0
  /\ seen = [number |-> 0, chars |-> 0, whole |-> FALSE]

Restart == Begin /\ UNCHANGED seen
-----------------------------------------------------------------------------
(* The loop over the plugins: the listeners are added before anything is   *)
(* known of the plugin.  One that starts stays, with its accessory.        *)
Starts(p) ==
  /\ p \notin disabled
  /\ listeners' = WithListenersOf(p)
  /\ alive' = alive \cup {p}
  /\ AddCharacteristics(Chars[p])

(* begin() of BME280 finds no sensor: it takes its listeners out, and the  *)
(* unique_ptr deletes the plugin.                                          *)
Fails(p) ==
  /\ p \in MayFail \ disabled
  /\ listeners' = removeListener(WithListenersOf(p), p)
  /\ UNCHANGED <<alive, high, lost, chars>>

(* A disabled plugin is deleted as well, and its listeners stay. *)
IsDisabled(p) ==
  /\ p \in disabled
  /\ listeners' = WithListenersOf(p)
  /\ UNCHANGED <<alive, high, lost, chars>>

LoadPlugin(p) ==
  /\ pc = "load" /\ p \notin loaded
  /\ loaded' = loaded \cup {p}
  /\ Starts(p) \/ Fails(p) \/ IsDisabled(p)
  /\ UNCHANGED <<pc, disabled, low, number, pass, seen>>

(* All plugins loaded: HomekitStarted is queued, processAllEvents called. *)
Loaded == /\ pc = "load" /\ loaded = Plugin
          /\ high' = Queued(high, "started", 1)
          /\ pc' = "bootHigh"
          /\ UNCHANGED <<disabled, loaded, alive, listeners, low, chars, number,
                         pass, seen, lost>>
-----------------------------------------------------------------------------
Called(c) == { l \in listeners : l.code = c }
Booting == pc \in {"bootHigh", "bootLow"}

(* Mutant: the mDNS record is left alone. *)
IncrementSilently(n) == /\ configurationNumber' = configurationNumber + n
                        /\ UNCHANGED advertised

(* handleEventUpdateConfigNumber: the record follows once HomeKit runs. *)
Increment(n) ==
  /\ configurationNumber' = configurationNumber + n
  /\ advertised' = IF n = 0 \/ Booting THEN advertised ELSE configurationNumber + n

(* sendEvent: every listener of the code is called; the object of one may  *)
(* be gone, and what the call does then is anything.                       *)
sendEvent(c) ==
  /\ Increment(IF c = "increment" THEN Cardinality(Called(c)) ELSE 0)
  /\ \/ UNCHANGED pc
     \/ /\ \E l \in Called(c) : l.callback \notin alive \cup {"server"}
        /\ pc' = "fault"

(* A notification is kept for the message to the controllers. *)
Keep(c) == taken' = IF c = "notify" /\ ~ Booting THEN taken + 1 ELSE taken

TakeHigh == /\ pc \in {"bootHigh", "high"} /\ high # << >>
            /\ high' = Tail(high)
            /\ sendEvent(Head(high)) /\ Keep(Head(high))
            /\ UNCHANGED <<disabled, loaded, alive, listeners, low, chars, counted, seen, lost>>

TakeLow == /\ pc \in {"bootLow", "low"} /\ low # << >>
           /\ low' = Tail(low)
           /\ sendEvent(Head(low)) /\ Keep(Head(low))
           /\ UNCHANGED <<disabled, loaded, alive, listeners, high, chars, counted, seen, lost>>

HighDone == /\ pc \in {"bootHigh", "high"} /\ high = << >>
            /\ pc' = IF pc = "high" THEN "low" ELSE "bootLow"
            /\ UNCHANGED <<disabled, loaded, alive, listeners, queues, chars, number, pass,
                           seen, lost>>

(* The end of begin(), with the update of the record, and of a pass. *)
LowDone == /\ pc \in {"bootLow", "low"} /\ low = << >>
           /\ pc' = "idle"
           /\ advertised' = IF Booting THEN configurationNumber ELSE advertised
           /\ counted' = 0 /\ taken' = 0
           /\ UNCHANGED <<disabled, loaded, alive, listeners, queues, chars,
                          configurationNumber, seen, lost>>

(* processEvents counts the notifications of both queues first. *)
BeginPass == /\ pc = "idle"
             /\ counted' = InQueue(high, "notify") + InQueue(low, "notify")
             /\ pc' = "high"
             /\ UNCHANGED <<disabled, loaded, alive, listeners, queues, chars, number,
                            taken, seen, lost>>
-----------------------------------------------------------------------------
(* Between passes: a plugin or a PUT notifies, a controller pairs. *)
QueueIdle(c) == /\ pc = "idle" /\ c \in PluginCodes
                /\ high' = Queued(high, c, 1)
                /\ UNCHANGED <<pc, disabled, loaded, alive, listeners, low, chars, number,
                               pass, seen, lost>>

(* A device is added on the web page of RCSwitch. *)
AddDevice == /\ pc = "idle" /\ chars < MaxChars
             /\ AddCharacteristics(DeviceChars)
             /\ low' = Queued(low, "config", 1)
             /\ UNCHANGED <<pc, disabled, loaded, alive, listeners, number, pass, seen>>

(* Mutant: a callback of the button notifies. *)
PressedNotify == "notify"

(* What the callbacks of the button queue: UpdatedConfig, ConfigReset,     *)
(* RemoveAllPairings.                                                      *)
Pressed == "press"

(* The task of the button runs beside the loop. *)
Press == /\ pc # "fault"
         /\ high' = Queued(high, Pressed, 1)
         /\ UNCHANGED <<pc, disabled, loaded, alive, listeners, low, chars, number,
                        pass, seen, lost>>

Whole == lost = 0 /\ InQueue(high, "increment") = 0

(* A controller that sees another c# than its own fetches the database. *)
Fetch == /\ pc = "idle" /\ advertised # seen.number
         /\ seen' = [number |-> advertised, chars |-> chars, whole |-> Whole]
         /\ UNCHANGED <<pc, disabled, loaded, alive, listeners, queues, chars, number,
                        pass, lost>>

Loop == (\E p \in Plugin : LoadPlugin(p)) \/ Loaded \/ BeginPass
        \/ TakeHigh \/ TakeLow \/ HighDone \/ LowDone

Next == Loop \/ (\E c \in PluginCodes : QueueIdle(c)) \/ AddDevice \/ Press
        \/ Fetch \/ Restart

Spec == Init /\ [][Next]_vars

(* The processor runs the loop: nothing is asked of the other actions. *)
FairSpec == Spec /\ WF_vars(Loop)
-----------------------------------------------------------------------------
(* A listener whose object is gone belongs to a plugin that the            *)
(* configuration disabled: one that failed took its listeners out, under   *)
(* both codes (HAPPluginBME280.cpp:380, EventManager.cpp:399), and only    *)
(* the call of such a listener can go wrong.                               *)
DeadIsDisabled ==
  /\ \A l \in listeners : l.callback \in alive \cup disabled \cup {"server"}
  /\ pc = "fault" => disabled # {}

(* The array of notifications is sized by a count taken before the drain   *)
(* (HAPServer.cpp:3856): whatever is queued meanwhile, it is large enough. *)
NoOverrun == taken <= counted

(* A controller that still holds the number that is advertised holds a     *)
(* database with as many characteristics as there are, across restarts     *)
(* with other plugins and devices: unless increments were lost to a full   *)
(* queue, or were still queued when it fetched (HAPAccessory.cpp:77,       *)
(* HAPServer.cpp:3772).                                                    *)
ChangeIsNoticed ==
  pc = "idle" /\ Whole /\ seen.whole /\ advertised = seen.number => chars = seen.chars

(* Unless it is restarted, or its button pressed, for ever ("if interrupts *)
(* are adding events as fast as they are being processed this function     *)
(* might never return", EventManager.h:294), the server comes to advertise *)
(* a number that counts every characteristic, or some increment was lost,  *)
(* or it called a plugin that is gone.                                     *)
NumberCatchesUp ==
  []<><<Restart>>_vars \/ []<><<Press>>_vars
    \/ []<>(pc = "fault" \/ lost > 0 \/ advertised = FirstNumber + chars)
=============================================================================
