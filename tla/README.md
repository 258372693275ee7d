# Teensy_Homekit in TLA+

Formal models of the HomeKit accessory firmware in `src/src/HAP`, their model
checking with TLC and their proofs with TLAPS. Line numbers without a file are
of `src/src/HAP/HAPServer.cpp`. The default build is meant (Teensy 4.1, plugins
BME280 and LED, pairing while paired allowed, no button) unless another is named.

## 1. Inventory

### 1.1 How the program runs

`loop()` calls `HAPServer::handle()` (913-1039) for ever. One pass:

1. for every client in `_clients`: look whether it is still connected, read what
   arrived, run the request handler, answer, possibly delete the client (955-1000);
2. accept at most one new connection, and serve it at once;
3. let every plugin do its work when its interval is over (`HAPPlugins.hpp`);
4. drain both event queues (`processEvents`, 3854-3936).

There are no threads on Teensy: a handler runs to its end before the next one.
What interleaves is *requests* of several connections, peers that go away,
plugins, power cuts. On ESP32 a button task pinned to the other core
(227-237, 4100-4171) queues events while the loop runs.

### 1.2 Components

| component | state | operations | what makes it correct | hard because |
|---|---|---|---|---|
| **Event queues** (`EventManager::EventQueue`) | ring, head, tail, count; one queue per priority | `queueEvent`, `popEvent`, `getNumEventCodeInQueue` | bounded FIFO, nothing accepted is lost, the scan counts what is queued | wrap-around, the full queue, two contexts without an interrupt lock |
| **Event listeners** (`ListenerList`, `EventManager`) | list of (code, listener, enabled), default listener | add, remove, enable, `sendEvent`, `processEvent`, `processAllEvents` | each enabled listener of a code is called once per event | the list may change while it is walked |
| **Pairing core** (`HAPServer`, `HAPSRP`) | one SRP session, pairing mode, attempt counter, pairing list, keys, mDNS flag, per-connection session | pair-setup M1-M6, pair-verify M1-M4, pairings add/remove/list, deletions by the button, reboot | flash = RAM, the key is stable while paired, a pairing ends the pair-setup of others (release build), sessions end with their pairings | one SRP object for all connections, many error paths, handlers that re-enter themselves, restarts between M1 and M5 |
| **Connection list** (`_clients`) | vector of pointers, the objects, the iterators of the range-for | accept, stop, delete and erase, stop all | each object is listed once or deleted, none read after deletion, none skipped | the vector is changed inside the loop over it; a client may be gone before it is listed |
| **Characteristics and notifications** | value, per-connection subscriptions, queued events | GET, PUT (values, `ev`), plugin updates, callbacks, `processEvents` | a subscriber ends up with the current value | coalescing, full queue, one message of 1024 bytes per pass, reads that change the value |
| **Pairing list** (`HAPConfigurationAccessory`) | vector of entries | index, add, remove, isAdmin, clear | at most one entry per identifier | update in place or append |
| **Configuration and storage** | platform, accessory and plugin configuration; files in SPIFFS with a magic | `load`, `save`, `begin`, `reset` | what was saved is what is loaded, whatever the power does | files are written in place one after the other |
| **Secure channel** (`HAPEncryption`, `HAPPrintEncrypted`) | keys, two nonce counters per connection | frame, encrypt, decrypt | both sides use the same counters, every answer can be read | counters of different width, a buffer shared by body and terminator, a frame limit |
| **TLV8** | linked list of items | encode, decode, fragments | decode after encode is the identity | items longer than 255 bytes |
| **Fakegato history** | ring of entries, indices, transfer state | add entry, read, request | entries come out in order with increasing numbers | numbering after the ring is full |
| **Schedules, daily timers** | programs, on/off actions | parse, handle, callbacks | every action is taken once a day | midnight, empty program |
| **Time** | reference time, callbacks | set, `timestamp` | monotone | set while in use |
| **Plugins** | interval timer, device | `handle`, callbacks | values reach the characteristics | - |
| **Button** (ESP32) | press state | short/long/very long press queue events | what was asked for happens | runs on the other core |
| **Web server, WiFi, OTA, keystore** (ESP32 options) | HTML, sockets, update state | - | - | pure I/O |
| **Logging, helpers; vendored libraries** | - | - | - | formatting; third-party code |

### 1.3 How they interact

* A request handler calls the accessory set, which changes the pairing list and
  calls the configuration's save callback at once (`HAPAccessorySet.hpp:63-79`).
* A handler or plugin that changes a characteristic queues an event whose
  parameter is the characteristic; nobody looks at the result of `queueEvent`
  (3723, `HAPPlugins.hpp:282-292`). At the end of the pass `processEvents` counts
  the notification events, sizes an array by that count, drains both queues into
  it through the listeners of those two codes, and sends one message per
  subscribed client.
* The pairing list decides the mDNS flag (850-893), the gate in front of
  pair-setup M1 and the admin flag a session gets at pair-verify.
* The button's events reach `handleEventConfigReset` (3816) and
  `handleEventDeleteAllPairings` (3831) through the queue, between two passes.

The behaviours that are hard to test are listed in `PROJECT.json` under
`hazards`, each at its line with the properties that would catch it.

## 2. Plan

In order of importance. Done:

1. **EventQueue** with **EventFifo** (abstract) and **EventQueueProofs**;
   **EventQueuePreempt** with **EventQueuePreemptProofs**; **EventRing** is the array
   that both are about.
2. **HAPServer** with **HAPServerProofs**.
3. **ClientLoop** and 4. **Notification**, with **ConnectionProofs** for both.
5. **Storage** with **StorageProofs**.
6. **SecureChannel** with **SecureChannelProofs**: one encrypted connection, its
   two counters, chunked answers, requests in several frames.
7. **Dispatch** with **DispatchProofs**: start-up, listeners, the two drains, the
   configuration number.
8. **History** with **HistoryProofs**: the ring of Fakegato entries and its transfer.

Left:

9. **PairingList**: the vector of entries implements the map identifier -> role
    that HAPServer uses. Theorem: the refinement.

ClientLoop and HAPServer share the actions "request ends its connection" and
"all connections are stopped"; Notification and Dispatch
use the FIFO that EventQueue is proved to implement. They stay separate modules because their
product has no property that neither has alone, and a state space out of reach.

## 3. The modules

### EventRing, EventFifo, EventQueue, EventQueueProofs

`EventFifo` is what a queue promises: a sequence of at most `Capacity` events,
accepted at the back or refused when full, taken from the front. `EventQueue` is
the class in `EventManager.cpp` (599-716): `mEventQueue`, `mEventQueueHead`,
`mEventQueueTail`, `mNumEvents` are its members, `answer` is the result of the
last call. `queueEvent` is `Store` or `Drop`, `popEvent` is `Remove` or
`FindEmpty`. `popEvent` clears only the code of a slot, as the code does.

* Run `ring` (size 3, two codes, two parameters: every fill level at every head
  position): `RingInv` is the inductive invariant; `ScanCountsQueued` says that
  the scan over *all* slots counts what is queued; `ImplementsFifo` is refinement
  under `fifo <- Contents`.
* Theorems `RingIsInvariant`, `ScanIsExact`, `RingImplementsFifo`, for every
  queue size, code and parameter. The refinement needs `RingInv`: indices that
  agree (`TailFollowsHead`), codes exactly on live slots (`CodesMarkLiveSlots`,
  needed by the scan), no mixed slot (`LiveSlotsHoldEvents`).

### EventQueuePreempt, EventQueuePreemptProofs

The same class used by two contexts, one step per load or store of a shared
word. The `SuppressInterrupts` object in `queueEvent` and `popEvent` is no step: its
constructor and destructor are commented out for Teensy 4.1 (130-154 of
EventManager.cpp) and ESP32 (180-204), the boards of `platformio.ini`, so that nothing
keeps the other context out (`Step`). On Teensy nothing in this tree queues from an
interrupt; on ESP32 the button task queues from the other core.

* Run `ring_two_contexts` (size 2, three calls per context): `SafeForTwoContexts`,
  what EventManager.h:232 promises, is violated. Both contexts load tail 0 and count 0:
  two events are accepted, one is left, and the count is 1 (section 5).
* `overlapped`, history, is whether a call has ever begun or gone on inside another.
  Proved for every queue size, set of codes and number of calls, without a hypothesis
  about the guard:
  * `IndicesStayInTheArray`: whatever overlaps, no index leaves the array and the count
    is not negative. Only the loop pops, and all that a push can store is one
    more than it read, so that what the loop takes one from is not zero (`RangeInv`).
    The count may exceed the size.
  * `SafeWithoutOverlap`: until the first overlap the queue is safe for both contexts.
    `SafeForTwoContexts` says nothing of a call under way, and `PreemptInv` does: the
    word a context loaded is still the word (`RegInv`), what was checked to fit has room
    (`RoomInv`), and where the one call is tells which of tail, code, head and
    count it has already moved (`TailInv`, `CodeInv`, `OwnerInv`).
  * `FifoWithoutOverlap`: until then it is `EventFifo`, word by word. `Contents` is what
    the FIFO holds: a push takes effect where it stores the count, a pop where it has read
    the parameter, so that from there to the end of `popEvent` one event less is held than
    the count says (`Held`) and, until the head has moved, the first is the one behind it
    (`First`). `answer`, history, is what the last call to take effect returned. The
    proof adds `ArgInv` (the code read first still stands beside the parameter read second)
    and goes step by step: a store of a code or parameter is outside of what is still to
    come (`PushIsQuiet`, `PopIsQuiet`), the store of the count appends
    (`StoreCountAccepts`), the read of the parameter takes the head (`TakeParamTakes`).
* `MaxCalls` is the bound of the run, after which it may stop (`CHECK_DEADLOCK FALSE`).

### HAPServer, MC_HAPServer, HAPServerProofs

One action per request handler, since the loop is one thread. A handler ends as
`handleClientAvailable` (1121-1143) ends it: idle, connection stopped and freed
(`Free`), or calling `handleClientState` again because the state is still
AVAILABLE (`Again`, variable `spinning`; `StackOverflow` when nothing more
arrives). `waiting` is the loop held by a frame that is incomplete
(1146-1258). `srp` is the single `_hapsrp` object, `inPairingMode`
`_isInPairingMode`, `attempts` the 8-bit counter that every error TLV
increments, `saved` the configuration in flash, `sf` the mDNS status flag. A save is one step
here; what happens inside it is in Storage. `Restart` reads the list as
`loadAccessoryConfig` does, whose loop bound (HAPConfiguration.cpp:1271) shrinks
with every entry it takes: of a list longer than `LoadMax` the rest is left out
(`Truncated`).

`srp` is no session, one begun (M1), or one that was verified (M3). What the peer of a
connection sent before is not looked at: `handlePairSetupM3` and `handlePairSetupM5` take
the session there is, whoever began it, and the checks of HAPSRP.cpp do not tie the
proof to the peer of the M1. So M3 and M5 may succeed, and may fail, for every
connection. The same holds of pair-verify: M3 (3007-3206) does not ask for an M1. All that
the cryptography contributes is that a signature is right only for a paired identifier.
Undefined behaviour in the code (a session or key that is not there is dereferenced;
`PairSetupM5Overruns`: the list has grown beyond the buffer it is saved from) is `fault`,
which only a restart leaves.

The button's two deletions are `ButtonHeld` (the task queues at any time) and
`processEvents` (the loop drains). With both in the queue their order does not
matter to the state they end in.

* `server_default` (the default build; three connections, three controllers and
  room for two, two keys): `PairingsAreDurable`, `KeyBeforePairing`,
  `UnpairedIsDiscoverable`, `BusyHasSession`, `IdentityIsStable`. Three connections
  interrupt each other; two pairings let one remove the other and are more than load
  takes, a third controller meets the full list. `PairingsAreDurable` is about the list
  and the key: what is saved is what is in RAM, unless load has just left a part of it out,
  and it is empty on both sides or on neither. Safety only, so that the
  model values may be permuted (`MC_HAPServer`).
* `server_button` (pairing while paired refused, button on; two connections and
  controllers, room for one): the liveness properties `ClosedIsReaped` and
  `ButtonIsServed`, both under the condition `[]<>~Stuck`:
  a loop that never returns from the handler of one connection is permitted by the code (see
  section 5) and serves nobody else. And `PairingEndsSetup`: two peers may both be
  in pair-setup, since an error of one ends the pairing mode that keeps the other out
  (1381), but once one is paired, no session is left for the other to go on with. The
  exception it names is real and reached: a connection that is still encrypted after the
  last pairing was removed adds one while another peer is in pair-setup.
  `MaxTries` and `AttemptsModulus` are small so that the gate closes, and opens again
  when the counter wraps.
* `no_pairing_no_session`: a violation, section 5.
* Fairness: strong, for `Reap` and `processEvents`. A pass of `handle()` visits
  every connection once and ends in the drain. Weak fairness would not do, as a
  handler that holds the loop disables both for a while; the passes in between
  still reach them.

Proved (`HAPServerProofs`), for every number of connections, controllers and keys:

* `TypeIsInvariant`, `PairingsAlwaysDurable`, `IdentityAlwaysStable`,
  `BusyAlwaysHasSession`, `PairingAlwaysEndsSetup` with or without button;
* `KeyAlwaysBeforePairing`, `UnpairedAlwaysDiscoverable` for a build without it.

The argument: lemma `StoreChanges` sorts every step into five ways of touching
pairings, key and flash, and `SetupChanges` into three ways of touching the SRP
session, so that the invariants are proved per way and not per action.
`PairingEndsSetup` follows from these and `PairedFrom`: only an M5, which drops the
session, or an encrypted connection makes an accessory paired that was not.
`BusyHasSession` says only that the pairing mode does not outlive the session: that an
error of one connection ends the mode of another is what the code does.
`KeyBeforePairing` is not inductive: the key is generated at M1 and saved only at M5,
and an M1 while paired does not generate one. Its strengthening `KeyUnlessBlank` says
that without a key *everything* is blank: no pairing, no SRP session, no encrypted
connection. Lemma `LoadKeepsPaired`: what load leaves of a list that is not empty is
not empty.

With the button, `KeyBeforePairing` and `UnpairedIsDiscoverable` do not hold:
`handleEventConfigReset` (3816) zeroes the keys and the list between the M1 and
the M5 of a pair-setup, and does not write the mDNS flag. Nothing in the
repository promises otherwise, so they are stated without the button.

### ClientLoop, ConnectionProofs

`slot` and `size` are the storage of `_clients` and its length, `it` and `end`
the iterators the range-for fixes at the start; `handleClientDisconnect`
(1047-1058) deletes and erases inside the loop, shifting later pointers down and
leaving the last slot as it was. `start`, `met` and `lost` are history. A client is
served right after it was accepted; if its peer has already gone, 1062 sends it the way
of a listed one: `handleClientDisconnect` does not find it in the vector, and the
object, never listed, is never deleted (`Accept`, third case; `lost`).

* `client_loop` (at most two connections, four objects, so that an object is
  reused while others are lost): `VisitsExisting`, `OwnedOnce`, `NoneSkipped`.
* `client_loop_three`: with three, `VisitsExisting` is violated (section 5).
* Proved, for any number of connections: `LoopTypeIsInvariant`, `EachObjectOwnedOnce`
  (what is listed is what exists and was not lost when it was accepted, each once,
  whatever ends in whichever pass: there is no other way to leak an object),
  `ReadsDeletedOnlyAfterTwo` and `SkipsOnlyAfterErase`: the loop reads a deleted object
  only in a pass that erased two, and skips only in one that erased. For at most two
  connections `TwoVisitsExisting` and `TwoNoneSkipped`, which is as far as they are true:
  `MaxClients <= 2` is their hypothesis and `client_loop_three` its reason. The invariant
  (`LoopInv`) has three parts: the listed objects are those that exist and are not lost, each
  once (`ListInv`); a pass erases at most one pointer per step, has met all it went past as
  long as it erased none, and after the first erasure the place past the list
  repeats the last pointer (`PassInv`); of two, whoever was not met is ahead (`TwoInv`).
* That a connection whose peer is gone is deleted is `ClosedIsReaped` of HAPServer.

### Notification, ConnectionProofs

Of a value only this is kept: which controllers know the one a characteristic
has now (`current`). A GET measures a sensor again and stores the value, PUT
subscribes and writes, plugins set and queue, `processEvents` sends every
subscriber one message with the values *of now*, as many as fit. `missed` is
history: the subscribers the code gives up on, because the change was not
announced, the queue was full, or the message had no room.

* `notification` (two controllers, a characteristic that is written and one that is
  written and read back from its device, queue of three, room for one in a message, so
  that both limits are met): `StaleIsQueued` — subscribing, unsubscribing, coalescing
  and reconnecting lose nothing *else* — and `SubscriberCatchesUp`.
* Fairness: weak, of `processEvents`: every pass ends in it.
* `StaleAlwaysQueued` proves the first for every number of everything,
  `TypeIsInvariant` the bound of the queue. The inductive invariant `NotificationInv`
  adds `FreshIsUnsubscribed`: a freed connection leaves no subscription to the next.
* A PUT reads what it has just written through the get callback, which may return
  another value (`back` in `Put`): the outlet and the switch of the KNX plugin, off by
  default, have such a characteristic (HAPPluginKNXDeviceOutlet.cpp:88-92,
  HAPPluginKNXDeviceSwitch.cpp:80-86). Unless some item of the request was in error the
  answer holds no values, and the writer is `missed`, as nobody tells it.
* Assumption: a characteristic whose change callback queues a notification has no get
  callback, as in all plugins of the tree (LED, RCSwitch; those callbacks are of
  Booleans, for which no range is checked before the call).
* The properties excuse who is `missed`. They show that nobody *else* stays behind; of
  the events lost to a full queue (3723) or a full message (3889) they show only that
  their subscribers are known to be lost until the next event or read.

### Storage, StorageProofs

The files that `HAPConfigurationT41SPIFFSExt` writes, in the order of
`HAPConfiguration::save` (726-802): `todo` is what the save under way has still to
write, `file` how much of each is there, `stored` the list in `cAcc`. A write is
`Open`, `Write`, `Close`, or `WriteFails` at any of them; the flash file system is
external and truncates on open. `before` and `trusted` are history: the list when
the save began, and whether the last save or boot found everything in order.
`PowerCycle` may happen between any two steps, and either loads or, without the
magic or a readable list, saves the defaults. One plugin's file stands for all of
them; an error when reading is not modelled.

* `storage` (three controllers and a list of three, of which load takes two):
  `SavedIsLoaded`, `MagicMeansComplete`, and `CutKeepsOldOrNew`: a power cut
  loses the new or the old list only while `cAcc` itself is open. In that window
  anything may be read (`loadAccessoryConfig`), as there is no old copy.
* `Taken` is the loop of `loadAccessoryConfig`. Theorem `LoadTakesHalf`: for every
  maximum and length it takes what HAPServer's `LoadMax` says. The
  library's induction rules take an operator as parameter, which the provers cannot
  instantiate; the proof takes the first turn of the loop at which the count is not
  the closed form, and there is none.
* Proved for every set of controllers and maximum: `TypeIsInvariant`,
  `SavedListIsLoaded`, `MagicIsWrittenLast`, `PowerCutKeepsOldOrNew`. None of them is
  inductive. `StorageInv` adds what is in flash at each point of a save: what is behind
  it has been written (`WrittenInOrder`), only the defaults are saved with all the
  files (`FullSavesDefaults`), and of a state that was in order the magic and the
  old list stay whole until their own file is opened (`OldIsSafe`). The last is
  about the list load *restores* from flash: a list that is longer than load takes is
  followed, after a power cycle, by one that flash holds a longer copy of.

### SecureChannel, SecureChannelProofs

One connection after pair-verify. `encryptCount` and `decryptCount` are those of
`HAPEncryptionContext`; `request` is `hapClient->request`, which only some
handlers clear; `batch` is the time inside `handleClientAvailable`, `idle`
whether a handler has set the connection IDLE meanwhile. The controller is
external and follows the protocol: it asks one thing at a time, its nonces count
without bound. A frame is its nonce and what it holds, a body its length.

* `ReadFrame` is one turn of the loop in `processIncomingEncryptedRequest`
  (1146-1258) with `parseRequest`, `handlePath` and the handler. It answers by
  `SendStream` (`send`, 1881-2052, through `HAPPrintEncrypted`, whose counter is 8
  bits wide), by `Send204` (2054-2091, 16 bits), or in plain text (`sendErrorTLV`).
* `EndBatch` and `StackOverflow` are what follows when nothing more is there:
  back to the loop, or `handleClientState` calling itself again.
* `Chunks(b)` is what `HAPPrintEncrypted::write`, `flush` and `end` make of a body
  and its terminator, `Readable` what a reader of chunked bodies accepts that takes frames of
  any length. Lemma `FittingIsReadable`: if the last chunk has room for the terminator,
  the body is readable, for every buffer size and length.
* `FrameMax` is the limit that 1152, 1157 and 1225 state (1024, as is `Size`), and
  `FrameLength` what a chunk is with the digits and line ends in front of it. A full chunk
  exceeds it (HAPPrintEncrypted.cpp:98-109), a controller may refuse it (`Reads`,
  reader "overlong"). Theorem `OverlongExactly`: an answer is within the limit
  exactly when it fits one frame with all that is around it.
* `SendEvent` is the push from `processEvents`, between two passes.

`causes` is history: what happened that the properties except. They are exceptions the
code has, listed in section 5; each is an action here, not an assumption.

* Run `channel` (buffer of 20 with body lengths at every kind of boundary, counters that
  wrap after 6 and 8, so that the narrower wraps first): `InStepWhileNarrow`,
  `UnreadableForACause`, `EndsForACause`, and `WholeIsAnswered`. The connection may
  end: `CHECK_DEADLOCK FALSE`.
* Fairness: weak, of `ReadFrame`, `EndBatch` (the loop goes on) and `Arrive` (TCP
  delivers while the connection is up). Nothing is asked of the controller.
* Proved for every size, width, body and bound: `TypeIsInvariant`,
  `AlwaysInStepWhileNarrow`, `UnreadableOnlyForACause`, `OverlongExactly`,
  `AlwaysEndsForACause`.
  `ReaderInv`: while the controller has read fewer frames than the narrow counter
  holds, `encryptCount` is their number (`Counted`). `LinkInv`: unless a property's exception
  applies, at most one frame is on its way, its nonce is `decryptCount` (`Pipe`), and
  inside a batch the connection is already idle (`BusyIsIdle`).

### Dispatch, MC_Dispatch, DispatchProofs

`HAPServer::begin` (475-798), the `ListenerList` and the drains of both queues.
`pc` is where the loop is: loading plugins, in `processAllEvents` at the end of
`begin`, or in `processEvents` at the end of a pass. `high` and `low` are the FIFOs
EventQueue implements. Every characteristic that is added queues one event that
adds one to `configurationNumber` (`AddCharacteristics`, HAPAccessory.cpp:70-78).

* `LoadPlugin` registers a plugin's listeners before anything is known of it
  (644); `Starts`, `Fails` (only BME280 takes its listeners out again) and
  `IsDisabled` are the three outcomes. `sendEvent` calls every listener of the code
  and may do anything (`fault`) when the object is gone.
* `BeginPass` counts the notifications, `TakeHigh` and `TakeLow` drain. Of what runs
  *during* the drain only the button (ESP32) queues anything; none of the
  callbacks do. That is what makes `NoOverrun` true, and its mutant breaks it.
* `AddDevice` is the web page of RCSwitch, a plugin that is off by default (it
  calls `HAPFakegato::scheduleToJson`, which is commented out in this tree).
* `seen` is a controller's copy of the database. `lost` and `seen.whole` are history.
* Run `dispatch` (two plugins, one that may fail and one that may be disabled, a queue
  of 4 that start-up can fill, devices up to 4 characteristics): `DeadIsDisabled`,
  `NoOverrun`, `ChangeIsNoticed`, `NumberCatchesUp`. Restarts are unbounded.
* `ChangeIsNoticed` compares how many characteristics a controller knows with how many
  there are: it does not tell databases of the same size apart.
* Fairness: weak, of `Loop`. `NumberCatchesUp` excepts a button pressed for ever,
  as EventManager.h:294 does.
* Proved for every number of plugins, queue size and database:
  `TypeIsInvariant`, `OnlyDisabledLeaveListeners`, `NeverOverruns`,
  `ChangeIsAlwaysNoticed`. `ListInv`: whose the listeners are and that the server's own
  is registered once. `PassInv`: what was taken plus the notifications still queued is at
  most what was counted. `NumberInv`: number + queued increments + lost increments =
  first number + characteristics, in every state.

### History, HistoryProofs

`HAPFakegato`: `entries` is the ring, `requestedIndex`, `transfer` and `restarted` the
members of those names, `value` the stored value of the entries characteristic
(`HAPCharacteristicData`), shared by all connections. A measurement is its place in the
order of all measurements. `AppInfo`, `AppAsk` and `AppRead` are the app, external,
as the comments at HAPFakegato.cpp:411-426 describe it; `ReadAll` is a controller that
reads every characteristic, which runs the same callback.

* Run `history` (two apps, ring of 4, batches of 3, 7 measurements, one restart: the ring
  fills and moves under a download of several batches): `AnswersOwnRequest` (a read
  of others between an app's request and its read does not take its answer away)
  and `Complete` (a download misses one entry, for the reference time, and one for
  each that was overwritten during it). The bounds end a run: `CHECK_DEADLOCK FALSE`.
* Proved for every number of apps and measurements, size of ring and batch:
  `TypeIsInvariant`, `ReadIsTheAnswer`, `DownloadIsComplete`. `HistoryInv`: the ring
  holds consecutive measurements (`RingInv`), so that a value is known by three
  numbers, its first, whether it has the reference time, and how many measurements were
  gone when it was made (`IsAnswer`, `ValueInv`). A request that was not overridden is
  pending or the value is its answer (`AnswerInv`) - also when the answer was
  not stored because the value began with it, since two answers that begin alike agree in
  the three numbers (`StoredAnswer`). For `Complete`, `CleanInv` relates what an app
  lacks to the distance between its last number and its newest measurement, which is how far
  numbers have moved (`Steady`): each measurement overwritten moves them by one, each later
  batch turns the distance into a gap (`MissingGap`).

## 4. Bounds

Each run names its bounds in its cfg. `MaxCalls`, `MaxClients`, `QueueSize`,
`HAP_PAIRINGS_MAX`, `kEventQueueSize`, `MessageRoom`, `MaxTries`, `AttemptsModulus`,
`Size`, `FrameMax`, `Narrow`, `Wide`, `Capacity`, `BatchSize` and `ListenerSize` are the
program's limits made small. `MaxClients` is not a limit of the program: the vector grows, and
`client_loop_three` shows what changes at three. `MaxSent` and `MaxReceived` (frames of a
connection: beyond both widths), `MaxMeasured` and `MaxRestarts` (nearly twice the
ring) and `MaxChars` (a device added after start) only end the run.
What the small numbers leave open, `Size`, `Narrow` and `Wide` of the channel, the
queue of Dispatch and of EventQueue, the theorems close.

## 5. What disagrees with a comment, and what else was seen

As violation runs and findings, each with the line it contradicts:

* "tear down all other pairings if admin removed" (3461): a controller that
  removes its own, last pairing leaves the other encrypted connections up
  (`no_pairing_no_session`);
* "Handle existing clients" (953): the range-for visits a deleted client when two
  of three end in one pass (`client_loop_three`);
* "It always operates in interrupt safe mode, allowing you to queue events from interrupt
  handlers" (EventManager.h:232): `SuppressInterrupts` is empty on the boards that are
  built, and two contexts lose an accepted event (`ring_two_contexts`).

Seen while modelling. Each is in a model, as an action, a fault state or an exception
a property names, unless a line says otherwise.

Pairing and connections:

* the last admin may be removed while a user pairing stays (3463);
* an M5 completes on an accessory that was paired meanwhile, and without a look at
  `HAP_PAIRINGS_MAX` (2755; the buffer of the save is overrun then);
* nothing ties the M3 and the M5 of a pair-setup to the peer of its M1 (2314-2455,
  2460-2493): whoever sends them continues the session there is;
* a client whose peer is gone when it is accepted is never deleted (1062);
* "ERROR: No iOS Device LTPK found!" (3095) is never reached: the lookup no longer
  sets the error that is tested (`PairVerifyM3Faults`);
* an error on any connection ends the pairing mode of another (1381); the attempt
  counter counts every error, and wraps (1380);
* a handler that leaves the connection AVAILABLE makes `handleClientAvailable` and
  `handleClientState` nest (1142): removing another controller's pairing, an
  unknown pairings method, a PUT whose body is not JSON, which is never answered;
* the loop polls for the rest of a frame without looking at the connection (1183);
* `handlePairingsList` encodes the identifier where the public key belongs (3319; not
  modelled).

Encrypted connection:

* `HAPPrintEncrypted` counts in 8 bits (HAPPrintEncrypted.hpp:54) what
  `HAPEncryptionContext` counts in 16 (HAPVerifyContext.hpp:23-24), and the count is
  written back: after 256 frames the nonces start again;
* the terminator of a chunked body shares the buffer with the body: a body that ends
  near a multiple of the buffer splits it, or counts it as data;
* a pairings request that is refused is answered without encryption (1376);
* a full chunk makes a frame of 1031 bytes, where 1152 says that frames are no larger
  than 1024: every answer of more than one chunk exceeds it (`OverlongExactly`).

Events, start-up, configuration number:

* listeners of a plugin that is disabled stay, and its object is deleted;
* the configuration number counts in events, of which the queue holds 32
  (HAPGlobals.hpp:479 says to increase it for KNX): more are lost;
* EventManager.h:132 says that high priority events come before any low one: not for
  those queued while the low queue is drained;
* EventManager.h:128 calls low priority the default, the declaration has high (284);
* EventManager.h:239 removes "all occurrences", the code the first (no caller);
* `handleEventUpdatedConfig` does nothing; in `handleEventUpdateConfigNumber` the
  braces balance only without ESP32 (3775-3788).

History, storage, schedules:

* of the 16 pairings that are accepted and saved, load takes eight (theorem
  `LoadTakesHalf`);
* `_rolledOver` is never set, since there is room when `push` is called
  (HAPFakegato.cpp:155-178);
* a request in flight over a restart reads entries of an empty ring (269);
* an empty answer leaves the last value in place, and the next reader gets it;
* `addEntry` tests `bitmask && (1 << i)` where a bit is meant (not modelled);
* the schedules of `HAPFakegatoSchedule` never run: its `handle` hides
  `HAPFakegato::handle`, which is not virtual and is what the factory calls
  (HAPFakegato.hpp:180); its timers compare UTC with local times (not modelled).

## 6. Proved, model-checked, left out

Proved by TLAPS: the theorems listed in `PROJECT.json`. They assume the named
ASSUMEs of the modules, which TLC evaluates in every run. `TwoVisitsExisting` and
`TwoNoneSkipped` have as hypothesis besides that there is room for at most two
connections; two of the three about EventQueuePreempt are about the time until calls
overlap, and `ring_two_contexts` shows what comes after. Every invariant and
every refinement that a passing run checks is proved.

Only model-checked: the liveness properties (`ClosedIsReaped`, `ButtonIsServed`,
`SubscriberCatchesUp`, `WholeIsAnswered`,
`NumberCatchesUp`), as liveness under fairness is out of the prover's reach.

### Not modelled

* **Schedules and daily timers**: no code reaches them at run time (above), so that a
  model would be of a program nobody runs.
* **TLV8**: a codec over a linked list of bytes; its only control is the split at
  255 bytes. Its `encode` answers FALSE on success for an item longer than
  that. The values it carries are model values here.
* **Time, web server, WiFi, OTA, keystore, logging**: input, output and formatting; the
  one state with a protocol, the reference time, is set once at start.
* Within the modelled components: the cryptography (a guard), JSON and the types of
  values, HTTP parsing, debouncing, log and mDNS records other than status flag and
  configuration number; the default listener and `enableListener`, which have no caller.
* **Vendored libraries** (MbedTLS, FNET, LittleFS, ArduinoJson and others): third-party
  code, and nearly all of the tree's lines; what the program uses of them is
  external in the models. The models cover the control of the program in
  `src/src/HAP`, which is a small part of the tree.
