---------------------------- MODULE Notification ----------------------------
(***************************************************************************)
(* Characteristics and their notifications: controllers read, write and    *)
(* subscribe (HAPServer::handleCharacteristicsGet/Put), plugins set values *)
(* when their interval is over, changes are queued as events, and          *)
(* processEvents sends each subscriber one message per pass of the loop.   *)
(* Connections here are those with a verified session; the queue is that   *)
(* of EventQueue, as the FIFO it implements.  Of the values only this is   *)
(* kept: which controllers know the one a characteristic has now.          *)
(***************************************************************************)
EXTENDS Integers, FiniteSets, Sequences

CONSTANTS Client,      \* connections with a verified session
          Char,        \* characteristics (aid, iid), all notifiable
          Sensor,      \* those with a get callback: whoever reads, measures again
          Writable,    \* those with HAP_PERMISSION_WRITE
          Echo,        \* those whose change callback queues a notification
          Plugin,      \* per plugin, the characteristics its handle() sets
          Other,       \* an event of another code in the same queue
          QueueSize,   \* HAP_EVENTMANAGER_QUEUE_SIZE
          MessageRoom  \* characteristics the 1024 byte document of a message holds

ASSUME NotificationAssumption ==
  /\ Sensor \subseteq Char /\ Writable \subseteq Char /\ Echo \subseteq Writable \ Sensor
  /\ Plugin \subseteq SUBSET Char /\ IsFiniteSet(Char)
  /\ Other \notin Char
  /\ QueueSize \in Nat \ {0} /\ MessageRoom \in Nat

VARIABLES conn,        \* "free", "open", or "closed" by the peer and still in _clients
          subscribed,  \* per connection: subscribtions
          current,     \* <<c, ch>>: the controller of c was told, or wrote, ch's value
          queue,       \* the characteristics of the queued events, oldest first
          missed       \* history: who is not current, and has no event coming

vars == <<conn, subscribed, current, queue, missed>>

TypeOK == /\ conn \in [Client -> {"free", "open", "closed"}]
          /\ subscribed \in [Client -> SUBSET Char]
          /\ current \in SUBSET (Client \X Char)
          /\ queue \in Seq(Char \cup {Other}) /\ Len(queue) <= QueueSize
          /\ missed \in SUBSET (Client \X Char)

Init == /\ conn = [c \in Client |-> "free"]
        /\ subscribed = [c \in Client |-> {}]
        /\ current = {}
        /\ queue = << >>
        /\ missed = {}
-----------------------------------------------------------------------------
(* The subscribers who would act on an old value. *)
Stale == { p \in Client \X Char : /\ conn[p[1]] = "open"
                                  /\ p[2] \in subscribed[p[1]]
                                  /\ p \notin current }
In(s) == { s[i] : i \in 1 .. Len(s) }

(* Calls of queueEvent for these characteristics, in some order: what      *)
(* finds the queue full is dropped, and nobody looks at the result.        *)
LesserUnbounded(a, b) == a   \* mutant: the queue never refuses
Lesser(a, b) == IF a < b THEN a ELSE b
Arrivals(chars) ==
  { s \in [1 .. Lesser(Cardinality(chars), QueueSize - Len(queue)) -> chars] :
      \A i, j \in DOMAIN s : s[i] = s[j] => i = j }

(* New values for some characteristics, and who is told which value. *)
Change(changed, told) == current' = (current \ (Client \X changed)) \cup told

(* Who is missed: the subscribers of what changed without an event, those  *)
(* whose event was lost, and those missed before, until they are current.  *)
Miss(lost) == missed' = Stale' \cap (missed \cup lost)

Connect(c) == /\ conn[c] = "free"
              /\ conn' = [conn EXCEPT ![c] = "open"]
              /\ UNCHANGED <<subscribed, current, queue, missed>>

PeerCloses(c) == /\ conn[c] = "open"
                 /\ conn' = [conn EXCEPT ![c] = "closed"]
                 /\ UNCHANGED <<subscribed, current, queue>>
                 /\ Miss({})

(* The client object is deleted, its subscriptions with it. *)
Disconnect(c) == /\ conn[c] # "free"
                 /\ conn' = [conn EXCEPT ![c] = "free"]
                 /\ subscribed' = [subscribed EXCEPT ![c] = {}]
                 /\ current' = current \ ({c} \X Char)
                 /\ UNCHANGED queue
                 /\ Miss({})

(* GET /characteristics or /accessories: a sensor is measured again, and   *)
(* nobody else hears of it.                                                *)
Get(c, chars) == \E changed \in SUBSET (chars \cap Sensor) :
                   /\ conn[c] = "open"
                   /\ Change(changed, {c} \X chars)
                   /\ UNCHANGED <<conn, subscribed, queue>>
                   /\ Miss(Client \X changed)

(* Mutant of Announced: a subscription is not announced. *)
AnnouncedWrites(on, changed) == changed \cap Echo

(* What a PUT queues: each subscription, so that the controller is told    *)
(* the value, and each change whose callback notifies.  (Those of the tree *)
(* are Booleans; a number out of its range would be stored uncalled.)      *)
Announced(on, changed) == on \cup (changed \cap Echo)

(* PUT /characteristics: subscriptions on and off, and values written.     *)
(* What has a get callback is measured for the answer, also when it was    *)
(* just written: some then read back as another value, which counts as a   *)
(* change.  The answer holds the values only when some item of the request *)
(* was in error.                                                           *)
Put(c, on, off, written, inError) ==
  \E changed \in SUBSET (written \cup ((on \cup off) \cap Sensor)) :
  \E back \in SUBSET (changed \cap written \cap Sensor), s \in Arrivals(Announced(on, changed)) :
    /\ conn[c] = "open"
    /\ subscribed' = [subscribed EXCEPT ![c] = (@ \cup on) \ off]
    /\ Change(changed, {c} \X (IF inError THEN written \cup on \cup off ELSE written \ back))
    /\ queue' = queue \o s
    /\ UNCHANGED conn
    /\ Miss({c} \X (Announced(on, changed) \ In(s)) \cup Client \X (changed \ In(s)))

(* handleImpl of a plugin: every value is set, and queued, changed or not. *)
Update(chars) == \E changed \in SUBSET chars, s \in Arrivals(chars) :
                   /\ Change(changed, {})
                   /\ queue' = queue \o s
                   /\ UNCHANGED <<conn, subscribed>>
                   /\ Miss(Client \X (changed \ In(s)))

(* Any handler that queues an event of another code. *)
QueueOther == /\ Len(queue) < QueueSize
              /\ queue' = Append(queue, Other)
              /\ UNCHANGED <<conn, subscribed, current, missed>>

(* The events that concern a connection, and those its message has room    *)
(* for; the values sent are those of now.                                  *)
Events(c) == { i \in 1 .. Len(queue) : queue[i] \in subscribed[c] }
Sent(c) == { i \in Events(c) : Cardinality({ j \in Events(c) : j <= i }) <= MessageRoom }
Told(c) == { queue[i] : i \in Sent(c) }
Cut(c) == { queue[i] : i \in Events(c) } \ Told(c)

(* Mutant: the queue is left until it is full. *)
DrainWhenFull ==
  /\ Len(queue) = QueueSize
  /\ queue' = << >>
  /\ current' = current \cup { p \in Client \X Char : conn[p[1]] = "open" /\ p[2] \in Told(p[1]) }
  /\ UNCHANGED <<conn, subscribed>>
  /\ Miss({ p \in Client \X Char : p[2] \in Cut(p[1]) })

(* processEvents: both queues are emptied, then each connection is sent    *)
(* one message.  What did not fit in it is missed.                         *)
processEvents ==
  /\ queue # << >>
  /\ queue' = << >>
  /\ current' = current \cup { p \in Client \X Char : conn[p[1]] = "open" /\ p[2] \in Told(p[1]) }
  /\ UNCHANGED <<conn, subscribed>>
  /\ Miss({ p \in Client \X Char : p[2] \in Cut(p[1]) })

Request(c) ==
  \/ \E chars \in SUBSET Char : Get(c, chars)
  \/ \E on \in SUBSET Char : \E off \in SUBSET (Char \ on), written \in SUBSET Writable,
        inError \in BOOLEAN : Put(c, on, off, written, inError)

Next == \/ \E c \in Client : Connect(c) \/ PeerCloses(c) \/ Disconnect(c) \/ Request(c)
        \/ \E chars \in Plugin : Update(chars)
        \/ QueueOther \/ processEvents

(* Every pass of handle() ends in processEvents. *)
Spec == Init /\ [][Next]_vars /\ WF_vars(processEvents)
-----------------------------------------------------------------------------
(* A controller that is connected, subscribed and not up to date has an    *)
(* event coming, or belongs to those the code gives up on: changes nobody  *)
(* announces, events the full queue refused, events a message had no room  *)
(* for.  Subscribing, unsubscribing, coalescing of events and connections  *)
(* that come and go lose nothing else.                                     *)
StaleIsQueued == \A p \in Stale : p[2] \in In(queue) \/ p \in missed

(* What makes it inductive: a new connection starts with no subscription   *)
(* left over from the one before.                                          *)
FreshIsUnsubscribed == \A c \in Client : conn[c] = "free" => subscribed[c] = {}
NotificationInv == TypeOK /\ FreshIsUnsubscribed /\ StaleIsQueued

(* Such a controller catches up, whatever changes meanwhile: none stays    *)
(* behind for ever but those given up on.                                  *)
SubscriberCatchesUp ==
  \A c \in Client, ch \in Char :
    []<>(<<c, ch>> \in Stale => <<c, ch>> \in missed)
=============================================================================
