--------------------------- MODULE SecureChannel ---------------------------
(***************************************************************************)
(* One connection after pair-verify: the frames the server reads           *)
(* (processIncomingEncryptedRequest), what it answers and pushes           *)
(* (HAPServer::send, send204, HAPPrintEncrypted), and a controller that    *)
(* follows the protocol: one request at a time, a nonce that counts the    *)
(* frames of a direction, chunked bodies.  A frame is its nonce and what   *)
(* it holds; a body is its length.                                         *)
(***************************************************************************)
EXTENDS Integers, Sequences

CONSTANTS Size,         \* room of HAPPrintEncrypted for a chunk, 1024
          FrameMax,     \* length a frame of the protocol may have, 1024
          Narrow,       \* values of its _encryptCount, 2^8
          Wide,         \* values of the counts of HAPEncryptionContext, 2^16
          BodyLengths,  \* lengths of the bodies that are answered or pushed
          MaxSent,      \* bound: frames the controller sends
          MaxReceived   \* bound: frames after which nothing is pushed

ASSUME ChannelAssumption == /\ Size \in Nat /\ Size > 8
                            /\ FrameMax \in Nat /\ FrameMax <= Size
                            /\ Narrow \in Nat \ {0} /\ Wide \in Nat \ {0}
                            /\ Narrow <= Wide
                            /\ BodyLengths \subseteq Nat
                            /\ MaxSent \in Nat /\ MaxReceived \in Nat

Terminator == 7      \* length of CR LF 0 CR LF CR LF
Content == 2         \* contentLength of a PUT, in parts it can be cut into
None == "none"
Request == {"read", "write", "pair"}
Frame == [nonce : Nat, head : Request \cup {None}, body : 0 .. Content]

VARIABLES
  encryptCount, decryptCount,  \* of hapClient->encryptionContext
  request,   \* hapClient->request, None when cleared
  batch,     \* inside handleClientAvailable
  idle,      \* a handler has set HAP_CLIENT_STATE_IDLE in this batch
  inbox,     \* frames that have arrived
  wire,      \* frames on their way
  link,      \* "open", "closed" by the server, "crashed"
  sent,      \* frames the controller has sent: its next nonce
  received,  \* frames it has read: the nonce it expects
  waiting,   \* for an answer
  reader,    \* "ok", "lost": a frame does not decrypt, "garbled": not HTTP,
             \* "overlong": it gave up on a frame longer than FrameMax
  causes     \* history: what of Causes has happened

context == <<encryptCount, decryptCount>>
controller == <<sent, received, waiting, reader>>
vars == <<context, request, batch, idle, inbox, wire, link, controller, causes>>

(* A request in several frames, an answer whose terminator does not fit    *)
(* the last chunk, one too long for a single frame, a pairing request that *)
(* is refused, that removes the pairing of its sender, or that of another. *)
Causes == {"split", "tight", "long", "refused", "left", "removal"}

TypeOK == /\ encryptCount \in 0 .. Wide - 1 /\ decryptCount \in 0 .. Wide - 1
          /\ request \in Request \cup {None}
          /\ batch \in BOOLEAN /\ idle \in BOOLEAN /\ waiting \in BOOLEAN
          /\ inbox \in Seq(Frame) /\ wire \in Seq(Frame)
          /\ link \in {"open", "closed", "crashed"}
          /\ sent \in Nat /\ received \in Nat
          /\ reader \in {"ok", "lost", "garbled", "overlong"}
          /\ causes \subseteq Causes

(* handlePairVerifyM1 resets both counts. *)
Init == /\ encryptCount = 0 /\ decryptCount = 0
        /\ request = None /\ batch = FALSE /\ idle = FALSE
        /\ inbox = << >> /\ wire = << >> /\ link = "open"
        /\ sent = 0 /\ received = 0 /\ waiting = FALSE /\ reader = "ok"
        /\ causes = {}
-----------------------------------------------------------------------------
(* What HAPPrintEncrypted makes of a body of b bytes and the terminator:   *)
(* write() flushes when the buffer is full, end() what is left.  size is   *)
(* the number in front of a chunk: flush() leaves the terminator out of it *)
(* only in end(), and there of whatever is left.                           *)
Lesser(a, b) == IF a < b THEN a ELSE b

FullChunk(b, i) == LET body == Lesser(Size, b - (i - 1) * Size)
                   IN  [size |-> Size, body |-> body, term |-> Size - body]

(* Mutant: the terminator counts as data. *)
LastChunkWhole(b) == LET left == (b + Terminator) % Size
                         term == Lesser(left, Terminator)
                     IN  [size |-> left, body |-> left - term, term |-> term]

LastChunk(b) == LET left == (b + Terminator) % Size
                    term == Lesser(left, Terminator)
                IN  [size |-> left - Terminator, body |-> left - term, term |-> term]

Chunks(b) ==
  [i \in 1 .. (b + Terminator) \div Size |-> FullChunk(b, i)]
    \o (IF (b + Terminator) % Size = 0 THEN << >> ELSE << LastChunk(b) >>)

(* The controller reads chunks: each as long as it says, an empty one and  *)
(* an empty line at the end, nothing after it.                             *)
Readable(b) ==
  LET c == Chunks(b)
  IN  /\ \A i \in DOMAIN c : c[i].size = c[i].body /\ c[i].size > 0
      /\ \A i \in DOMAIN c : c[i].term = IF i = Len(c) THEN Terminator ELSE 0

Fits(b) == b % Size \in 1 .. Size - Terminator - 1

(* flush() puts the length of a chunk in front of it, two or four bytes    *)
(* and the hexadecimal digits of size (a size_t, so -1 has many), and      *)
(* sends all of it as one frame: a full chunk makes one of 1029 or 1031    *)
(* bytes.                                                                  *)
Digits(n) == IF n < 0 \/ n > 255 THEN 3 ELSE IF n > 15 THEN 2 ELSE 1
FrameLength(i, c) == (IF i = 1 THEN 2 ELSE 4) + Digits(c.size) + c.body + c.term
Overlong(b) == \E i \in DOMAIN Chunks(b) : FrameLength(i, Chunks(b)[i]) > FrameMax

(* One frame holds the body, the terminator and what is in front.          *)
Short(b) == b + Terminator + 2 + Digits(b) <= FrameMax
-----------------------------------------------------------------------------
(* k frames with the nonces from n on, modulo m, reach the controller.  It *)
(* may take a frame that is too long, or not.                              *)
InStep(n, m, k) == \A i \in 0 .. k - 1 : (n + i) % m = received + i

Reads(n, m, k, readable, overlong) ==
  /\ received' = received + k
  /\ \/ ~ InStep(n, m, k) /\ reader' = "lost"
     \/ InStep(n, m, k) /\ reader' = IF readable THEN reader ELSE "garbled"
     \/ InStep(n, m, k) /\ overlong /\ reader' = "overlong"

(* Mutant: the count is not written back. *)
CountAfterKept(k) == encryptCount

(* setEncryptCount, one increment per frame, and the count written back.   *)
CountAfter(k) == (encryptCount + k) % Narrow

(* send: a frame with the header and one per chunk. *)
SendStream(b, why) ==
  LET k == 1 + Len(Chunks(b))
  IN  /\ Reads(encryptCount % Narrow, Narrow, k, Readable(b), Overlong(b))
      /\ encryptCount' = CountAfter(k)
      /\ causes' = causes \cup why \cup (IF Fits(b) THEN {} ELSE {"tight"})
                               \cup (IF Short(b) THEN {} ELSE {"long"})

(* Mutant: the count outgrows its width. *)
NextWideUnbounded == encryptCount + 1

NextWide == (encryptCount + 1) % Wide

Send204 == /\ Reads(encryptCount, Wide, 1, TRUE, FALSE)
           /\ encryptCount' = NextWide
           /\ UNCHANGED causes
-----------------------------------------------------------------------------
(* GET /accessories, GET /characteristics. *)
Get == /\ \E b \in BodyLengths : SendStream(b, {})
       /\ request' = None /\ waiting' = FALSE /\ idle' = TRUE
       /\ UNCHANGED link

(* Mutant: without an error nothing is sent. *)
PutSilent == /\ \/ \E b \in BodyLengths :
                     SendStream(b, {}) /\ request' = None /\ waiting' = FALSE
                \/ request' = "write"
                   /\ UNCHANGED <<encryptCount, received, reader, causes, waiting>>
             /\ idle' = TRUE
             /\ UNCHANGED link

(* PUT /characteristics: 207 with a body, or 204, which does not clear the *)
(* request.                                                                *)
Put == /\ \/ \E b \in BodyLengths : SendStream(b, {}) /\ request' = None
          \/ Send204 /\ request' = "write"
       /\ waiting' = FALSE /\ idle' = TRUE
       /\ UNCHANGED link

(* A PUT without its body is not answered. *)
PutUnparsed == /\ request' = "write"
               /\ UNCHANGED <<encryptCount, received, reader, causes, waiting, idle, link>>

(* POST /pairings: listed or added; a pairing removed, which stops the     *)
(* connection when it was its own or the last, and else leaves it          *)
(* AVAILABLE; refused by sendErrorTLV, which does not encrypt.             *)
Pairings ==
  /\ request' = None /\ waiting' = FALSE
  /\ \/ \E b \in BodyLengths : SendStream(b, {}) /\ idle' = TRUE /\ UNCHANGED link
     \/ \E b \in BodyLengths : SendStream(b, {"left"}) /\ link' = "closed" /\ UNCHANGED idle
     \/ \E b \in BodyLengths : SendStream(b, {"removal"}) /\ UNCHANGED <<link, idle>>
     \/ /\ reader' = "garbled" /\ causes' = causes \cup {"refused"} /\ link' = "closed"
        /\ UNCHANGED <<encryptCount, received, idle>>

(* handlePath without a path it knows. *)
Stop == /\ request' = None /\ link' = "closed"
        /\ UNCHANGED <<encryptCount, received, reader, causes, waiting, idle>>

(* parseRequest: a frame that begins with the head of a request replaces   *)
(* the one there is; its body is used when it is as long as that says.     *)
Parsed(f) == IF f.nonce = decryptCount /\ f.head # None THEN f.head ELSE request
HasBody(f) == f.nonce = decryptCount /\ f.body = Content

(* Mutant: the count of frames read is not incremented. *)
DecryptCountKept == decryptCount

DecryptCountNext == (decryptCount + 1) % Wide

(* One frame in the loop of processIncomingEncryptedRequest. *)
ReadFrame ==
  /\ link = "open" /\ inbox # << >>
  /\ LET f == Head(inbox)
     IN  CASE Parsed(f) = "read" -> Get
           [] Parsed(f) = "write" -> IF HasBody(f) THEN Put ELSE PutUnparsed
           [] Parsed(f) = "pair" -> Pairings
           [] OTHER -> Stop
  /\ inbox' = Tail(inbox)
  /\ decryptCount' = DecryptCountNext
  /\ batch' = TRUE
  /\ UNCHANGED <<wire, sent>>

(* Nothing is available: the request is cleared.  handleClientAvailable    *)
(* returns when the connection is idle, and is called again when not.      *)
EndBatch ==
  /\ link = "open" /\ batch /\ inbox = << >>
  /\ batch' = ~ idle /\ idle' = FALSE /\ request' = None
  /\ UNCHANGED <<context, inbox, wire, link, controller, causes>>

(* Called again and again by handleClientState while no more arrives. *)
StackOverflow ==
  /\ link = "open" /\ batch /\ inbox = << >> /\ request = None /\ ~ idle
  /\ link' = "crashed"
  /\ UNCHANGED <<context, request, batch, idle, inbox, wire, controller, causes>>

(* sendEvent, from processEvents, between two passes. *)
SendEvent ==
  /\ link = "open" /\ ~ batch /\ received < MaxReceived
  /\ \E b \in BodyLengths : SendStream(b, {})
  /\ request' = None
  /\ UNCHANGED <<decryptCount, batch, idle, inbox, wire, link, sent, waiting>>
-----------------------------------------------------------------------------
(* The frames of a request.  A long PUT takes two, cut behind its head or  *)
(* in its body.                                                            *)
Part(i, head, body) == [nonce |-> sent + i, head |-> head, body |-> body]
FramesOf(r) ==
  IF r = "write" THEN { << Part(0, r, Content) >>,
                        << Part(0, r, 0), Part(1, None, Content) >>,
                        << Part(0, r, 1), Part(1, None, Content - 1) >> }
  ELSE { << Part(0, r, IF r = "read" THEN 0 ELSE Content) >> }

Ask(r) ==
  /\ ~ waiting /\ sent < MaxSent
  /\ \E frames \in FramesOf(r) :
       /\ wire' = wire \o frames
       /\ sent' = sent + Len(frames)
       /\ causes' = causes \cup IF Len(frames) > 1 THEN {"split"} ELSE {}
  /\ waiting' = TRUE
  /\ UNCHANGED <<context, request, batch, idle, inbox, link, received, reader>>

Arrive ==
  /\ wire # << >>
  /\ inbox' = Append(inbox, Head(wire)) /\ wire' = Tail(wire)
  /\ UNCHANGED <<context, request, batch, idle, link, controller, causes>>

Next == /\ link = "open" /\ reader = "ok"
        /\ \/ ReadFrame \/ EndBatch \/ StackOverflow \/ SendEvent \/ Arrive
           \/ \E r \in Request : Ask(r)

Spec == Init /\ [][Next]_vars

(* The loop goes on and TCP delivers. *)
FairSpec == Spec /\ WF_vars(Next /\ ReadFrame) /\ WF_vars(Next /\ EndBatch)
                 /\ WF_vars(Next /\ Arrive)
-----------------------------------------------------------------------------
(* Whoever wrote the last frame, an answer, a 204 or an event, the next    *)
(* one has the nonce the controller counted to, as long as that is less    *)
(* than what the narrower count holds.                                     *)
InStepWhileNarrow == reader = "lost" => received > Narrow

(* A controller that takes frames of any length can read every answer and  *)
(* event, however many chunks it has, and knows where it ends, unless its  *)
(* length leaves no room for the terminator in the last chunk, or the      *)
(* server refused it without encryption.  One that holds the server to     *)
(* FrameMax, the limit that processIncomingEncryptedRequest states, can    *)
(* count only on those that are short enough for a single frame, with all  *)
(* that is around them.                                                    *)
UnreadableForACause ==
  /\ reader = "garbled" => causes \cap {"tight", "refused"} # {}
  /\ reader = "overlong" => "long" \in causes

(* A controller that sends every request in one frame and does not change  *)
(* the pairings is neither stopped nor does it crash the server, until the *)
(* count of its frames wraps.                                              *)
EndsForACause == /\ link = "closed" => \/ sent > Wide
                                         \/ causes \cap {"split", "refused", "left", "removal"} # {}
                 /\ link = "crashed" => \/ sent > Wide
                                          \/ causes \cap {"split", "removal"} # {}

(* A request in one frame is answered, whatever events were pushed.        *)
WholeIsAnswered ==
  []<>(~ waiting \/ link # "open" \/ reader # "ok" \/ "split" \in causes
       \/ sent > Wide)
=============================================================================
