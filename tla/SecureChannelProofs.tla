------------------------ MODULE SecureChannelProofs ------------------------
(***************************************************************************)
(* The nonces and the chunks of an encrypted connection, for every size of *)
(* the buffer, every width of the counts and every length of a body.       *)
(***************************************************************************)
EXTENDS SecureChannel, TLAPS

Chunk == [size : Int, body : Int, term : Int]

(* Quotient and remainder are what they are. *)
LEMMA Division ==
  ASSUME NEW n \in Nat, NEW m \in Nat \ {0}
  PROVE  /\ n % m \in 0 .. m - 1 /\ n \div m \in Nat
         /\ n = m * (n \div m) + (n % m)
         /\ n < m => n % m = n
  OBVIOUS

LEMMA DivisionIsUnique ==
  ASSUME NEW n \in Nat, NEW m \in Nat \ {0}, NEW q \in Nat, NEW r \in 0 .. m - 1,
         n = m * q + r
  PROVE  n % m = r /\ n \div m = q
  OBVIOUS

LEMMA Monotonic ==
  ASSUME NEW a \in Nat, NEW b \in Nat, NEW m \in Nat, a <= b
  PROVE  m * a <= m * b
  OBVIOUS

LEMMA ChunksAreASequence ==
  ASSUME NEW b \in Nat
  PROVE  Chunks(b) \in Seq(Chunk) /\ Len(Chunks(b)) \in Nat
<1>0. Size \in Nat \ {0} /\ Terminator = 7 BY ChannelAssumption DEF Terminator
<1>1. /\ (b + Terminator) \div Size \in Nat /\ (b + Terminator) % Size \in Nat
  BY <1>0, Division
<1>2. \A i \in 1 .. (b + Terminator) \div Size : FullChunk(b, i) \in Chunk
  <2> TAKE i \in 1 .. (b + Terminator) \div Size
  <2>1. (i - 1) * Size \in Int BY <1>0, <1>1
  <2>2. Lesser(Size, b - (i - 1) * Size) \in Int BY <1>0, <2>1 DEF Lesser
  <2> QED BY <1>0, <2>2 DEF FullChunk, Chunk
<1>3. LastChunk(b) \in Chunk BY <1>0, <1>1 DEF LastChunk, Chunk, Lesser
<1>4. [i \in 1 .. (b + Terminator) \div Size |-> FullChunk(b, i)] \in Seq(Chunk)
  BY <1>1, <1>2
<1>5. Chunks(b) \in Seq(Chunk) BY <1>3, <1>4 DEF Chunks
<1> QED BY <1>5

(* The last chunk of a body that fits ends in the whole terminator, and    *)
(* every other one is full of the body.                                    *)
LEMMA FittingIsReadable ==
  ASSUME NEW b \in Nat, Fits(b)
  PROVE  Readable(b)
<1> DEFINE q == b \div Size
           r == b % Size
<1>0. Size \in Nat \ {0} /\ Size > 8 /\ Terminator = 7 BY ChannelAssumption DEF Terminator
<1>1. q \in Nat /\ r \in 1 .. Size - 8 /\ b = Size * q + r
  <2>1. q \in Nat /\ b = Size * q + r BY <1>0, Division
  <2>2. r \in 1 .. Size - 8 BY <1>0 DEF Fits
  <2> QED BY <2>1, <2>2
<1> HIDE DEF q, r
<1>2. /\ (b + Terminator) % Size = r + 7
      /\ (b + Terminator) \div Size = q
  <2>1. b + Terminator = Size * q + (r + 7) /\ r + 7 \in 0 .. Size - 1 BY <1>0, <1>1
  <2> QED BY <2>1, <1>0, <1>1, DivisionIsUnique
<1>3. \A i \in 1 .. q : FullChunk(b, i) = [size |-> Size, body |-> Size, term |-> 0]
  <2> SUFFICES ASSUME NEW i \in 1 .. q
               PROVE  FullChunk(b, i) = [size |-> Size, body |-> Size, term |-> 0]
    OBVIOUS
  <2>1. Size * i <= Size * q BY <1>0, <1>1, Monotonic
  <2>2. (i - 1) * Size = Size * i - Size BY <1>0, <1>1
  <2>3. b - (i - 1) * Size >= Size BY <2>1, <2>2, <1>0, <1>1
  <2>4. b - (i - 1) * Size \in Int BY <2>2, <1>0, <1>1
  <2>5. Lesser(Size, b - (i - 1) * Size) = Size BY <2>3, <2>4, <1>0 DEF Lesser
  <2> QED BY <2>5, <1>0 DEF FullChunk
<1>4. LastChunk(b) = [size |-> r, body |-> r, term |-> 7]
  BY <1>0, <1>1, <1>2 DEF LastChunk, Lesser
<1> DEFINE full == [i \in 1 .. q |-> FullChunk(b, i)]
<1>5. Chunks(b) = full \o << LastChunk(b) >>
  <2>1. (b + Terminator) % Size # 0 BY <1>1, <1>2
  <2>2. Chunks(b) = [i \in 1 .. (b + Terminator) \div Size |-> FullChunk(b, i)]
                      \o << LastChunk(b) >>
    BY ONLY <2>1 DEF Chunks
  <2> QED BY ONLY <1>2, <2>2
<1>6. full \in Seq(Chunk) /\ Len(full) = q
  BY <1>0, <1>1, <1>3 DEF Chunk
<1>7. << LastChunk(b) >> \in Seq(Chunk) /\ Len(<< LastChunk(b) >>) = 1
  BY <1>0, <1>1, <1>4 DEF Chunk
<1> HIDE DEF full
<1>8. /\ Len(Chunks(b)) = q + 1 /\ DOMAIN Chunks(b) = 1 .. q + 1
      /\ \A i \in 1 .. q : Chunks(b)[i] = full[i]
      /\ Chunks(b)[q + 1] = LastChunk(b)
  BY <1>1, <1>5, <1>6, <1>7
<1>9. \A i \in 1 .. q : full[i] = [size |-> Size, body |-> Size, term |-> 0]
  BY <1>3 DEF full
<1>10. \A i \in 1 .. q : Chunks(b)[i] = [size |-> Size, body |-> Size, term |-> 0]
  BY ONLY <1>8, <1>9
<1>11. Chunks(b)[q + 1] = [size |-> r, body |-> r, term |-> 7]
  BY ONLY <1>4, <1>8
<1>12. \A i \in 1 .. q + 1 : i \in 1 .. q \/ i = q + 1
  BY ONLY <1>1
<1>13. \A i \in DOMAIN Chunks(b) : /\ Chunks(b)[i].size = Chunks(b)[i].body
                                   /\ Chunks(b)[i].size > 0
                                   /\ Chunks(b)[i].term = IF i = q + 1 THEN 7 ELSE 0
  <2> SUFFICES ASSUME NEW i \in 1 .. q + 1
               PROVE  /\ Chunks(b)[i].size = Chunks(b)[i].body
                      /\ Chunks(b)[i].size > 0
                      /\ Chunks(b)[i].term = IF i = q + 1 THEN 7 ELSE 0
    BY <1>8
  <2>1. CASE i \in 1 .. q
    <3>1. i # q + 1 BY <1>1, <2>1
    <3>2. Chunks(b)[i] = [size |-> Size, body |-> Size, term |-> 0] BY <1>10, <2>1
    <3> QED BY ONLY <1>0, <3>1, <3>2
  <2>2. CASE i = q + 1
    <3>1. Chunks(b)[i] = [size |-> r, body |-> r, term |-> 7] BY <1>11, <2>2
    <3> QED BY ONLY <1>1, <2>2, <3>1
  <2> QED BY <1>12, <2>1, <2>2
<1> QED BY <1>0, <1>8, <1>13 DEF Readable

(* A body is in a frame longer than the protocol allows exactly when it is *)
(* not short enough for one frame: with a chunk that is full there is      *)
(* always such a frame, whatever the length of the rest.                   *)
THEOREM OverlongExactly ==
  ASSUME NEW b \in Nat
  PROVE  Overlong(b) <=> ~ Short(b)
<1>0. /\ Size \in Nat \ {0} /\ Size > 8 /\ Terminator = 7
      /\ FrameMax \in Nat /\ FrameMax <= Size
  BY ChannelAssumption DEF Terminator
<1>d. \A n \in Int : Digits(n) \in 1 .. 3
  BY DEF Digits
<1> DEFINE full == [i \in 1 .. (b + Terminator) \div Size |-> FullChunk(b, i)]
<1>1. CASE b + Terminator < Size
  <2>1. (b + Terminator) \div Size = 0 /\ (b + Terminator) % Size = b + 7
    <3>1. b + Terminator = Size * 0 + (b + 7) /\ b + 7 \in 0 .. Size - 1 /\ b + Terminator \in Nat
      BY <1>0, <1>1
    <3> QED
      BY <1>0, <3>1, DivisionIsUnique
  <2>2. LastChunk(b) = [size |-> b, body |-> b, term |-> 7]
    BY <1>0, <2>1 DEF LastChunk, Lesser
  <2>3. full = << >>
    BY <2>1
  <2>4. Chunks(b) = << >> \o << LastChunk(b) >>
    <3>1. (b + Terminator) % Size # 0
      BY <2>1
    <3>2. Chunks(b) = full \o << LastChunk(b) >>
      BY ONLY <3>1 DEF Chunks
    <3> QED
      BY ONLY <2>3, <3>2
  <2>5. Chunks(b) = << LastChunk(b) >>
    <3>1. \A x : << >> \o << x >> = << x >>
      OBVIOUS
    <3> QED
      BY ONLY <2>4, <3>1
  <2>6. DOMAIN Chunks(b) = {1} /\ Chunks(b)[1] = LastChunk(b)
    <3>1. \A x : DOMAIN << x >> = {1} /\ << x >>[1] = x
      OBVIOUS
    <3> QED
      BY ONLY <2>5, <3>1
  <2>7. FrameLength(1, LastChunk(b)) = 2 + Digits(b) + b + 7
    BY <2>2 DEF FrameLength
  <2>8. Overlong(b) <=> 2 + Digits(b) + b + 7 > FrameMax
    BY ONLY <2>6, <2>7 DEF Overlong
  <2>9. Digits(b) \in 1 .. 3
    BY <1>d
  <2> QED
    BY ONLY <1>0, <2>8, <2>9, b \in Nat DEF Short
<1>2. CASE ~ (b + Terminator < Size)
  <2>1. (b + Terminator) \div Size \in Nat /\ (b + Terminator) \div Size >= 1
    <3>1. b + Terminator \in Nat /\ b + Terminator >= Size
      BY <1>0, <1>2
    <3>2. /\ (b + Terminator) \div Size \in Nat /\ (b + Terminator) % Size \in 0 .. Size - 1
          /\ b + Terminator = Size * ((b + Terminator) \div Size) + ((b + Terminator) % Size)
      BY <1>0, <3>1, Division
    <3>3. (b + Terminator) \div Size # 0
      BY <1>0, <3>1, <3>2
    <3> QED
      BY <3>2, <3>3
  <2>2. full \in Seq(Chunk) /\ Len(full) = (b + Terminator) \div Size
    <3>1. \A i \in 1 .. (b + Terminator) \div Size : FullChunk(b, i) \in Chunk
      <4> TAKE i \in 1 .. (b + Terminator) \div Size
      <4>1. (i - 1) * Size \in Int
        BY <1>0, <2>1
      <4>2. Lesser(Size, b - (i - 1) * Size) \in Int
        BY <1>0, <4>1 DEF Lesser
      <4> QED
        BY <1>0, <4>2 DEF FullChunk, Chunk
    <3> QED
      BY <2>1, <3>1
  <2>3. full[1] = FullChunk(b, 1)
    BY <2>1
  <2>4. Chunks(b) = full \/ Chunks(b) = full \o << LastChunk(b) >>
    <3>1. CASE (b + Terminator) % Size = 0
      <4>1. Chunks(b) = full \o << >>
        BY ONLY <3>1 DEF Chunks
      <4>2. \A q \in Seq(Chunk) : q \o << >> = q
        OBVIOUS
      <4> HIDE DEF full
      <4> QED
        BY ONLY <2>2, <4>1, <4>2
    <3>2. CASE (b + Terminator) % Size # 0
      BY ONLY <3>2 DEF Chunks
    <3> QED
      BY <3>1, <3>2
  <2>5. LastChunk(b) \in Chunk
    <3>1. (b + Terminator) % Size \in Nat
      BY <1>0, Division
    <3> QED
      BY <1>0, <3>1 DEF LastChunk, Chunk, Lesser
  <2> HIDE DEF full
  <2>6. 1 \in DOMAIN Chunks(b) /\ Chunks(b)[1] = full[1]
    <3>1. \A q \in Seq(Chunk), x \in Chunk :
            Len(q) >= 1 => /\ 1 \in DOMAIN q /\ 1 \in DOMAIN (q \o << x >>)
                           /\ (q \o << x >>)[1] = q[1]
      OBVIOUS
    <3> QED
      BY ONLY <2>1, <2>2, <2>4, <2>5, <3>1
  <2>7. FrameLength(1, FullChunk(b, 1)) > FrameMax
    <3>1. (1 - 1) * Size = 0
      BY <1>0
    <3>2. Lesser(Size, b) \in Int
      BY <1>0 DEF Lesser
    <3>3. FullChunk(b, 1) = [size |-> Size, body |-> Lesser(Size, b),
                             term |-> Size - Lesser(Size, b)]
      BY <1>0, <3>1 DEF FullChunk
    <3>4. Digits(Size) \in 1 .. 3
      BY <1>0, <1>d
    <3> QED
      BY <1>0, <3>2, <3>3, <3>4 DEF FrameLength
  <2>8. Overlong(b)
    BY ONLY <2>3, <2>6, <2>7 DEF Overlong
  <2>9. ~ Short(b)
    <3>1. Digits(b) \in 1 .. 3
      BY <1>d
    <3> QED
      BY <1>0, <1>2, <3>1 DEF Short
  <2> QED
    BY <2>8, <2>9
<1> QED
  BY <1>1, <1>2
-----------------------------------------------------------------------------
(* A step of Next is one of these; ReadFrame is split by what it calls.    *)
Counted == received < Narrow => encryptCount = received

(* What a stream of frames does to the counts and to the reader. *)
Streamed == /\ encryptCount' \in 0 .. Wide - 1
            /\ received' \in Nat /\ received' > received
            /\ reader' \in {"ok", "lost", "garbled", "overlong"}
            /\ Counted => Counted'
            /\ Counted => (reader' = "lost" => received' > Narrow)

LEMMA CountsInStep ==
  ASSUME TypeOK, Counted, reader = "ok",
         NEW m \in {Narrow, Wide}, NEW n \in Nat, NEW k \in Nat \ {0},
         received < Narrow => n = received, received + k <= Narrow
  PROVE  InStep(n, m, k)
<1>1. Narrow \in Nat \ {0} /\ m \in Nat \ {0} /\ Narrow <= m /\ received \in Nat
  BY ChannelAssumption DEF TypeOK
<1>2. n = received BY <1>1
<1> SUFFICES ASSUME NEW i \in 0 .. k - 1 PROVE (n + i) % m = received + i
  BY DEF InStep
<1>3. n + i \in Nat /\ n + i < m BY <1>1, <1>2
<1> QED BY <1>1, <1>2, <1>3, Division

LEMMA StreamStep ==
  ASSUME TypeOK, reader = "ok", NEW b \in BodyLengths, NEW why \in SUBSET Causes,
         SendStream(b, why)
  PROVE  /\ Streamed /\ causes' \in SUBSET Causes /\ causes \cup why \subseteq causes'
         /\ reader' = "garbled" => "tight" \in causes'
         /\ reader' = "overlong" => "long" \in causes'
<1> DEFINE k == 1 + Len(Chunks(b))
<1>0. /\ Narrow \in Nat \ {0} /\ Wide \in Nat \ {0} /\ Narrow <= Wide /\ b \in Nat
      /\ received \in Nat /\ encryptCount \in Nat
  BY ChannelAssumption DEF TypeOK
<1>1. k \in Nat \ {0}
  <2>1. Len(Chunks(b)) \in Nat BY <1>0, ChunksAreASequence
  <2> HIDE DEF k
  <2>2. k = 1 + Len(Chunks(b)) BY DEF k
  <2> QED BY <2>1, <2>2
<1> HIDE DEF k
<1>2. /\ Reads(encryptCount % Narrow, Narrow, k, Readable(b), Overlong(b))
      /\ encryptCount' = (encryptCount + k) % Narrow
      /\ causes' = causes \cup why \cup (IF Fits(b) THEN {} ELSE {"tight"})
                               \cup (IF Short(b) THEN {} ELSE {"long"})
  BY DEF SendStream, CountAfter, k
<1>3. encryptCount' \in 0 .. Narrow - 1 BY <1>0, <1>1, <1>2, Division
<1>4. received' = received + k BY <1>2 DEF Reads
<1>5. /\ reader' \in {"ok", "lost", "garbled", "overlong"}
      /\ reader' = "lost" => ~ InStep(encryptCount % Narrow, Narrow, k)
      /\ reader' = "garbled" => ~ Readable(b)
      /\ reader' = "overlong" => Overlong(b)
  BY <1>2 DEF Reads
<1>6. ASSUME Counted PROVE Counted'
  <2>1. SUFFICES ASSUME received' < Narrow PROVE encryptCount' = received'
    BY DEF Counted
  <2>2. encryptCount = received BY <1>0, <1>1, <1>4, <1>6, <2>1 DEF Counted
  <2>3. encryptCount + k \in Nat /\ encryptCount + k < Narrow
    BY <1>0, <1>1, <1>4, <2>1, <2>2
  <2>4. (encryptCount + k) % Narrow = encryptCount + k BY <1>0, <2>3, Division
  <2> QED BY <1>2, <1>4, <2>2, <2>4
<1>7. ASSUME Counted, reader' = "lost" PROVE received' > Narrow
  <2>1. SUFFICES ASSUME received + k <= Narrow PROVE FALSE BY <1>0, <1>1, <1>4
  <2>2. received < Narrow => encryptCount % Narrow = received
    BY <1>0, <1>7, Division DEF Counted
  <2>3. encryptCount % Narrow \in Nat BY <1>0, Division
  <2>4. InStep(encryptCount % Narrow, Narrow, k)
    BY <1>1, <1>7, <2>1, <2>2, <2>3, CountsInStep
  <2> QED BY <1>5, <1>7, <2>4
<1>8. /\ reader' = "garbled" => "tight" \in causes'
      /\ reader' = "overlong" => "long" \in causes'
  BY <1>0, <1>2, <1>5, FittingIsReadable, OverlongExactly
<1>9. causes' \in SUBSET Causes /\ causes \cup why \subseteq causes'
  BY <1>2 DEF TypeOK, Causes
<1>10. encryptCount' \in 0 .. Wide - 1 /\ received' \in Nat /\ received' > received
  BY <1>0, <1>1, <1>3, <1>4
<1> QED BY <1>5, <1>6, <1>7, <1>8, <1>9, <1>10 DEF Streamed

LEMMA NoContentStep ==
  ASSUME TypeOK, reader = "ok", Send204
  PROVE  Streamed /\ causes' = causes /\ reader' \notin {"garbled", "overlong"}
<1>0. /\ Narrow \in Nat \ {0} /\ Wide \in Nat \ {0} /\ Narrow <= Wide
      /\ received \in Nat /\ encryptCount \in 0 .. Wide - 1
  BY ChannelAssumption DEF TypeOK
<1>1. /\ Reads(encryptCount, Wide, 1, TRUE, FALSE)
      /\ encryptCount' = (encryptCount + 1) % Wide
      /\ causes' = causes
  BY DEF Send204, NextWide
<1>2. encryptCount' \in 0 .. Wide - 1 BY <1>0, <1>1, Division
<1>3. received' = received + 1 BY <1>1 DEF Reads
<1>4. /\ reader' \in {"ok", "lost"}
      /\ reader' = "lost" => ~ InStep(encryptCount, Wide, 1)
  BY <1>1 DEF Reads
<1>5. ASSUME Counted PROVE Counted'
  <2>1. SUFFICES ASSUME received' < Narrow PROVE encryptCount' = received'
    BY DEF Counted
  <2>2. encryptCount = received BY <1>0, <1>3, <1>5, <2>1 DEF Counted
  <2>3. encryptCount + 1 \in Nat /\ encryptCount + 1 < Wide BY <1>0, <1>3, <2>1, <2>2
  <2> QED BY <1>0, <1>1, <1>3, <2>2, <2>3, Division
<1>6. ASSUME Counted, reader' = "lost" PROVE received' > Narrow
  <2>1. SUFFICES ASSUME received + 1 <= Narrow PROVE FALSE BY <1>0, <1>3
  <2>2. received < Narrow => encryptCount = received BY <1>6 DEF Counted
  <2>3. InStep(encryptCount, Wide, 1) BY <1>0, <1>6, <2>1, <2>2, CountsInStep
  <2> QED BY <1>4, <1>6, <2>3
<1> QED BY <1>0, <1>1, <1>2, <1>3, <1>4, <1>5, <1>6 DEF Streamed
-----------------------------------------------------------------------------
(* What every step but the asking and the arriving does, as far as the     *)
(* channel goes: nothing, a stream, a 204, or a refusal.                   *)
Quiet == UNCHANGED <<encryptCount, received, reader>> /\ causes \subseteq causes'
           /\ causes' \in SUBSET Causes
Garbled == /\ UNCHANGED <<encryptCount, received>> /\ reader' = "garbled"
           /\ causes' = causes \cup {"refused"}
Sends == /\ Streamed /\ causes' \in SUBSET Causes /\ causes \subseteq causes'
         /\ reader' = "garbled" => "tight" \in causes'
         /\ reader' = "overlong" => "long" \in causes'

LEMMA Handled ==
  ASSUME TypeOK, Next, ReadFrame
  PROVE  /\ Quiet \/ Sends \/ Garbled
         /\ waiting' \in BOOLEAN /\ idle' \in BOOLEAN /\ request' \in Request \cup {None}
         /\ link' \in {"open", "closed"}
<1>0. reader = "ok" /\ link = "open" /\ waiting \in BOOLEAN /\ idle \in BOOLEAN
  BY DEF Next, TypeOK
<1>1. CASE Get
  <2>1. PICK b \in BodyLengths : SendStream(b, {}) BY <1>1 DEF Get
  <2>2. Sends BY <1>0, <2>1, StreamStep DEF Sends
  <2> QED BY <1>0, <1>1, <2>2 DEF Get
<1>2. CASE Put
  <2>1. CASE \E b \in BodyLengths : SendStream(b, {}) /\ request' = None
    <3>1. PICK b \in BodyLengths : SendStream(b, {}) /\ request' = None BY <2>1
    <3>2. Sends BY <1>0, <3>1, StreamStep DEF Sends
    <3> QED BY <1>0, <1>2, <3>1, <3>2 DEF Put
  <2>2. CASE Send204 /\ request' = "write"
    <3>1. Streamed /\ causes' = causes /\ reader' \notin {"garbled", "overlong"}
      BY <1>0, <2>2, NoContentStep
    <3>2. Sends BY <3>1 DEF Sends, TypeOK
    <3> QED BY <1>0, <1>2, <2>2, <3>2 DEF Put, Request
  <2> QED BY <1>2, <2>1, <2>2 DEF Put
<1>3. CASE PutUnparsed
  BY <1>0, <1>3 DEF PutUnparsed, Quiet, TypeOK, Request
<1>4. CASE Pairings
  <2>0. waiting' \in BOOLEAN /\ request' \in Request \cup {None} BY <1>4 DEF Pairings
  <2>1. CASE \E b \in BodyLengths : SendStream(b, {}) /\ idle' = TRUE /\ UNCHANGED link
    <3>1. PICK b \in BodyLengths : SendStream(b, {}) /\ idle' = TRUE /\ UNCHANGED link
      BY <2>1
    <3>2. Sends BY <1>0, <3>1, StreamStep DEF Sends
    <3> QED BY <1>0, <2>0, <3>1, <3>2
  <2>2. CASE \E b \in BodyLengths :
               SendStream(b, {"left"}) /\ link' = "closed" /\ UNCHANGED idle
    <3>1. PICK b \in BodyLengths :
            SendStream(b, {"left"}) /\ link' = "closed" /\ UNCHANGED idle
      BY <2>2
    <3>2. Sends BY <1>0, <3>1, StreamStep DEF Sends, Causes
    <3> QED BY <1>0, <2>0, <3>1, <3>2
  <2>3. CASE \E b \in BodyLengths : SendStream(b, {"removal"}) /\ UNCHANGED <<link, idle>>
    <3>1. PICK b \in BodyLengths : SendStream(b, {"removal"}) /\ UNCHANGED <<link, idle>>
      BY <2>3
    <3>2. Sends BY <1>0, <3>1, StreamStep DEF Sends, Causes
    <3> QED BY <1>0, <2>0, <3>1, <3>2
  <2>4. CASE /\ reader' = "garbled" /\ causes' = causes \cup {"refused"} /\ link' = "closed"
             /\ UNCHANGED <<encryptCount, received, idle>>
    BY <1>0, <2>0, <2>4 DEF Garbled
  <2> QED BY <1>4, <2>1, <2>2, <2>3, <2>4 DEF Pairings
<1>5. CASE Stop
  BY <1>0, <1>5 DEF Stop, Quiet, TypeOK
<1> QED BY <1>1, <1>2, <1>3, <1>4, <1>5 DEF ReadFrame

LEMMA EmptySequence ==
  ASSUME NEW S
  PROVE  << >> \in Seq(S)
  OBVIOUS

LEMMA FramesAreFrames ==
  ASSUME TypeOK, NEW r \in Request, NEW frames \in FramesOf(r)
  PROVE  frames \in Seq(Frame) /\ Len(frames) \in Nat
<1>1. \A i \in {0, 1}, head \in Request \cup {None}, body \in 0 .. Content :
        Part(i, head, body) \in Frame
  BY DEF TypeOK, Part, Frame, Content
<1>2. 0 \in 0 .. Content /\ 1 \in 0 .. Content /\ 2 \in 0 .. Content /\ Content = 2
  BY DEF Content
<1>0. \A f, g \in Frame : /\ << f >> \in Seq(Frame) /\ Len(<< f >>) = 1
                           /\ << f, g >> \in Seq(Frame) /\ Len(<< f, g >>) = 2
  OBVIOUS
<1>3. CASE r = "write"
  <2>1. /\ Part(0, r, Content) \in Frame /\ Part(0, r, 0) \in Frame
        /\ Part(1, None, Content) \in Frame /\ Part(0, r, 1) \in Frame
        /\ Part(1, None, Content - 1) \in Frame
    BY <1>1, <1>2
  <2>2. frames \in { << Part(0, r, Content) >>,
                     << Part(0, r, 0), Part(1, None, Content) >>,
                     << Part(0, r, 1), Part(1, None, Content - 1) >> }
    BY <1>3 DEF FramesOf
  <2> QED BY ONLY <1>0, <2>1, <2>2
<1>4. CASE r # "write"
  <2>1. Part(0, r, IF r = "read" THEN 0 ELSE Content) \in Frame BY <1>1, <1>2
  <2>2. frames = << Part(0, r, IF r = "read" THEN 0 ELSE Content) >> BY <1>4 DEF FramesOf
  <2> QED BY ONLY <1>0, <2>1, <2>2
<1> QED BY <1>3, <1>4

(* Type correctness of the channel. *)
THEOREM TypeIsInvariant == Spec => []TypeOK
<1>1. Init => TypeOK
  <2>1. 0 \in 0 .. Wide - 1 BY ChannelAssumption
  <2> SUFFICES ASSUME Init PROVE TypeOK
    OBVIOUS
  <2>2. inbox \in Seq(Frame) /\ wire \in Seq(Frame) BY EmptySequence DEF Init
  <2>3. /\ encryptCount \in 0 .. Wide - 1 /\ decryptCount \in 0 .. Wide - 1
        /\ request \in Request \cup {None} /\ sent \in Nat /\ received \in Nat
        /\ causes \subseteq Causes
    BY <2>1 DEF Init
  <2>4. /\ batch \in BOOLEAN /\ idle \in BOOLEAN /\ waiting \in BOOLEAN
        /\ link \in {"open", "closed", "crashed"} /\ reader \in {"ok", "lost", "garbled"}
    BY DEF Init
  <2> QED BY <2>2, <2>3, <2>4 DEF TypeOK
<1>2. TypeOK /\ [Next]_vars => TypeOK'
  <2> SUFFICES ASSUME TypeOK, [Next]_vars PROVE TypeOK'
    OBVIOUS
  <2>0. Wide \in Nat \ {0} BY ChannelAssumption
  <2>1. CASE Next /\ ReadFrame
    <3>1. /\ Quiet \/ Sends \/ Garbled
          /\ waiting' \in BOOLEAN /\ idle' \in BOOLEAN /\ request' \in Request \cup {None}
          /\ link' \in {"open", "closed"}
      BY <2>1, Handled
    <3>2. /\ encryptCount' \in 0 .. Wide - 1 /\ received' \in Nat
          /\ reader' \in {"ok", "lost", "garbled", "overlong"} /\ causes' \subseteq Causes
      BY <3>1 DEF Quiet, Sends, Garbled, Streamed, TypeOK, Causes
    <3>3. /\ inbox' \in Seq(Frame) /\ wire' \in Seq(Frame) /\ sent' \in Nat
          /\ batch' \in BOOLEAN
      BY <2>1 DEF ReadFrame, TypeOK
    <3>4. decryptCount' \in 0 .. Wide - 1
      <4>1. decryptCount' = (decryptCount + 1) % Wide BY <2>1 DEF ReadFrame, DecryptCountNext
      <4>2. decryptCount + 1 \in Nat BY <2>0 DEF TypeOK
      <4> QED BY <2>0, <4>1, <4>2, Division
    <3> QED BY <3>1, <3>2, <3>3, <3>4 DEF TypeOK
  <2>2. CASE EndBatch BY <2>2 DEF EndBatch, TypeOK, context, controller
  <2>3. CASE StackOverflow BY <2>3 DEF StackOverflow, TypeOK, context, controller
  <2>4. CASE Next /\ SendEvent
    <3>1. PICK b \in BodyLengths : SendStream(b, {}) BY <2>4 DEF SendEvent
    <3>2. Streamed /\ causes' \in SUBSET Causes BY <2>4, <3>1, StreamStep DEF Next
    <3> QED BY <2>4, <3>2 DEF SendEvent, TypeOK, Streamed
  <2>5. CASE Arrive
    <3>1. /\ inbox' \in Seq(Frame) /\ wire' \in Seq(Frame) BY <2>5 DEF Arrive, TypeOK
    <3> QED BY <2>5, <3>1 DEF Arrive, TypeOK, context, controller
  <2>6. ASSUME NEW r \in Request, Ask(r) PROVE TypeOK'
    <3>1. PICK frames \in FramesOf(r) :
            /\ wire' = wire \o frames
            /\ sent' = sent + Len(frames)
            /\ causes' = causes \cup IF Len(frames) > 1 THEN {"split"} ELSE {}
      BY <2>6 DEF Ask
    <3>2. frames \in Seq(Frame) /\ Len(frames) \in Nat BY FramesAreFrames
    <3>3. wire' \in Seq(Frame) /\ sent' \in Nat BY <3>1, <3>2 DEF TypeOK
    <3>4. causes' \subseteq Causes BY <3>1 DEF TypeOK, Causes
    <3> QED BY <2>6, <3>3, <3>4 DEF Ask, TypeOK, context
  <2>7. CASE UNCHANGED vars
    BY <2>7 DEF vars, TypeOK, context, controller
  <2> QED BY <2>1, <2>2, <2>3, <2>4, <2>5, <2>6, <2>7 DEF Next
<1> QED BY <1>1, <1>2, PTL DEF Spec
-----------------------------------------------------------------------------
(* Every step leaves the nonces in step, and the reader garbled or         *)
(* overlong only for the reasons named.                                    *)
ReaderInv == Counted /\ InStepWhileNarrow /\ UnreadableForACause

LEMMA ReaderIsInvariant == Spec => []ReaderInv
<1>1. Init => ReaderInv
  BY DEF Init, ReaderInv, Counted, InStepWhileNarrow, UnreadableForACause
<1>2. TypeOK /\ TypeOK' /\ ReaderInv /\ [Next]_vars => ReaderInv'
  <2> SUFFICES ASSUME TypeOK, TypeOK', ReaderInv, [Next]_vars PROVE ReaderInv'
    OBVIOUS
  <2> USE DEF ReaderInv
  <2>1. CASE Quiet
    BY <2>1 DEF Quiet, Counted, InStepWhileNarrow, UnreadableForACause
  <2>2. CASE Sends
    BY <2>2 DEF Sends, Streamed, InStepWhileNarrow, UnreadableForACause
  <2>3. CASE Garbled
    BY <2>3 DEF Garbled, Counted, InStepWhileNarrow, UnreadableForACause
  <2>4. CASE Next /\ ReadFrame BY <2>1, <2>2, <2>3, <2>4, Handled
  <2>5. CASE EndBatch \/ StackOverflow \/ Arrive \/ UNCHANGED vars
    <3>1. Quiet
      BY <2>5 DEF EndBatch, StackOverflow, Arrive, vars, context, controller, Quiet, TypeOK
    <3> QED BY <2>1, <3>1
  <2>6. CASE Next /\ SendEvent
    <3>1. PICK b \in BodyLengths : SendStream(b, {}) BY <2>6 DEF SendEvent
    <3>2. Sends BY <2>6, <3>1, StreamStep DEF Next, Sends
    <3> QED BY <2>2, <3>2
  <2>7. ASSUME NEW r \in Request, Ask(r) PROVE ReaderInv'
    <3>1. Quiet BY <2>7 DEF Ask, Quiet, context, TypeOK
    <3> QED BY <2>1, <3>1
  <2> QED BY <2>4, <2>5, <2>6, <2>7 DEF Next
<1> QED BY <1>1, <1>2, TypeIsInvariant, PTL DEF Spec

(* The nonces stay in step, for every mix of answers, 204s and events,     *)
(* until the count of HAPPrintEncrypted wraps.                             *)
THEOREM AlwaysInStepWhileNarrow == Spec => []InStepWhileNarrow
<1>1. ReaderInv => InStepWhileNarrow BY DEF ReaderInv
<1> QED BY <1>1, ReaderIsInvariant, PTL

(* For every size of the buffer and of a frame: a body whose length leaves *)
(* room for the terminator can be read, if frames may have any length; a   *)
(* short one can be read even if they may not.                             *)
THEOREM UnreadableOnlyForACause == Spec => []UnreadableForACause
<1>1. ReaderInv => UnreadableForACause BY DEF ReaderInv
<1> QED BY <1>1, ReaderIsInvariant, PTL
-----------------------------------------------------------------------------
(* Until a request is split or the count wraps there is at most one frame  *)
(* under way, it holds a whole request, and its nonce is the one the       *)
(* server expects.                                                         *)
Excused == "split" \in causes \/ sent > Wide
WholeFrame(f) == /\ f.nonce = sent - 1 /\ decryptCount = sent - 1
                 /\ f.head \in Request /\ (f.head = "write" => f.body = Content)
NoneUnderWay == inbox = << >> /\ wire = << >> /\ (sent < Wide => decryptCount = sent)
OneArrived == wire = << >> /\ waiting /\ \E f \in Frame : inbox = << f >> /\ WholeFrame(f)
OneOnWire == inbox = << >> /\ waiting /\ \E f \in Frame : wire = << f >> /\ WholeFrame(f)
Pipe == Excused \/ NoneUnderWay \/ OneArrived \/ OneOnWire
BusyIsIdle == Excused \/ "removal" \in causes \/ (link = "open" /\ batch => idle)
LinkInv == Pipe /\ BusyIsIdle /\ EndsForACause

(* What the handler of a whole request leaves. *)
LEMMA WholeIsHandled ==
  ASSUME TypeOK, Next, ReadFrame, NEW f \in Frame, inbox = << f >>, WholeFrame(f)
  PROVE  /\ causes \subseteq causes'
         /\ link' = "closed" => causes' \cap {"refused", "left"} # {}
         /\ link' \in {"open", "closed"}
         /\ link' = "open" => idle' = TRUE \/ "removal" \in causes'
<1>0. reader = "ok" /\ link = "open" BY DEF Next
<1>1. Head(inbox) = f OBVIOUS
<1>2. Parsed(f) = f.head
  BY DEF WholeFrame, Parsed, Request, None
<1>3. Parsed(f) = "write" => HasBody(f) BY <1>2 DEF WholeFrame, HasBody
<1>4. Get \/ Put \/ Pairings
  BY <1>1, <1>2, <1>3 DEF ReadFrame, WholeFrame, Request
<1>5. CASE Get
  <2>1. PICK b \in BodyLengths : SendStream(b, {}) BY <1>5 DEF Get
  <2>2. causes \subseteq causes' BY <2>1 DEF SendStream
  <2> QED BY <1>0, <1>5, <2>2 DEF Get
<1>6. CASE Put
  <2>1. causes \subseteq causes' BY <1>6 DEF Put, SendStream, Send204
  <2> QED BY <1>0, <1>6, <2>1 DEF Put
<1>7. CASE Pairings
  <2>1. CASE \E b \in BodyLengths : SendStream(b, {}) /\ idle' = TRUE /\ UNCHANGED link
    BY <1>0, <2>1 DEF SendStream
  <2>2. CASE \E b \in BodyLengths :
               SendStream(b, {"left"}) /\ link' = "closed" /\ UNCHANGED idle
    <3>1. causes \subseteq causes' /\ "left" \in causes' BY <2>2 DEF SendStream
    <3> QED BY <2>2, <3>1
  <2>3. CASE \E b \in BodyLengths : SendStream(b, {"removal"}) /\ UNCHANGED <<link, idle>>
    <3>1. causes \subseteq causes' /\ "removal" \in causes' BY <2>3 DEF SendStream
    <3> QED BY <1>0, <2>3, <3>1
  <2>4. CASE /\ reader' = "garbled" /\ causes' = causes \cup {"refused"} /\ link' = "closed"
             /\ UNCHANGED <<encryptCount, received, idle>>
    BY <2>4
  <2> QED BY <1>7, <2>1, <2>2, <2>3, <2>4 DEF Pairings
<1> QED BY <1>4, <1>5, <1>6, <1>7

LEMMA LinkIsInvariant == Spec => []LinkInv
<1>1. Init => LinkInv
  BY DEF Init, LinkInv, Pipe, NoneUnderWay, BusyIsIdle, EndsForACause
<1>2. TypeOK /\ TypeOK' /\ LinkInv /\ [Next]_vars => LinkInv'
  <2> SUFFICES ASSUME TypeOK, TypeOK', LinkInv, [Next]_vars PROVE LinkInv'
    OBVIOUS
  <2>0. /\ Wide \in Nat \ {0} /\ sent \in Nat /\ decryptCount \in Nat /\ sent' \in Nat
        /\ link \in {"open", "closed", "crashed"} /\ inbox \in Seq(Frame) /\ wire \in Seq(Frame)
    BY ChannelAssumption DEF TypeOK
  <2>1. CASE Next /\ ReadFrame
    <3>1. /\ link = "open" /\ inbox # << >> /\ inbox' = Tail(inbox)
          /\ decryptCount' = (decryptCount + 1) % Wide /\ batch' = TRUE
          /\ wire' = wire /\ sent' = sent
      BY <2>1 DEF ReadFrame, DecryptCountNext
    <3>2. causes \subseteq causes' /\ link' \in {"open", "closed"}
      BY <2>1, Handled DEF Quiet, Sends, Garbled
    <3>3. CASE Excused
      <4>1. Excused' BY <3>1, <3>2, <3>3 DEF Excused
      <4> QED BY <3>2, <4>1 DEF Excused, LinkInv, Pipe, BusyIsIdle, EndsForACause
    <3>4. CASE ~ Excused
      <4>1. OneArrived BY <3>1, <3>4 DEF LinkInv, Pipe, NoneUnderWay, OneOnWire
      <4>2. PICK f \in Frame : inbox = << f >> /\ WholeFrame(f) BY <4>1 DEF OneArrived
      <4>3. /\ link' = "closed" => causes' \cap {"refused", "left"} # {}
            /\ link' = "open" => idle' = TRUE \/ "removal" \in causes'
        BY <2>1, <4>2, WholeIsHandled
      <4>4. NoneUnderWay'
        <5>1. inbox' = << >> /\ wire' = << >> BY <3>1, <4>1, <4>2 DEF OneArrived
        <5>2. decryptCount + 1 = sent BY <2>0, <4>2 DEF WholeFrame
        <5>3. sent < Wide => decryptCount' = sent BY <2>0, <3>1, <5>2, Division
        <5> QED BY <3>1, <5>1, <5>3 DEF NoneUnderWay
      <4> QED BY <3>2, <4>3, <4>4 DEF LinkInv, Pipe, BusyIsIdle, EndsForACause
    <3> QED BY <3>3, <3>4
  <2>2. CASE Next /\ (EndBatch \/ StackOverflow)
    <3>1. UNCHANGED <<context, controller, causes, inbox, wire>>
      BY <2>2 DEF EndBatch, StackOverflow
    <3>2. Pipe'
      BY <3>1 DEF LinkInv, Pipe, Excused, NoneUnderWay, OneArrived, OneOnWire, WholeFrame,
                  context, controller
    <3>3. BusyIsIdle' /\ EndsForACause'
      BY <2>2, <3>1 DEF LinkInv, BusyIsIdle, EndsForACause, Excused, EndBatch, StackOverflow,
                        Next, controller
    <3> QED BY <3>2, <3>3 DEF LinkInv
  <2>3. CASE Next /\ SendEvent
    <3>1. PICK b \in BodyLengths : SendStream(b, {}) BY <2>3 DEF SendEvent
    <3>2. causes \subseteq causes' BY <3>1 DEF SendStream
    <3>3. /\ UNCHANGED <<decryptCount, batch, idle, inbox, wire, link, sent, waiting>>
          /\ link = "open"
      BY <2>3 DEF SendEvent
    <3>4. Excused => Excused' BY <3>2, <3>3 DEF Excused
    <3>5. /\ NoneUnderWay => NoneUnderWay'
          /\ OneArrived => OneArrived'
          /\ OneOnWire => OneOnWire'
      BY <3>3 DEF NoneUnderWay, OneArrived, OneOnWire, WholeFrame
    <3>6. Pipe'
      <4>1. Pipe BY DEF LinkInv
      <4> QED BY ONLY <3>4, <3>5, <4>1 DEF Pipe
    <3>7. BusyIsIdle' /\ EndsForACause'
      BY <3>2, <3>3, <3>4 DEF LinkInv, BusyIsIdle, EndsForACause
    <3> QED BY <3>6, <3>7 DEF LinkInv
  <2>4. CASE Next /\ Arrive
    <3>1. /\ wire # << >> /\ inbox' = Append(inbox, Head(wire)) /\ wire' = Tail(wire)
          /\ UNCHANGED <<context, batch, idle, link, controller, causes>>
      BY <2>4 DEF Arrive
    <3>2. Excused => Excused' BY <3>1 DEF Excused, controller
    <3>3. ASSUME ~ Excused PROVE OneArrived'
      <4>1. OneOnWire BY <3>1, <3>3 DEF LinkInv, Pipe, NoneUnderWay, OneArrived
      <4>2. PICK f \in Frame : wire = << f >> /\ WholeFrame(f) BY <4>1 DEF OneOnWire
      <4>3. inbox' = << f >> /\ wire' = << >> BY <3>1, <4>1, <4>2 DEF OneOnWire
      <4> QED BY <3>1, <4>1, <4>2, <4>3 DEF OneArrived, OneOnWire, WholeFrame, context, controller
    <3>4. BusyIsIdle' /\ EndsForACause'
      BY <3>1 DEF LinkInv, BusyIsIdle, EndsForACause, Excused, controller
    <3> QED BY <3>2, <3>3, <3>4 DEF LinkInv, Pipe
  <2>5. ASSUME NEW r \in Request, Next, Ask(r) PROVE LinkInv'
    <3>1. PICK frames \in FramesOf(r) :
            /\ wire' = wire \o frames
            /\ sent' = sent + Len(frames)
            /\ causes' = causes \cup IF Len(frames) > 1 THEN {"split"} ELSE {}
      BY <2>5 DEF Ask
    <3>2. /\ ~ waiting /\ waiting' = TRUE /\ link = "open"
          /\ UNCHANGED <<context, batch, idle, inbox, link>>
      BY <2>5 DEF Ask, Next
    <3>3. frames \in Seq(Frame) /\ Len(frames) \in Nat BY FramesAreFrames
    <3>4. Excused => Excused' BY <2>0, <3>1, <3>3 DEF Excused
    <3>5. ASSUME ~ Excused' PROVE OneOnWire'
      <4>1. NoneUnderWay BY <3>2, <3>4, <3>5 DEF LinkInv, Pipe, OneArrived, OneOnWire
      <4>2. ~ (Len(frames) > 1) BY <3>1, <3>5 DEF Excused
      <4>3. PICK body \in 0 .. Content : /\ frames = << Part(0, r, body) >>
                                         /\ r = "write" => body = Content
        <5>1. Content = 2 BY DEF Content
        <5>2. \A f, g : Len(<< f, g >>) > 1 OBVIOUS
        <5>3. CASE r = "write"
          <6>1. frames = << Part(0, r, Content) >> BY <4>2, <5>2, <5>3 DEF FramesOf
          <6> QED BY <5>1, <6>1
        <5>4. CASE r # "write"
          <6>1. frames = << Part(0, r, IF r = "read" THEN 0 ELSE Content) >>
            BY <5>4 DEF FramesOf
          <6> QED BY <5>1, <5>4, <6>1
        <5> QED BY <5>3, <5>4
      <4>9. Part(0, r, body) \in Frame BY <2>0 DEF Part, Frame, Content
      <4>10. PICK f \in Frame : f = Part(0, r, body) BY <4>9
      <4>4. sent' = sent + 1 /\ wire' = << f >>
        BY <3>1, <4>1, <4>3, <4>10 DEF NoneUnderWay
      <4>5. f.nonce = sent /\ f.head = r /\ f.body = body
        BY <2>0, <4>10 DEF Part
      <4>6. sent < Wide BY <2>0, <3>5, <4>4 DEF Excused
      <4>7. decryptCount' = sent' - 1 BY <2>0, <3>2, <4>1, <4>4, <4>6 DEF NoneUnderWay, context
      <4>8. WholeFrame(f)'
        BY <2>0, <4>3, <4>4, <4>5, <4>7 DEF WholeFrame
      <4> QED BY <3>2, <4>1, <4>4, <4>5, <4>8 DEF OneOnWire, NoneUnderWay
    <3>6. BusyIsIdle' /\ EndsForACause'
      BY <3>1, <3>2, <3>4 DEF LinkInv, BusyIsIdle, EndsForACause
    <3> QED BY <3>5, <3>6 DEF LinkInv, Pipe
  <2>6. CASE UNCHANGED vars
    BY <2>6 DEF vars, context, controller, LinkInv, Pipe, Excused, NoneUnderWay, OneArrived,
                OneOnWire, WholeFrame, BusyIsIdle, EndsForACause
  <2> QED BY <2>1, <2>2, <2>3, <2>4, <2>5, <2>6 DEF Next
<1> QED BY <1>1, <1>2, TypeIsInvariant, PTL DEF Spec

(* A connection ends only because of the peer: a request in several        *)
(* frames, a change of the pairings, or more frames than the count holds.  *)
THEOREM AlwaysEndsForACause == Spec => []EndsForACause
<1>1. LinkInv => EndsForACause BY DEF LinkInv
<1> QED BY <1>1, LinkIsInvariant, PTL
=============================================================================
