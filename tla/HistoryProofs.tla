--------------------------- MODULE HistoryProofs ----------------------------
(***************************************************************************)
(* Proofs about History, for every set of apps, size of the ring and of a  *)
(* batch, and any number of measurements and restarts.  The ring holds     *)
(* consecutive measurements (RingInv), so that an answer is known by its   *)
(* first number, whether it begins with the reference time, and how many   *)
(* measurements were gone when it was made (IsAnswer).                     *)
(***************************************************************************)
EXTENDS History, FiniteSetTheorems, TLAPS

(* The measurements that are no longer in the ring. *)
Base == measured - Len(entries)

RingInv == Base >= 0 /\ \A i \in 1 .. Len(entries) : entries[i] = Base + i

(* An answer from number n on, with r reference times, made when b         *)
(* measurements were gone.                                                 *)
IsAnswer(v, n, r, b) ==
  /\ r < Len(v)
  /\ \A k \in 1 .. Len(v) :
       v[k] = [number |-> n + k - 1, entry |-> IF k <= r THEN RefTime ELSE b + n + k - 1 - r]

(* Such an answer is of measurements there are. *)
Holds(v, n, r, b) == /\ IsAnswer(v, n, r, b)
                     /\ b <= Base /\ n + Len(v) - 1 <= Len(entries) + r

Known(v) == v # << >> => \E n \in Nat \ {0}, r \in {0, 1}, b \in Nat : Holds(v, n, r, b)
ValueInv == Known(value)

TransferInv == transfer => requestedIndex <= Len(entries)

(* What an app asks for is there: the ring never shrinks but in a restart. *)
AskApp(c) == app[c].phase \in {"ready", "asked"} =>
               /\ app[c].address <= Len(entries)
               /\ app[c].address # 0 => app[c].address = app[c].last + 1
AskInv == \A c \in App : AskApp(c)

Begins(c) == app[c].address <= 1
Asked(c) == IF app[c].address = 0 THEN 1 ELSE app[c].address

(* The answer to the request of an app.  At the beginning it has the       *)
(* reference time; later it goes on behind what the app has.               *)
Answers(v, c) ==
  \E r \in {0, 1}, b \in Nat :
    /\ Holds(v, Asked(c), r, b)
    /\ Begins(c) => r = 1 /\ Base - b <= app[c].overwritten
    /\ ~ Begins(c) /\ app[c].clean => r = 0 /\ \A m \in app[c].got : m - app[c].last <= b

Pending(c) == transfer /\ requestedIndex = app[c].address
Answered(c) == ~ transfer /\ ~ restarted /\ Answers(value, c)

AnswerApp(c) == app[c].phase = "asked" /\ ~ app[c].overridden => Pending(c) \/ Answered(c)
AnswerInv == \A c \in App : AnswerApp(c)

(* What an app lacks between its oldest entry and its newest, m, and the   *)
(* numbers the next batch will pass over.                                  *)
Missing(got) == Between(got) \ got
SteadyWhen(got, last, gone, passed) ==
  \E m \in got : /\ \A e \in got : e <= m
                 /\ m - last <= gone
                 /\ Cardinality(Missing(got)) + gone - m + last <= 1 + passed
Steady(a) == SteadyWhen(a.got, a.last, Base, a.overwritten)

CleanApp(c) ==
  /\ ~ restarted /\ app[c].last >= 1
  /\ app[c].last <= Len(entries) \/ Missing(app[c].got) = {}
  /\ app[c].phase # "idle" /\ Begins(c) => Missing(app[c].got) = {}
  /\ (app[c].phase = "asked" /\ Begins(c)) \/ Steady(app[c])

CleanInv == \A c \in App : app[c].clean => CleanApp(c)

HistoryInv == /\ TypeOK /\ RingInv /\ ValueInv /\ TransferInv
              /\ AskInv /\ AnswerInv /\ CleanInv

(* What the assumptions on the constants give, for arithmetic. *)
LEMMA Constants == /\ Capacity \in Nat \ {0} /\ BatchSize \in Nat /\ BatchSize >= 2
                   /\ MaxMeasured \in Nat /\ MaxRestarts \in Nat
  BY HistoryAssumption

(* The fields of what the model keeps of an app. *)
LEMMA AppFields ==
  ASSUME TypeOK, NEW c \in App
  PROVE  /\ app[c] \in AppState
         /\ app[c].phase \in {"idle", "ready", "asked"}
         /\ app[c].address \in Nat /\ app[c].last \in Nat /\ app[c].overwritten \in Nat
         /\ app[c].got \in SUBSET (1 .. MaxMeasured)
         /\ app[c].clean \in BOOLEAN /\ app[c].overridden \in BOOLEAN
  BY DEF TypeOK, AppState
-----------------------------------------------------------------------------
(* A batch that is made for a transfer. *)
LEMMA BatchIsAnswer ==
  ASSUME TypeOK, RingInv, TransferInv, transfer, entries # << >>
  PROVE  /\ First \in 1 .. Len(entries) /\ RefTimes \in {0, 1}
         /\ Base \in Nat /\ Count \in Nat \ {0} /\ Len(entries) \in Nat
         /\ First - 1 + Count <= Len(entries)
         /\ Batch \in Seq(Record) /\ Len(Batch) = Count + RefTimes /\ Len(Batch) <= BatchSize
         /\ IsAnswer(Batch, First, RefTimes, Base)
<1>1. Len(entries) \in Nat \ {0} /\ requestedIndex \in Nat /\ measured \in Nat
  BY Constants DEF TypeOK
<1>2. First \in 1 .. Len(entries)
  BY <1>1 DEF First, TransferInv
<1>3. RefTimes \in {0, 1}
  BY DEF RefTimes
<1>4. Base \in Nat
  BY <1>1 DEF Base, RingInv
<1> DEFINE n == First
           r == RefTimes
<1> HIDE DEF n, r
<1>5. n \in 1 .. Len(entries) /\ r \in {0, 1}
  BY <1>2, <1>3 DEF n, r
<1>6. Count = Lesser(BatchSize - r, Len(entries) - (n - 1))
  BY <1>1, <1>5 DEF Count, n, r
<1>7. /\ Count \in Nat \ {0} /\ n - 1 + Count <= Len(entries) /\ Count <= BatchSize - r
  BY <1>1, <1>5, <1>6, Constants DEF Lesser
<1>8. Batch = [k \in 1 .. Count + r |->
                 [number |-> n + k - 1,
                  entry |-> IF k <= r THEN RefTime ELSE entries[n + k - 1 - r]]]
  BY DEF Batch, n, r
<1> DEFINE l == Count
<1> HIDE DEF l
<1>9. ASSUME NEW k \in 1 .. l + r
      PROVE  /\ [number |-> n + k - 1,
                 entry |-> IF k <= r THEN RefTime ELSE entries[n + k - 1 - r]]
                  = [number |-> n + k - 1,
                     entry |-> IF k <= r THEN RefTime ELSE Base + n + k - 1 - r]
             /\ n + k - 1 \in Nat
             /\ (IF k <= r THEN RefTime ELSE Base + n + k - 1 - r) \in Nat
  <2>1. l \in Nat /\ n - 1 + l <= Len(entries)
    BY <1>7 DEF l
  <2>2. CASE k <= r
    BY <1>5, <2>1, <2>2 DEF RefTime
  <2>3. CASE ~ (k <= r)
    <3>1. n + k - 1 - r \in 1 .. Len(entries)
      BY <1>1, <1>5, <2>1, <2>3
    <3>2. entries[n + k - 1 - r] = Base + (n + k - 1 - r)
      BY <3>1 DEF RingInv
    <3> QED
      BY <1>4, <1>5, <2>1, <2>3, <3>1, <3>2
  <2> QED
    BY <2>2, <2>3
<1>10. l \in Nat /\ l # 0 /\ l + r \in Nat
  BY <1>5, <1>7 DEF l
<1>11. /\ Batch \in Seq(Record) /\ Len(Batch) = l + r
       /\ \A k \in 1 .. l + r : Batch[k] = [number |-> n + k - 1,
             entry |-> IF k <= r THEN RefTime ELSE Base + n + k - 1 - r]
  <2>1. Batch = [k \in 1 .. l + r |->
                   [number |-> n + k - 1,
                    entry |-> IF k <= r THEN RefTime ELSE Base + n + k - 1 - r]]
    BY <1>8, <1>9 DEF l
  <2>2. \A k \in 1 .. l + r :
          [number |-> n + k - 1, entry |-> IF k <= r THEN RefTime ELSE Base + n + k - 1 - r]
            \in Record
    BY <1>9 DEF Record
  <2> QED
    BY <1>10, <2>1, <2>2
<1>12. IsAnswer(Batch, n, r, Base)
  BY <1>5, <1>10, <1>11 DEF IsAnswer
<1>13. Len(Batch) <= BatchSize /\ Len(Batch) = Count + r
  BY <1>5, <1>7, <1>11, Constants DEF l
<1> QED
  BY <1>1, <1>2, <1>3, <1>4, <1>7, <1>11, <1>12, <1>13 DEF n, r

(* An empty answer leaves the value as it is. *)
LEMMA EmptyStored ==
  ASSUME TypeOK
  PROVE  Stored(<< >>) = value
<1>1. value \in Seq(Record)
  BY DEF TypeOK
<1>2. IsPrefix(<< >>, value)
  BY <1>1 DEF IsPrefix
<1> QED
  BY <1>2 DEF Stored

(* A prefix has the first elements of the sequence. *)
LEMMA PrefixElements ==
  ASSUME NEW S, NEW s \in Seq(S), NEW t \in Seq(S), IsPrefix(s, t)
  PROVE  Len(s) <= Len(t) /\ \A k \in 1 .. Len(s) : s[k] = t[k]
<1>1. Len(s) <= Len(t) /\ SubSeq(s, 1, Len(s)) = SubSeq(t, 1, Len(s))
  BY DEF IsPrefix
<1>2. ASSUME NEW k \in 1 .. Len(s) PROVE s[k] = t[k]
  <2>1. SubSeq(s, 1, Len(s))[k] = s[k] /\ SubSeq(t, 1, Len(s))[k] = t[k]
    BY <1>1
  <2> QED
    BY <1>1, <2>1
<1> QED
  BY <1>1, <1>2

(* A transfer leaves an answer to what was asked in the value, also when   *)
(* the value began with it already.                                        *)
LEMMA StoredAnswer ==
  ASSUME TypeOK, RingInv, ValueInv, TransferInv, transfer, entries # << >>,
         NEW v, v = Stored(Batch)
  PROVE  /\ v \in Seq(Record) /\ Len(v) <= BatchSize
         /\ Holds(v, First, RefTimes, Base)
<1>1. /\ First \in Nat \ {0} /\ RefTimes \in {0, 1} /\ Base \in Nat /\ Len(entries) \in Nat
      /\ First - 1 + Count <= Len(entries) /\ Count \in Nat \ {0}
      /\ Batch \in Seq(Record) /\ Len(Batch) = Count + RefTimes /\ Len(Batch) <= BatchSize
      /\ IsAnswer(Batch, First, RefTimes, Base)
  BY BatchIsAnswer
<1>2. value \in Seq(Record) /\ Len(value) <= BatchSize
  BY DEF TypeOK
<1>3. CASE ~ IsPrefix(Batch, value)
  BY <1>1, <1>3 DEF Stored, Holds
<1>4. CASE IsPrefix(Batch, value)
  <2>1. v = value
    BY <1>4 DEF Stored
  <2>2. Len(Batch) <= Len(value) /\ \A k \in 1 .. Len(Batch) : Batch[k] = value[k]
    BY <1>1, <1>2, <1>4, PrefixElements
  <2>3. Len(Batch) >= 1 /\ Len(Batch) >= RefTimes + 1
    BY <1>1
  <2>4. value # << >>
    BY <1>2, <2>2, <2>3
  <2>5. PICK n \in Nat \ {0}, r \in {0, 1}, b \in Nat : Holds(value, n, r, b)
    BY <2>4 DEF ValueInv, Known
  <2> DEFINE f == First
             t == RefTimes
             o == Base
  <2> HIDE DEF f, t, o
  <2>6. f \in Nat \ {0} /\ t \in {0, 1} /\ o \in Nat
    BY <1>1 DEF f, t, o
  <2>7. \A k \in 1 .. Len(Batch) :
          [number |-> f + k - 1, entry |-> IF k <= t THEN RefTime ELSE o + f + k - 1 - t]
          = [number |-> n + k - 1, entry |-> IF k <= r THEN RefTime ELSE b + n + k - 1 - r]
    <3>1. \A k \in 1 .. Len(Batch) : k \in 1 .. Len(value)
      BY <1>1, <1>2, <2>2
    <3> QED
      BY <1>1, <2>2, <2>5, <3>1 DEF Holds, IsAnswer, f, t, o
  <2>8. \A k \in 1 .. Len(Batch) :
          /\ f + k - 1 = n + k - 1
          /\ (IF k <= t THEN RefTime ELSE o + f + k - 1 - t)
             = (IF k <= r THEN RefTime ELSE b + n + k - 1 - r)
    BY <2>7
  <2>9. 1 \in 1 .. Len(Batch) /\ t + 1 \in 1 .. Len(Batch)
    BY <1>1, <2>3 DEF t
  <2>10. f = n
    BY <2>6, <2>8, <2>9
  <2>11. t = r
    <3>1. (IF 1 <= t THEN RefTime ELSE o + f + 1 - 1 - t)
          = (IF 1 <= r THEN RefTime ELSE b + n + 1 - 1 - r)
      BY <2>8, <2>9
    <3> QED
      BY <2>6, <3>1 DEF RefTime
  <2>12. o = b
    <3>1. (IF t + 1 <= t THEN RefTime ELSE o + f + (t + 1) - 1 - t)
          = (IF t + 1 <= r THEN RefTime ELSE b + n + (t + 1) - 1 - r)
      BY <2>8, <2>9
    <3> QED
      BY <2>6, <2>10, <2>11, <3>1
  <2> QED
    BY <1>2, <2>1, <2>5, <2>10, <2>11, <2>12 DEF f, t, o
<1> QED
  BY <1>3, <1>4

(* What a read of the characteristic does to the device. *)
LEMMA ReadDevice ==
  ASSUME TypeOK, RingInv, ValueInv, TransferInv, GetHistoryEntries
  PROVE  /\ value' \in Seq(Record) /\ Len(value') <= BatchSize
         /\ requestedIndex' \in 0 .. Capacity + 1
         /\ Known(value')
         /\ transfer' = FALSE /\ restarted' \in BOOLEAN /\ (restarted' => restarted)
         /\ entries' = entries /\ up' = up
         /\ transfer => ~ restarted' /\ Holds(value', First, RefTimes, Base)
         /\ ~ transfer => value' = value
<1>1. CASE transfer
  <2>1. /\ value' = Stored(Batch) /\ requestedIndex' = First - 1 + Count /\ restarted' = FALSE
        /\ entries # << >> /\ transfer' = FALSE /\ entries' = entries /\ up' = up
    BY <1>1 DEF GetHistoryEntries
  <2>2. /\ First \in 1 .. Len(entries) /\ RefTimes \in {0, 1} /\ Base \in Nat
        /\ Count \in Nat \ {0} /\ First - 1 + Count <= Len(entries) /\ Len(entries) \in Nat
    BY <1>1, <2>1, BatchIsAnswer
  <2>3. /\ value' \in Seq(Record) /\ Len(value') <= BatchSize
        /\ Holds(value', First, RefTimes, Base)
    BY <1>1, <2>1, StoredAnswer
  <2>4. Known(value')
    BY <2>2, <2>3 DEF Known
  <2>5. requestedIndex' \in 0 .. Capacity + 1
    BY <2>1, <2>2, Constants DEF TypeOK
  <2> QED
    BY <1>1, <2>1, <2>3, <2>4, <2>5
<1>2. CASE ~ transfer
  <2>1. /\ value' = Stored(<< >>) /\ requestedIndex' = requestedIndex /\ restarted' = restarted
        /\ transfer' = FALSE /\ entries' = entries /\ up' = up
    BY <1>2 DEF GetHistoryEntries, TypeOK
  <2>2. value' = value
    BY <2>1, EmptyStored
  <2> QED
    BY <1>2, <2>1, <2>2 DEF TypeOK, ValueInv
<1> QED
  BY <1>1, <1>2 DEF TypeOK

(* What an app takes from an answer: an interval of measurements that were *)
(* taken.                                                                  *)
News(v) == { v[k].entry : k \in DOMAIN v } \ {RefTime}

Taken(v, n, r, b) ==
  /\ Len(v) \in Nat \ {0} /\ v[Len(v)].number = n + Len(v) - 1
  /\ v[1].number = n
  /\ n + Len(v) - 1 - r + b <= measured
  /\ News(v) = (b + n) .. (b + n + Len(v) - 1 - r)

LEMMA AnswerEntries ==
  ASSUME TypeOK, RingInv, NEW v \in Seq(Record),
         NEW n \in Nat \ {0}, NEW r \in {0, 1}, NEW b \in Nat, Holds(v, n, r, b)
  PROVE  Taken(v, n, r, b)
<1>1. /\ Len(v) \in Nat /\ r < Len(v) /\ DOMAIN v = 1 .. Len(v)
      /\ \A k \in 1 .. Len(v) :
           v[k] = [number |-> n + k - 1, entry |-> IF k <= r THEN RefTime ELSE b + n + k - 1 - r]
      /\ b <= Base /\ n + Len(v) - 1 <= Len(entries) + r
  BY DEF Holds, IsAnswer
<1>2. \A k \in 1 .. Len(v) : /\ v[k].number = n + k - 1
                             /\ v[k].entry = IF k <= r THEN RefTime ELSE b + n + k - 1 - r
  BY <1>1
<1>3. 1 \in 1 .. Len(v) /\ Len(v) \in 1 .. Len(v)
  BY <1>1
<1>4. n + Len(v) - 1 - r + b <= measured
  BY <1>1, Constants DEF Base, TypeOK
<1>5. News(v) = { b + n + k - 1 - r : k \in (r + 1) .. Len(v) }
  <2>1. ASSUME NEW k \in DOMAIN v, v[k].entry # RefTime
        PROVE  k \in (r + 1) .. Len(v) /\ v[k].entry = b + n + k - 1 - r
    <3>1. k \in 1 .. Len(v)
      BY <1>1
    <3>2. v[k].entry = IF k <= r THEN RefTime ELSE b + n + k - 1 - r
      BY <1>2, <3>1
    <3>3. ~ (k <= r)
      BY <2>1, <3>2
    <3> QED
      BY <1>1, <3>1, <3>2, <3>3
  <2>2. ASSUME NEW k \in (r + 1) .. Len(v)
        PROVE  k \in DOMAIN v /\ v[k].entry = b + n + k - 1 - r /\ v[k].entry # RefTime
    BY <1>1, <1>2 DEF RefTime
  <2> QED
    BY <2>1, <2>2 DEF News
<1>6. { b + n + k - 1 - r : k \in (r + 1) .. Len(v) } = (b + n) .. (b + n + Len(v) - 1 - r)
  <2> DEFINE l == Len(v)
  <2> HIDE DEF l
  <2>1. l \in Nat
    BY <1>1 DEF l
  <2>2. ASSUME NEW x \in (b + n) .. (b + n + l - 1 - r)
        PROVE  \E k \in (r + 1) .. l : x = b + n + k - 1 - r
    <3>1. x - b - n + 1 + r \in (r + 1) .. l
      BY <2>1
    <3>2. x = b + n + (x - b - n + 1 + r) - 1 - r
      BY <2>1
    <3> QED
      BY <3>1, <3>2
  <2>3. ASSUME NEW k \in (r + 1) .. l
        PROVE  b + n + k - 1 - r \in (b + n) .. (b + n + l - 1 - r)
    BY <2>1
  <2>4. { b + n + k - 1 - r : k \in (r + 1) .. l } = (b + n) .. (b + n + l - 1 - r)
    BY <2>2, <2>3
  <2> QED
    BY <2>4 DEF l
<1>7. Len(v) \in Nat \ {0} /\ v[Len(v)].number = n + Len(v) - 1
  BY <1>1, <1>2, <1>3
<1>8. v[1].number = n
  BY <1>2, <1>3
<1> QED
  BY ONLY <1>4, <1>5, <1>6, <1>7, <1>8 DEF Taken

(* What an app reads for its answer is the answer to its request, unless   *)
(* another connection wrote an address since.                              *)
LEMMA AnswerIsRead ==
  ASSUME HistoryInv, GetHistoryEntries, NEW c \in App,
         app[c].phase = "asked", ~ app[c].overridden
  PROVE  Answers(value', c) /\ transfer' = FALSE /\ ~ restarted'
<1>1. /\ TypeOK /\ RingInv /\ ValueInv /\ TransferInv
      /\ Pending(c) \/ Answered(c)
  BY DEF HistoryInv, AnswerInv, AnswerApp
<1>2. /\ app[c].address \in Nat /\ app[c].last \in Nat /\ app[c].overwritten \in Nat
      /\ app[c].got \in SUBSET (1 .. MaxMeasured)
  BY <1>1, AppFields
<1>3. CASE Answered(c)
  BY <1>1, <1>3, ReadDevice DEF Answered
<1>4. CASE Pending(c)
  <2>1. transfer /\ requestedIndex = app[c].address
    BY <1>4 DEF Pending
  <2>2. /\ Holds(value', First, RefTimes, Base) /\ transfer' = FALSE /\ ~ restarted'
        /\ entries # << >>
    BY <1>1, <2>1, ReadDevice DEF GetHistoryEntries
  <2>3. RefTimes \in {0, 1} /\ Base \in Nat
    BY <1>1, <2>1, <2>2, BatchIsAnswer
  <2>4. First = Asked(c)
    BY <2>1 DEF First, Asked
  <2>5. Begins(c) => RefTimes = 1 /\ Base - Base <= app[c].overwritten
    BY <1>2, <2>1, <2>3 DEF Begins, RefTimes, First
  <2>6. ASSUME ~ Begins(c), app[c].clean
        PROVE  RefTimes = 0 /\ \A m \in app[c].got : m - app[c].last <= Base
    <3>1. ~ restarted /\ Steady(app[c])
      BY <2>6 DEF HistoryInv, CleanInv, CleanApp
    <3>2. RefTimes = 0
      BY <1>2, <2>1, <2>6, <3>1 DEF RefTimes, First, Begins
    <3>3. PICK m \in app[c].got : (\A e \in app[c].got : e <= m) /\ m - app[c].last <= Base
      BY <3>1 DEF Steady, SteadyWhen
    <3>4. ASSUME NEW e \in app[c].got PROVE e - app[c].last <= Base
      <4>1. e \in Int /\ m \in Int /\ e <= m
        BY <1>2, <3>3, Constants
      <4> QED
        BY <1>2, <2>3, <3>3, <4>1
    <3> QED
      BY <3>2, <3>4
  <2>7. Answers(value', c)
    BY <2>2, <2>3, <2>4, <2>5, <2>6 DEF Answers
  <2> QED
    BY <2>2, <2>7
<1> QED
  BY <1>1, <1>3, <1>4
-----------------------------------------------------------------------------
(* Append, element by element. *)
LEMMA AppendFacts ==
  ASSUME NEW S, NEW s \in Seq(S), NEW e \in S, NEW t, t = Append(s, e)
  PROVE  /\ t \in Seq(S) /\ Len(t) = Len(s) + 1 /\ t[Len(s) + 1] = e
         /\ \A i \in 1 .. Len(s) : t[i] = s[i]
  OBVIOUS

(* Tail, element by element. *)
LEMMA TailFacts ==
  ASSUME NEW S, NEW s \in Seq(S), s # << >>, NEW t, t = Tail(s)
  PROVE  /\ t \in Seq(S) /\ Len(t) = Len(s) - 1
         /\ \A i \in 1 .. Len(t) : t[i] = s[i + 1]
  OBVIOUS

(* The ring after a measurement: one more, the oldest one gone if full. *)
LEMMA RoomFacts ==
  ASSUME TypeOK, RingInv, AddEntry
  PROVE  /\ entries' \in Seq(1 .. MaxMeasured) /\ Len(entries') <= Capacity
         /\ Len(entries') = Len(entries) + IF isFull THEN 0 ELSE 1
         /\ Base' = Base + IF isFull THEN 1 ELSE 0
         /\ Base' >= 0
         /\ \A i \in 1 .. Len(entries') : entries'[i] = Base' + i
<1>1. /\ entries \in Seq(1 .. MaxMeasured) /\ Len(entries) \in Nat /\ Len(entries) <= Capacity
      /\ measured \in Nat /\ measured + 1 \in 1 .. MaxMeasured
  BY Constants DEF TypeOK, AddEntry
<1>2. Base = measured - Len(entries) /\ Base' = measured' - Len(entries')
  BY DEF Base
<1>3. measured' = measured + 1 /\ entries' = Append(Room, measured + 1)
  BY DEF AddEntry
<1>4. Base >= 0 /\ \A i \in 1 .. Len(entries) : entries[i] = Base + i
  BY DEF RingInv
<1>5. CASE isFull
  <2>1. entries # << >> /\ Len(entries) = Capacity
    BY <1>1, <1>5, Constants DEF isFull
  <2> DEFINE t == Tail(entries)
  <2>2. /\ t \in Seq(1 .. MaxMeasured) /\ Len(t) = Len(entries) - 1
        /\ \A i \in 1 .. Len(t) : t[i] = entries[i + 1]
    BY ONLY <1>1, <2>1, TailFacts
  <2>3. entries' = Append(t, measured + 1)
    BY <1>3, <1>5 DEF Room
  <2> HIDE DEF t
  <2>4. /\ entries' \in Seq(1 .. MaxMeasured) /\ Len(entries') = Len(t) + 1
        /\ entries'[Len(t) + 1] = measured + 1
        /\ \A i \in 1 .. Len(t) : entries'[i] = t[i]
    BY ONLY <1>1, <2>2, <2>3, AppendFacts
  <2>5. Len(entries') = Len(entries) /\ Base' = Base + 1
    <3>1. Len(entries') = Len(t) + 1 /\ Len(t) = Len(entries) - 1 /\ Len(entries) \in Nat
      BY <1>1, <2>2, <2>4
    <3>2. Len(entries') = Len(entries)
      BY ONLY <3>1
    <3>3. measured' = measured + 1 /\ measured \in Nat
      BY <1>1, <1>3
    <3> QED
      BY ONLY <1>2, <3>1, <3>2, <3>3
  <2>6. ASSUME NEW i \in 1 .. Len(entries) PROVE entries'[i] = Base + 1 + i
    <3>1. CASE i = Len(entries)
      <4>1. entries'[i] = measured + 1
        BY ONLY <1>1, <2>2, <2>4, <3>1
      <4> QED
        BY ONLY <1>1, <1>2, <3>1, <4>1
    <3>2. CASE i # Len(entries)
      <4>1. i \in 1 .. Len(t) /\ i + 1 \in 1 .. Len(entries)
        BY ONLY <1>1, <2>2, <2>6, <3>2
      <4>2. entries'[i] = entries[i + 1] /\ entries[i + 1] = Base + (i + 1)
        BY ONLY <1>4, <2>2, <2>4, <4>1
      <4> QED
        BY ONLY <1>1, <1>2, <4>1, <4>2
    <3> QED
      BY <3>1, <3>2
  <2>7. \A i \in 1 .. Len(entries') : entries'[i] = Base' + i
    BY ONLY <2>5, <2>6
  <2> QED
    BY ONLY <1>1, <1>2, <1>4, <1>5, <2>4, <2>5, <2>7
<1>6. CASE ~ isFull
  <2>1. entries' = Append(entries, measured + 1) /\ Len(entries) # Capacity
    BY <1>3, <1>6 DEF Room, isFull
  <2>2. /\ entries' \in Seq(1 .. MaxMeasured) /\ Len(entries') = Len(entries) + 1
        /\ entries'[Len(entries) + 1] = measured + 1
        /\ \A i \in 1 .. Len(entries) : entries'[i] = entries[i]
    BY ONLY <1>1, <2>1, AppendFacts
  <2>3. Base' = Base
    BY ONLY <1>1, <1>2, <1>3, <2>2
  <2>4. ASSUME NEW i \in 1 .. Len(entries) + 1 PROVE entries'[i] = Base + i
    <3>1. CASE i = Len(entries) + 1
      BY ONLY <1>1, <1>2, <2>2, <3>1
    <3>2. CASE i # Len(entries) + 1
      <4>1. i \in 1 .. Len(entries)
        BY ONLY <1>1, <2>4, <3>2
      <4> QED
        BY ONLY <1>4, <2>2, <4>1
    <3> QED
      BY <3>1, <3>2
  <2>5. \A i \in 1 .. Len(entries') : entries'[i] = Base' + i
    BY ONLY <2>2, <2>3, <2>4
  <2>6. Len(entries') <= Capacity
    BY ONLY <1>1, <2>1, <2>2, Constants
  <2> QED
    BY ONLY <1>1, <1>2, <1>4, <1>6, <2>2, <2>3, <2>5, <2>6
<1> QED
  BY <1>5, <1>6
-----------------------------------------------------------------------------
(* What a step keeps in which the ring does not shrink. *)
Grows == /\ Base \in Nat /\ Base' \in Nat /\ Base <= Base'
         /\ Len(entries) \in Nat /\ Len(entries') \in Nat /\ Len(entries) <= Len(entries')

(* The ring unchanged. *)
LEMMA SameGrows ==
  ASSUME TypeOK, RingInv, entries' = entries, measured' = measured
  PROVE  Grows /\ Base' = Base /\ RingInv'
<1>1. Base \in Nat /\ Len(entries) \in Nat
  BY Constants DEF TypeOK, RingInv, Base
<1>2. Base' = Base
  BY DEF Base
<1> QED
  BY <1>1, <1>2 DEF Grows, RingInv

(* What the value holds stays true while the ring does not shrink. *)
LEMMA HoldsKept ==
  ASSUME Grows, value' \in Seq(Record),
         NEW n \in Nat \ {0}, NEW r \in {0, 1}, NEW b \in Nat, Holds(value', n, r, b)
  PROVE  Holds(value, n, r, b)'
<1>1. b <= Base /\ n + Len(value') - 1 <= Len(entries) + r /\ IsAnswer(value', n, r, b)
  BY DEF Holds
<1>2. /\ Base \in Nat /\ Base' \in Nat /\ Base <= Base'
      /\ Len(entries) \in Nat /\ Len(entries') \in Nat /\ Len(entries) <= Len(entries')
  BY DEF Grows
<1>3. Len(value') \in Nat
  OBVIOUS
<1>4. b <= Base' /\ n + Len(value') - 1 <= Len(entries') + r
  BY ONLY <1>1, <1>2, <1>3
<1>5. IsAnswer(value, n, r, b)'
  BY <1>1 DEF IsAnswer
<1> QED
  BY <1>4, <1>5 DEF Holds

(* So the value stays an answer of measurements there are. *)
LEMMA ValueKept ==
  ASSUME Grows, value' \in Seq(Record), Known(value')
  PROVE  ValueInv'
<1> SUFFICES ASSUME value' # << >>
             PROVE  \E n \in Nat \ {0}, r \in {0, 1}, b \in Nat : Holds(value, n, r, b)'
  BY DEF ValueInv, Known
<1>1. PICK n \in Nat \ {0}, r \in {0, 1}, b \in Nat : Holds(value', n, r, b)
  BY DEF Known
<1> QED
  BY <1>1, HoldsKept

(* An answer stays the answer of an app while measurements are added: as   *)
(* many entries count as overwritten as the ring loses.                    *)
LEMMA AnswersKept ==
  ASSUME TypeOK, Grows, value' \in Seq(Record), NEW c \in App, Answers(value', c),
         app'[c].address = app[c].address, app'[c].last = app[c].last,
         app'[c].got = app[c].got, app'[c].clean = app[c].clean,
         app'[c].overwritten \in Nat,
         Base' - Base <= app'[c].overwritten - app[c].overwritten
  PROVE  Answers(value, c)'
<1>1. /\ app[c].address \in Nat /\ app[c].overwritten \in Nat
      /\ app[c].last \in Nat
  BY AppFields
<1>2. PICK r \in {0, 1}, b \in Nat :
        /\ Holds(value', Asked(c), r, b)
        /\ Begins(c) => r = 1 /\ Base - b <= app[c].overwritten
        /\ ~ Begins(c) /\ app[c].clean => r = 0 /\ \A m \in app[c].got : m - app[c].last <= b
  BY DEF Answers
<1>3. Asked(c) \in Nat \ {0} /\ Asked(c)' = Asked(c) /\ Begins(c)' = Begins(c)
  BY <1>1 DEF Asked, Begins
<1>4. Holds(value, Asked(c), r, b)'
  <2>1. PICK n \in Nat \ {0} : n = Asked(c)
    BY <1>3
  <2>2. Holds(value, n, r, b)'
    BY <1>2, <2>1, HoldsKept
  <2> QED
    BY <1>3, <2>1, <2>2 DEF Holds, IsAnswer
<1>5. Begins(c) => r = 1 /\ Base' - b <= app'[c].overwritten
  BY <1>1, <1>2 DEF Grows
<1>6. ~ Begins(c) /\ app'[c].clean => r = 0 /\ \A m \in app'[c].got : m - app'[c].last <= b
  BY <1>2
<1> QED
  BY <1>3, <1>4, <1>5, <1>6 DEF Answers

(* What is missing can be counted. *)
LEMMA MissingFinite ==
  ASSUME NEW got \in SUBSET (1 .. MaxMeasured)
  PROVE  /\ IsFiniteSet(Missing(got)) /\ Cardinality(Missing(got)) \in Nat
         /\ Missing(got) = {} => Cardinality(Missing(got)) = 0
<1>1. IsFiniteSet(1 .. MaxMeasured)
  BY Constants, FS_Interval
<1>2. Missing(got) \subseteq 1 .. MaxMeasured
  BY DEF Missing, Between
<1> QED
  BY <1>1, <1>2, FS_Subset, FS_CardinalityType, FS_EmptySet

(* What an app lacks, likewise. *)
LEMMA SteadyKept ==
  ASSUME TypeOK, Grows, NEW c \in App, Steady(app[c]),
         app'[c].last = app[c].last, app'[c].got = app[c].got,
         app'[c].overwritten \in Nat,
         Base' - Base <= app'[c].overwritten - app[c].overwritten
  PROVE  Steady(app[c])'
<1>1. /\ app[c].got \in SUBSET (1 .. MaxMeasured) /\ app[c].last \in Nat
      /\ app[c].overwritten \in Nat
  BY AppFields
<1>2. PICK m \in app[c].got :
        /\ \A e \in app[c].got : e <= m
        /\ m - app[c].last <= Base
        /\ Cardinality(Missing(app[c].got)) + Base - m + app[c].last <= 1 + app[c].overwritten
  BY DEF Steady, SteadyWhen
<1>3. m \in Nat /\ Cardinality(Missing(app[c].got)) \in Nat
  BY <1>1, Constants, MissingFinite
<1>4. Missing(app[c].got)' = Missing(app[c].got)
  BY DEF Missing, Between
<1>5. /\ m - app[c].last <= Base'
      /\ Cardinality(Missing(app[c].got)) + Base' - m + app[c].last <= 1 + app'[c].overwritten
  <2>1. PICK k \in Nat : k = Cardinality(Missing(app[c].got))
    BY <1>3
  <2>2. m - app[c].last <= Base /\ k + Base - m + app[c].last <= 1 + app[c].overwritten
    BY <1>2, <2>1
  <2>3. Base \in Nat /\ Base' \in Nat /\ Base <= Base'
    BY DEF Grows
  <2>4. /\ app'[c].overwritten \in Nat
        /\ Base' - Base <= app'[c].overwritten - app[c].overwritten
    OBVIOUS
  <2>5. m - app[c].last <= Base' /\ k + Base' - m + app[c].last <= 1 + app'[c].overwritten
    BY ONLY <1>1, <1>3, <2>2, <2>3, <2>4
  <2> QED
    BY <2>1, <2>5
<1>6. /\ m \in app'[c].got /\ \A e \in app'[c].got : e <= m
      /\ m - app'[c].last <= Base'
      /\ Cardinality(Missing(app'[c].got)) + Base' - m + app'[c].last <= 1 + app'[c].overwritten
  BY <1>2, <1>5
<1> QED
  BY <1>6 DEF Steady, SteadyWhen, Missing, Between

(* An app for which nothing but the overwritten entries and the override   *)
(* changed stays as good as it was.                                        *)
LEMMA CleanKept ==
  ASSUME TypeOK, Grows, NEW c \in App, CleanApp(c), restarted' => restarted,
         app'[c].phase = app[c].phase, app'[c].address = app[c].address,
         app'[c].last = app[c].last, app'[c].got = app[c].got,
         app'[c].overwritten \in Nat,
         Base' - Base <= app'[c].overwritten - app[c].overwritten
  PROVE  CleanApp(c)'
<1>1. app[c].last \in Nat
  BY AppFields
<1>2. Missing(app[c].got)' = Missing(app[c].got) /\ Begins(c)' = Begins(c)
  BY DEF Missing, Between, Begins
<1>3. Steady(app[c]) => Steady(app[c])'
  BY SteadyKept
<1>4. app[c].last <= Len(entries) => app'[c].last <= Len(entries')
  BY <1>1 DEF Grows
<1>5. ~ restarted' /\ app'[c].last >= 1
  BY DEF CleanApp
<1>6. app'[c].last <= Len(entries') \/ Missing(app[c].got)' = {}
  BY <1>2, <1>4 DEF CleanApp
<1>7. app'[c].phase # "idle" /\ Begins(c)' => Missing(app[c].got)' = {}
  BY <1>2 DEF CleanApp
<1>8. (app'[c].phase = "asked" /\ Begins(c)') \/ Steady(app[c])'
  BY <1>2, <1>3 DEF CleanApp
<1> QED
  BY <1>5, <1>6, <1>7, <1>8 DEF CleanApp

(* What the invariant says of one app. *)
AppInv(c) == AskApp(c) /\ AnswerApp(c) /\ (app[c].clean => CleanApp(c))

(* The same fields but for those two, and still the request of the app or  *)
(* its answer.                                                             *)
SameApp(c) ==
  /\ app'[c].phase = app[c].phase /\ app'[c].address = app[c].address
  /\ app'[c].last = app[c].last /\ app'[c].got = app[c].got
  /\ app'[c].clean = app[c].clean
  /\ app'[c].overwritten \in Nat
  /\ Base' - Base <= app'[c].overwritten - app[c].overwritten

LEMMA AppKept ==
  ASSUME HistoryInv, Grows, value' \in Seq(Record), restarted' => restarted,
         NEW c \in App, SameApp(c),
         app[c].phase = "asked" /\ ~ app'[c].overridden =>
           \/ Pending(c)'
           \/ ~ transfer' /\ ~ restarted' /\ Answers(value', c)
  PROVE  AppInv(c)'
<1>1. /\ TypeOK /\ AskApp(c) /\ (app[c].clean => CleanApp(c))
  BY DEF HistoryInv, AskInv, CleanInv
<1>2. /\ app'[c].phase = app[c].phase /\ app'[c].address = app[c].address
      /\ app'[c].last = app[c].last /\ app'[c].got = app[c].got
      /\ app'[c].clean = app[c].clean
      /\ app'[c].overwritten \in Nat
      /\ Base' - Base <= app'[c].overwritten - app[c].overwritten
  BY DEF SameApp
<1>3. app[c].address \in Nat
  BY <1>1, AppFields
<1>4. AskApp(c)'
  BY <1>1, <1>2, <1>3 DEF AskApp, Grows
<1>5. AnswerApp(c)'
  <2>1. Answers(value', c) => Answers(value, c)'
    BY <1>1, <1>2, AnswersKept
  <2> QED
    BY <1>2, <2>1 DEF AnswerApp, Answered
<1>6. app[c].clean => CleanApp(c)'
  BY <1>1, <1>2, CleanKept
<1> QED
  BY <1>2, <1>4, <1>5, <1>6 DEF AppInv

(* In a step that leaves the device alone, what was asked stays asked. *)
LEMMA DeviceSame ==
  ASSUME HistoryInv, UNCHANGED <<value, transfer, requestedIndex, restarted>>, NEW c \in App,
         SameApp(c), app[c].overridden => app'[c].overridden
  PROVE  app[c].phase = "asked" /\ ~ app'[c].overridden =>
           \/ Pending(c)'
           \/ ~ transfer' /\ ~ restarted' /\ Answers(value', c)
<1>1. AnswerApp(c)
  BY DEF HistoryInv, AnswerInv
<1>2. app'[c].address = app[c].address
  BY DEF SameApp
<1> QED
  BY <1>1, <1>2 DEF AnswerApp, Answered, Pending
-----------------------------------------------------------------------------
LEMMA InvOfParts ==
  ASSUME TypeOK', RingInv', ValueInv', TransferInv', \A c \in App : AppInv(c)'
  PROVE  HistoryInv'
  BY DEF HistoryInv, AskInv, AnswerInv, CleanInv, AppInv

(* The steps, one by one. *)
LEMMA AddEntryStep ==
  ASSUME HistoryInv, AddEntry
  PROVE  HistoryInv'
<1>1. TypeOK /\ RingInv /\ ValueInv /\ TransferInv
  BY DEF HistoryInv
<1>2. /\ entries' \in Seq(1 .. MaxMeasured) /\ Len(entries') <= Capacity
      /\ Len(entries') = Len(entries) + IF isFull THEN 0 ELSE 1
      /\ Base' = Base + IF isFull THEN 1 ELSE 0
      /\ Base' >= 0
      /\ \A i \in 1 .. Len(entries') : entries'[i] = Base' + i
  BY <1>1, RoomFacts
<1>3. /\ measured \in Nat /\ measured < MaxMeasured /\ measured' = measured + 1
      /\ UNCHANGED <<requestedIndex, transfer, restarted, value, up, restarts>>
      /\ app' = [c \in App |-> [app[c] EXCEPT !.overwritten = @ + IF isFull THEN 1 ELSE 0]]
  BY <1>1, Constants DEF AddEntry, TypeOK
<1>4. Grows
  BY <1>1, <1>2, Constants DEF Grows, TypeOK, RingInv, Base
<1>5. ASSUME NEW c \in App
      PROVE  SameApp(c) /\ app'[c].overridden = app[c].overridden /\ app'[c] \in AppState
  <2>1. app[c] \in AppState /\ app[c].overwritten \in Nat
    BY <1>1, AppFields
  <2>2. app'[c] = [app[c] EXCEPT !.overwritten = @ + IF isFull THEN 1 ELSE 0]
    BY <1>3
  <2>3. /\ app'[c].phase = app[c].phase /\ app'[c].address = app[c].address
        /\ app'[c].last = app[c].last /\ app'[c].got = app[c].got
        /\ app'[c].clean = app[c].clean /\ app'[c].overridden = app[c].overridden
        /\ app'[c].overwritten = app[c].overwritten + IF isFull THEN 1 ELSE 0
        /\ app'[c] \in AppState
    BY <2>1, <2>2 DEF AppState
  <2> QED
    BY <1>2, <1>4, <2>1, <2>3 DEF SameApp, Grows
<1>6. TypeOK'
  <2>1. app' \in [App -> AppState]
    BY <1>3, <1>5
  <2> QED
    BY <1>1, <1>2, <1>3, <2>1, Constants DEF TypeOK
<1>7. RingInv'
  BY <1>2 DEF RingInv
<1>8. ValueInv'
  BY <1>1, <1>3, <1>4, ValueKept DEF ValueInv, TypeOK
<1>9. TransferInv'
  BY <1>1, <1>3, <1>4 DEF TransferInv, Grows, TypeOK
<1>10. ASSUME NEW c \in App PROVE AppInv(c)'
  BY <1>1, <1>3, <1>4, <1>5, AppKept, DeviceSame DEF TypeOK
<1> QED
  BY <1>6, <1>7, <1>8, <1>9, <1>10, InvOfParts

(* A step that leaves the device alone keeps the parts about it. *)
LEMMA DeviceKept ==
  ASSUME HistoryInv, UNCHANGED <<entries, requestedIndex, transfer, restarted, value, measured>>
  PROVE  /\ Grows /\ Base' = Base /\ value' \in Seq(Record)
         /\ RingInv' /\ ValueInv' /\ TransferInv'
<1>1. TypeOK /\ RingInv /\ ValueInv /\ TransferInv
  BY DEF HistoryInv
<1>2. Grows /\ Base' = Base /\ RingInv'
  BY <1>1, SameGrows
<1>3. value' \in Seq(Record) /\ Known(value')
  BY <1>1 DEF TypeOK, ValueInv
<1>4. ValueInv'
  BY <1>2, <1>3, ValueKept
<1>5. TransferInv'
  BY <1>1 DEF TransferInv
<1> QED
  BY <1>2, <1>3, <1>4, <1>5

LEMMA UnchangedApp ==
  ASSUME TypeOK, NEW c \in App, app'[c] = app[c], Base \in Nat, Base' = Base
  PROVE  SameApp(c)
  BY AppFields DEF SameApp

LEMMA AppInfoStep ==
  ASSUME HistoryInv, NEW c \in App, AppInfo(c)
  PROVE  HistoryInv'
<1>1. TypeOK /\ RingInv /\ (app[c].clean => CleanApp(c))
  BY DEF HistoryInv, CleanInv
<1>2. /\ app[c].phase = "idle" /\ Len(entries) # app[c].last
      /\ UNCHANGED <<entries, requestedIndex, transfer, restarted, value, up>>
      /\ UNCHANGED <<measured, restarts>>
      /\ app' = [app EXCEPT ![c].phase = "ready",
                            ![c].address = IF Len(entries) < app[c].last THEN 0
                                           ELSE app[c].last + 1]
  BY DEF AppInfo, device
<1>3. /\ Grows /\ Base' = Base /\ value' \in Seq(Record)
      /\ RingInv' /\ ValueInv' /\ TransferInv'
  BY <1>2, DeviceKept
<1>4. /\ app[c] \in AppState /\ app[c].last \in Nat /\ app[c].overwritten \in Nat
      /\ Len(entries) \in Nat /\ Base \in Nat
  BY <1>1, <1>3, AppFields DEF Grows
<1>5. /\ app'[c] \in AppState
      /\ app'[c].phase = "ready" /\ app'[c].last = app[c].last /\ app'[c].got = app[c].got
      /\ app'[c].clean = app[c].clean /\ app'[c].overwritten = app[c].overwritten
      /\ app'[c].address = IF Len(entries) < app[c].last THEN 0 ELSE app[c].last + 1
  <2>1. PICK n \in Nat : n = IF Len(entries) < app[c].last THEN 0 ELSE app[c].last + 1
    BY <1>4
  <2>2. app'[c] = [app[c] EXCEPT !.phase = "ready", !.address = n]
    BY <1>1, <1>2, <2>1 DEF TypeOK
  <2> QED
    BY <1>4, <2>1, <2>2 DEF AppState
<1>6. TypeOK'
  <2>1. app' \in [App -> AppState]
    BY <1>1, <1>2, <1>5 DEF TypeOK
  <2> QED
    BY <1>1, <1>2, <2>1 DEF TypeOK
<1>7. ASSUME NEW d \in App, d # c PROVE AppInv(d)'
  <2>1. app'[d] = app[d]
    BY <1>1, <1>2, <1>7 DEF TypeOK
  <2>2. SameApp(d)
    BY <1>1, <1>3, <1>4, <2>1, UnchangedApp
  <2> QED
    BY <1>2, <1>3, <2>1, <2>2, AppKept, DeviceSame
<1>8. AppInv(c)'
  <2>1. AskApp(c)'
    BY <1>2, <1>4, <1>5 DEF AskApp
  <2>2. AnswerApp(c)'
    BY <1>5 DEF AnswerApp
  <2>3. ASSUME app[c].clean PROVE CleanApp(c)'
    <3>1. /\ ~ restarted /\ app[c].last >= 1 /\ Steady(app[c])
          /\ app[c].last <= Len(entries) \/ Missing(app[c].got) = {}
      BY <1>1, <1>2, <2>3 DEF CleanApp
    <3>2. Steady(app[c])'
      BY <1>1, <1>3, <1>4, <1>5, <3>1, SteadyKept
    <3>3. Begins(c)' => Missing(app[c].got) = {}
      BY <1>4, <1>5, <3>1 DEF Begins
    <3>4. Missing(app[c].got)' = Missing(app[c].got)
      BY <1>5 DEF Missing, Between
    <3> QED
      BY <1>2, <1>5, <3>1, <3>2, <3>3, <3>4 DEF CleanApp
  <2> QED
    BY <1>5, <2>1, <2>2, <2>3 DEF AppInv
<1> QED
  BY <1>3, <1>6, <1>7, <1>8, InvOfParts

LEMMA AppAskStep ==
  ASSUME HistoryInv, NEW c \in App, AppAsk(c)
  PROVE  HistoryInv'
<1>1. /\ TypeOK /\ RingInv /\ ValueInv /\ AskApp(c) /\ (app[c].clean => CleanApp(c))
  BY DEF HistoryInv, AskInv, CleanInv
<1>2. /\ app[c].phase = "ready"
      /\ requestedIndex' = app[c].address /\ transfer' = TRUE
      /\ UNCHANGED <<entries, restarted, value, up>> /\ UNCHANGED <<measured, restarts>>
      /\ app' = [d \in App |->
           IF d # c THEN [app[d] EXCEPT !.overridden = TRUE]
           ELSE [app[c] EXCEPT !.phase = "asked", !.overridden = FALSE,
                               !.overwritten = IF app[c].address <= 1 THEN 0 ELSE @]]
  BY DEF AppAsk, SetHistoryAddress
<1>3. Grows /\ Base' = Base /\ RingInv'
  BY <1>1, <1>2, SameGrows
<1>4. /\ app[c] \in AppState /\ app[c].last \in Nat /\ app[c].overwritten \in Nat
      /\ app[c].address \in Nat /\ Len(entries) \in Nat /\ Base \in Nat
  BY <1>1, <1>3, AppFields DEF Grows
<1>5. /\ app'[c] \in AppState
      /\ app'[c].phase = "asked" /\ app'[c].last = app[c].last /\ app'[c].got = app[c].got
      /\ app'[c].clean = app[c].clean /\ app'[c].address = app[c].address
      /\ app'[c].overwritten = IF app[c].address <= 1 THEN 0 ELSE app[c].overwritten
  <2>1. PICK n \in Nat : n = IF app[c].address <= 1 THEN 0 ELSE app[c].overwritten
    BY <1>4
  <2>2. app'[c] = [app[c] EXCEPT !.phase = "asked", !.overridden = FALSE, !.overwritten = n]
    BY <1>2, <2>1
  <2> QED
    BY <1>4, <2>1, <2>2 DEF AppState
<1>6. ASSUME NEW d \in App, d # c
      PROVE  /\ app'[d] \in AppState /\ app'[d].overridden
             /\ SameApp(d)
  <2>1. app[d] \in AppState /\ app[d].overwritten \in Nat
    BY <1>1, AppFields
  <2>2. app'[d] = [app[d] EXCEPT !.overridden = TRUE]
    BY <1>2, <1>6
  <2>3. /\ app'[d] \in AppState /\ app'[d].overridden
        /\ app'[d].phase = app[d].phase /\ app'[d].address = app[d].address
        /\ app'[d].last = app[d].last /\ app'[d].got = app[d].got
        /\ app'[d].clean = app[d].clean /\ app'[d].overwritten = app[d].overwritten
    BY <2>1, <2>2 DEF AppState
  <2> QED
    BY <1>3, <1>4, <2>1, <2>3 DEF SameApp
<1>7. app[c].address <= Len(entries)
  BY <1>1, <1>2 DEF AskApp
<1>8. TypeOK'
  <2>1. app' \in [App -> AppState]
    <3>1. \A d \in App : app'[d] \in AppState
      BY <1>5, <1>6
    <3> QED
      BY <1>2, <3>1
  <2>2. requestedIndex' \in 0 .. Capacity + 1
    BY <1>1, <1>2, <1>4, <1>7, Constants DEF TypeOK
  <2> QED
    BY <1>1, <1>2, <2>1, <2>2 DEF TypeOK
<1>9. value' \in Seq(Record) /\ Known(value')
  BY <1>1, <1>2 DEF TypeOK, ValueInv
<1>10. ValueInv'
  BY <1>3, <1>9, ValueKept
<1>11. TransferInv'
  BY <1>2, <1>7 DEF TransferInv
<1>12. ASSUME NEW d \in App, d # c PROVE AppInv(d)'
  BY <1>2, <1>3, <1>6, <1>9, <1>12, AppKept
<1>13. AppInv(c)'
  <2>1. AskApp(c)'
    BY <1>1, <1>2, <1>5 DEF AskApp
  <2>2. AnswerApp(c)'
    BY <1>2, <1>5 DEF AnswerApp, Pending
  <2>3. ASSUME app[c].clean PROVE CleanApp(c)'
    <3>1. /\ ~ restarted /\ app[c].last >= 1 /\ Steady(app[c])
          /\ app[c].last <= Len(entries) \/ Missing(app[c].got) = {}
          /\ Begins(c) => Missing(app[c].got) = {}
      BY <1>1, <1>2, <2>3 DEF CleanApp
    <3>2. ~ Begins(c) => Steady(app[c])'
      BY <1>1, <1>3, <1>4, <1>5, <3>1, SteadyKept DEF Begins
    <3>3. Missing(app[c].got)' = Missing(app[c].got) /\ Begins(c)' = Begins(c)
      BY <1>5 DEF Missing, Between, Begins
    <3> QED
      BY <1>2, <1>5, <3>1, <3>2, <3>3 DEF CleanApp
  <2> QED
    BY <1>5, <2>1, <2>2, <2>3 DEF AppInv
<1> QED
  BY <1>3, <1>8, <1>10, <1>11, <1>12, <1>13, InvOfParts

(* What a read keeps, whoever it is that reads. *)
LEMMA ReadKept ==
  ASSUME HistoryInv, GetHistoryEntries, UNCHANGED <<measured, restarts>>
  PROVE  /\ Grows /\ Base' = Base /\ value' \in Seq(Record) /\ (restarted' => restarted)
         /\ RingInv' /\ ValueInv' /\ TransferInv'
         /\ app' \in [App -> AppState] => TypeOK'
         /\ \A d \in App : app'[d] = app[d] => AppInv(d)'
<1>1. TypeOK /\ RingInv /\ ValueInv /\ TransferInv
  BY DEF HistoryInv
<1>2. /\ value' \in Seq(Record) /\ Len(value') <= BatchSize
      /\ requestedIndex' \in 0 .. Capacity + 1
      /\ Known(value')
      /\ transfer' = FALSE /\ restarted' \in BOOLEAN /\ (restarted' => restarted)
      /\ entries' = entries /\ up' = up
  BY <1>1, ReadDevice
<1>3. Grows /\ Base' = Base /\ RingInv'
  BY <1>1, <1>2, SameGrows
<1>4. ValueInv'
  BY <1>2, <1>3, ValueKept
<1>5. TransferInv'
  BY <1>2 DEF TransferInv
<1>6. app' \in [App -> AppState] => TypeOK'
  BY <1>1, <1>2 DEF TypeOK
<1>7. ASSUME NEW d \in App, app'[d] = app[d] PROVE AppInv(d)'
  <2>1. SameApp(d)
    BY <1>1, <1>3, <1>7, UnchangedApp DEF Grows
  <2>2. app[d].phase = "asked" /\ ~ app'[d].overridden =>
          ~ transfer' /\ ~ restarted' /\ Answers(value', d)
    BY <1>7, AnswerIsRead
  <2> QED
    BY <1>2, <1>3, <2>1, <2>2, AppKept
<1> QED
  BY <1>2, <1>3, <1>4, <1>5, <1>6, <1>7

LEMMA ReadAllStep ==
  ASSUME HistoryInv, ReadAll
  PROVE  HistoryInv'
<1>1. GetHistoryEntries /\ UNCHANGED <<measured, restarts>> /\ app' = app
  BY DEF ReadAll
<1>2. app' \in [App -> AppState]
  BY <1>1 DEF HistoryInv, TypeOK
<1> QED
  BY <1>1, <1>2, ReadKept, InvOfParts

(* The empty sequence. *)
LEMMA EmptySequence ==
  ASSUME NEW S, NEW s, s = << >>
  PROVE  s \in Seq(S) /\ Len(s) = 0
  OBVIOUS

LEMMA RestartStep ==
  ASSUME HistoryInv, Restart
  PROVE  HistoryInv'
<1>1. /\ restarts \in 0 .. MaxRestarts /\ measured \in 0 .. MaxMeasured /\ up \in BOOLEAN
      /\ app \in [App -> AppState]
  BY DEF HistoryInv, TypeOK
<1>2. /\ restarts' = restarts + 1 /\ restarts < MaxRestarts
      /\ requestedIndex' = 0 /\ transfer' = FALSE /\ restarted' = TRUE
      /\ up' = up /\ measured' = measured
  BY DEF Restart
<1>3. entries' = << >> /\ value' = << >>
  BY DEF Restart
<1>4. app' = [c \in App |-> [app[c] EXCEPT !.phase = "idle", !.clean = FALSE]]
  BY DEF Restart
<1>5. ASSUME NEW c \in App
      PROVE  app'[c] \in AppState /\ app'[c].phase = "idle" /\ app'[c].clean = FALSE
  <2>1. app'[c] = [app[c] EXCEPT !.phase = "idle", !.clean = FALSE]
    BY <1>4
  <2> QED
    BY <1>1, <2>1 DEF AppState
<1>6. entries' \in Seq(1 .. MaxMeasured) /\ Len(entries') = 0
  BY ONLY <1>3, EmptySequence
<1>7. value' \in Seq(Record) /\ Len(value') = 0
  BY ONLY <1>3, EmptySequence
<1>8. TypeOK'
  <2>1. app' \in [App -> AppState]
    BY ONLY <1>4, <1>5
  <2>2. restarts' \in 0 .. MaxRestarts /\ requestedIndex' \in 0 .. Capacity + 1
    BY ONLY <1>1, <1>2, Constants
  <2>3. Len(entries') <= Capacity /\ Len(value') <= BatchSize
    BY ONLY <1>6, <1>7, Constants
  <2>4. /\ transfer' \in BOOLEAN /\ restarted' \in BOOLEAN /\ up' \in BOOLEAN
        /\ measured' \in 0 .. MaxMeasured
    BY ONLY <1>1, <1>2
  <2> QED
    BY ONLY <1>6, <1>7, <2>1, <2>2, <2>3, <2>4 DEF TypeOK
<1>9. RingInv'
  <2>1. Base' = measured' - Len(entries')
    BY DEF Base
  <2>2. Base' >= 0
    BY ONLY <1>1, <1>2, <1>6, <2>1, Constants
  <2>3. \A i \in 1 .. Len(entries') : entries'[i] = Base' + i
    BY ONLY <1>6
  <2> QED
    BY ONLY <2>2, <2>3 DEF RingInv
<1>10. ValueInv' /\ TransferInv'
  BY <1>2, <1>3 DEF ValueInv, Known, TransferInv
<1>11. ASSUME NEW c \in App PROVE AppInv(c)'
  BY <1>5 DEF AppInv, AskApp, AnswerApp
<1> QED
  BY <1>8, <1>9, <1>10, <1>11, InvOfParts

(* A read outside the ring and a step of nothing leave all of it. *)
LEMMA NothingStep ==
  ASSUME HistoryInv, up' \in BOOLEAN,
         UNCHANGED <<entries, requestedIndex, transfer, restarted, value>>,
         UNCHANGED <<app, measured, restarts>>
  PROVE  HistoryInv'
<1>1. TypeOK
  BY DEF HistoryInv
<1>2. Grows /\ Base' = Base /\ value' \in Seq(Record) /\ RingInv' /\ ValueInv' /\ TransferInv'
  BY DeviceKept
<1>3. TypeOK'
  BY <1>1 DEF TypeOK
<1>4. ASSUME NEW c \in App PROVE AppInv(c)'
  <2>1. SameApp(c)
    BY <1>1, <1>2, UnchangedApp DEF Grows
  <2> QED
    BY <1>2, <2>1, AppKept, DeviceSame
<1> QED
  BY <1>2, <1>3, <1>4, InvOfParts
-----------------------------------------------------------------------------
(* The first batch of a download is an interval: nothing is missing in it. *)
LEMMA IntervalComplete ==
  ASSUME NEW x \in Int, NEW y \in Int
  PROVE  Missing(x .. y) = {}
<1>1. ASSUME NEW e \in Between(x .. y) PROVE e \in x .. y
  BY <1>1 DEF Between
<1> QED
  BY <1>1 DEF Missing

(* A later one adds what lies between the newest entry and its first. *)
LEMMA MissingGap ==
  ASSUME NEW got \in SUBSET (1 .. MaxMeasured), NEW m \in got, \A e \in got : e <= m,
         NEW x \in Nat, NEW y \in Nat, m < x, x <= y, y <= MaxMeasured
  PROVE  Cardinality(Missing(got \cup x .. y)) <= Cardinality(Missing(got)) + x - m - 1
<1>1. m \in Nat /\ got \subseteq Nat
  BY Constants
<1>2. Missing(got \cup x .. y) \subseteq Missing(got) \cup (m + 1) .. (x - 1)
  <2> SUFFICES ASSUME NEW e \in Missing(got \cup x .. y), ~ (e \in (m + 1) .. (x - 1))
               PROVE  e \in Missing(got)
    OBVIOUS
  <2>1. /\ e \in 1 .. MaxMeasured /\ e \notin got /\ ~ (e \in x .. y)
        /\ e \in Between(got \cup x .. y)
    BY DEF Missing, Between
  <2>2. PICK a \in got \cup x .. y : \E b \in got \cup x .. y : a <= e /\ e <= b
    BY <2>1 DEF Between
  <2>3. PICK b \in got \cup x .. y : a <= e /\ e <= b
    BY <2>2
  <2>4. e \in Nat /\ a \in Nat /\ b \in Nat
    BY <1>1, <2>1, Constants
  <2>5. b <= y
    <3>1. CASE b \in got
      BY <1>1, <2>4, <3>1
    <3>2. CASE b \in x .. y
      BY <3>2
    <3> QED
      BY <3>1, <3>2
  <2>6. e < x /\ e <= m
    BY <1>1, <2>1, <2>3, <2>4, <2>5
  <2>7. a \in got
    BY <2>3, <2>4, <2>6
  <2>8. e \in Between(got)
    BY <2>1, <2>3, <2>6, <2>7 DEF Between
  <2> QED
    BY <2>1, <2>8 DEF Missing
<1>3. /\ IsFiniteSet(Missing(got)) /\ Cardinality(Missing(got)) \in Nat
  BY MissingFinite
<1>4. /\ IsFiniteSet((m + 1) .. (x - 1)) /\ Cardinality((m + 1) .. (x - 1)) = x - m - 1
  <2>1. m + 1 \in Int /\ x - 1 \in Int
    BY <1>1
  <2>2. /\ IsFiniteSet((m + 1) .. (x - 1))
        /\ Cardinality((m + 1) .. (x - 1)) = IF m + 1 > x - 1 THEN 0 ELSE (x - 1) - (m + 1) + 1
    BY <2>1, FS_Interval
  <2> QED
    BY <1>1, <2>2
<1> DEFINE u == Missing(got) \cup (m + 1) .. (x - 1)
<1>5. /\ IsFiniteSet(u)
      /\ Cardinality(u) = Cardinality(Missing(got)) + Cardinality((m + 1) .. (x - 1))
                          - Cardinality(Missing(got) \cap (m + 1) .. (x - 1))
      /\ Cardinality(Missing(got) \cap (m + 1) .. (x - 1)) \in Nat
  BY <1>3, <1>4, FS_Union, FS_Intersection, FS_CardinalityType
<1>6. Cardinality(Missing(got \cup x .. y)) <= Cardinality(u)
  BY <1>2, <1>5, FS_Subset
<1>7. Cardinality(Missing(got \cup x .. y)) \in Nat
  BY <1>2, <1>5, FS_Subset, FS_CardinalityType
<1> HIDE DEF u
<1> QED
  BY <1>1, <1>3, <1>4, <1>5, <1>6, <1>7

(* What is read is of measurements there were, and has a last number. *)
LEMMA NewsAreMeasured ==
  ASSUME TypeOK, RingInv, NEW v \in Seq(Record), Known(v)
  PROVE  /\ News(v) \in SUBSET (1 .. MaxMeasured)
         /\ v # << >> => v[Len(v)].number \in Nat
<1>1. CASE v = << >>
  <2>1. DOMAIN v = {}
    BY <1>1
  <2> QED
    BY <1>1, <2>1 DEF News
<1>2. CASE v # << >>
  <2>1. PICK n \in Nat \ {0}, r \in {0, 1}, b \in Nat : Holds(v, n, r, b)
    BY <1>2 DEF Known
  <2>2. /\ Len(v) \in Nat \ {0} /\ v[Len(v)].number = n + Len(v) - 1
        /\ n + Len(v) - 1 - r + b <= measured
        /\ News(v) = (b + n) .. (b + n + Len(v) - 1 - r)
    <3>1. Taken(v, n, r, b)
      BY <2>1, AnswerEntries
    <3> QED
      BY ONLY <3>1 DEF Taken
  <2>3. measured \in 0 .. MaxMeasured
    BY DEF TypeOK
  <2>4. (b + n) .. (b + n + Len(v) - 1 - r) \subseteq 1 .. MaxMeasured
    BY <2>2, <2>3, Constants
  <2> QED
    BY <2>2, <2>4
<1> QED
  BY <1>1, <1>2

(* The arithmetic of the next lemma. *)
LEMMA LaterNumbers ==
  ASSUME NEW g \in Nat, NEW b \in Nat, NEW last \in Nat, NEW m \in Nat, NEW passed \in Nat,
         NEW l \in Nat \ {0}, b <= g, m - last <= b,
         NEW k1 \in Nat, k1 + g - m + last <= 1 + passed,
         NEW k2 \in Nat, k2 <= k1 + (b + last + 1) - m - 1
  PROVE  /\ (b + last + l) - (last + l) <= g
         /\ k2 + g - (b + last + l) + (last + l) <= 1 + passed
  OBVIOUS

(* A later batch, made when b measurements were gone and now there are g   *)
(* gone, goes on behind what the app has.                                  *)
LEMMA LaterBatch ==
  ASSUME NEW old \in SUBSET (1 .. MaxMeasured), NEW m \in old, \A e \in old : e <= m,
         NEW g \in Nat, NEW b \in Nat, b <= g,
         NEW last \in Nat, m - last <= b, NEW passed \in Nat,
         Cardinality(Missing(old)) + g - m + last <= 1 + passed,
         NEW l \in Nat \ {0}, b + last + l <= MaxMeasured,
         NEW got, got = old \cup (b + last + 1) .. (b + last + l),
         NEW number, number = last + l
  PROVE  SteadyWhen(got, number, g, passed)
<1>1. m \in Nat /\ MaxMeasured \in Nat
  BY Constants
<1>2. /\ b + last + 1 \in Nat /\ b + last + l \in Nat /\ m < b + last + 1
      /\ b + last + 1 <= b + last + l /\ 1 <= b + last + 1
  BY ONLY <1>1, b \in Nat, last \in Nat, l \in Nat \ {0}, m - last <= b
<1>3. PICK x \in Nat, y \in Nat : x = b + last + 1 /\ y = b + last + l
  BY <1>2
<1>4. /\ m < x /\ x <= y /\ y <= MaxMeasured /\ 1 <= x /\ got = old \cup x .. y
  BY <1>2, <1>3
<1>5. got \in SUBSET (1 .. MaxMeasured)
  BY <1>1, <1>4
<1>6. Cardinality(Missing(got)) <= Cardinality(Missing(old)) + x - m - 1
  BY <1>4, MissingGap
<1>7. PICK k1 \in Nat, k2 \in Nat :
        k1 = Cardinality(Missing(old)) /\ k2 = Cardinality(Missing(got))
  BY <1>5, MissingFinite
<1>8. y \in got /\ \A e \in got : e <= y
  <2>1. \A e \in old : e \in Nat
    BY <1>1
  <2> QED
    BY <1>1, <1>4, <2>1
<1>9. /\ (b + last + l) - (last + l) <= g
      /\ k2 + g - (b + last + l) + (last + l) <= 1 + passed
  <2>1. k1 + g - m + last <= 1 + passed /\ k2 <= k1 + (b + last + 1) - m - 1
    BY <1>3, <1>6, <1>7
  <2> QED
    BY ONLY <1>1, <2>1, LaterNumbers, g \in Nat, b \in Nat, last \in Nat, passed \in Nat,
            l \in Nat \ {0}, k1 \in Nat, k2 \in Nat, b <= g, m - last <= b
<1>10. /\ y - number <= g /\ Cardinality(Missing(got)) + g - y + number <= 1 + passed
  BY <1>3, <1>7, <1>9
<1> QED
  BY <1>8, <1>10 DEF SteadyWhen

(* What an app has after the answer to its request: the first batch, or    *)
(* more behind what it had.                                                *)
LEMMA CleanRead ==
  ASSUME HistoryInv, GetHistoryEntries, UNCHANGED <<measured, restarts>>, NEW c \in App,
         app[c].phase = "asked", ~ app[c].overridden, Begins(c) \/ app[c].clean,
         value' \in Seq(Record),
         app'[c].phase = "idle", app'[c].overwritten = app[c].overwritten,
         app'[c].last = IF value' = << >> THEN app[c].last ELSE value'[Len(value')].number,
         app'[c].got = IF Begins(c) THEN News(value') ELSE app[c].got \cup News(value')
  PROVE  CleanApp(c)'
<1>1. TypeOK /\ RingInv /\ AskApp(c) /\ (app[c].clean => CleanApp(c))
  BY DEF HistoryInv, AskInv, CleanInv
<1>2. /\ app[c].address \in Nat /\ app[c].last \in Nat /\ app[c].overwritten \in Nat
      /\ app[c].got \in SUBSET (1 .. MaxMeasured)
  BY <1>1, AppFields
<1>3. Answers(value', c) /\ ~ restarted'
  BY AnswerIsRead
<1>4. Base' = Base /\ Base \in Nat /\ Len(entries) \in Nat /\ entries' = entries
  BY ReadKept DEF Grows, GetHistoryEntries
<1>5. PICK r \in {0, 1}, b \in Nat :
        /\ Holds(value', Asked(c), r, b)
        /\ Begins(c) => r = 1 /\ Base - b <= app[c].overwritten
        /\ ~ Begins(c) /\ app[c].clean => r = 0 /\ \A m \in app[c].got : m - app[c].last <= b
  BY <1>3 DEF Answers
<1>6. PICK n \in Nat \ {0} : n = Asked(c)
  BY <1>2 DEF Asked
<1>7. PICK v \in Seq(Record) : v = value'
  OBVIOUS
<1>8. /\ Holds(v, n, r, b)
      /\ v \in Seq(Record) /\ n \in Nat \ {0} /\ r \in {0, 1} /\ b \in Nat
  BY <1>5, <1>6, <1>7
<1>9. /\ Len(v) \in Nat \ {0} /\ v[Len(v)].number = n + Len(v) - 1
      /\ n + Len(v) - 1 - r + b <= measured
      /\ News(v) = (b + n) .. (b + n + Len(v) - 1 - r)
  <2>1. TypeOK /\ RingInv
    BY <1>1
  <2>2. Taken(v, n, r, b)
    BY ONLY <1>8, <2>1, AnswerEntries
  <2> QED
    BY ONLY <2>2 DEF Taken
<1>10. PICK l \in Nat \ {0} : l = Len(v)
  BY <1>9
<1>11. app'[c].last = n + l - 1
  <2>1. v # << >>
    BY <1>9
  <2> QED
    BY <1>7, <1>9, <1>10, <2>1
<1>12. /\ r < l /\ b <= Base /\ n + l - 1 <= Len(entries) + r
       /\ n + l - 1 - r + b <= MaxMeasured
  <2>1. measured \in 0 .. MaxMeasured
    BY <1>1 DEF TypeOK
  <2>2. r < l /\ b <= Base /\ n + l - 1 <= Len(entries) + r
    BY <1>8, <1>10 DEF Holds, IsAnswer
  <2>3. n + l - 1 - r + b <= measured
    BY ONLY <1>9, <1>10
  <2> QED
    BY <2>1, <2>2, <2>3, Constants
<1>13. app'[c].got = IF Begins(c) THEN (b + n) .. (b + n + l - 1 - r)
                     ELSE app[c].got \cup (b + n) .. (b + n + l - 1 - r)
  BY <1>7, <1>9, <1>10
<1>14. CASE Begins(c)
  <2>1. n = 1 /\ r = 1 /\ Base - b <= app[c].overwritten
    BY <1>2, <1>5, <1>6, <1>14 DEF Asked, Begins
  <2>2. app'[c].last = l
    BY <1>11, <2>1
  <2>3. PICK x \in Nat, y \in Nat : x = b + 1 /\ y = b + l - 1
    OBVIOUS
  <2>4. app'[c].got = x .. y
    BY <1>13, <1>14, <2>1, <2>3
  <2>5. x <= y /\ 1 <= x /\ y <= MaxMeasured
    BY <1>12, <2>1, <2>3
  <2>6. Missing(x .. y) = {}
    BY IntervalComplete
  <2>7. Cardinality(Missing(x .. y)) = 0
    <3>1. x .. y \in SUBSET (1 .. MaxMeasured)
      BY <2>5, Constants
    <3> QED
      BY <2>6, <3>1, MissingFinite
  <2>8. /\ y \in app'[c].got /\ \A e \in app'[c].got : e <= y
        /\ y - app'[c].last <= Base'
    <3>1. y \in x .. y /\ (\A e \in x .. y : e <= y) /\ y - l <= Base
      BY ONLY <1>4, <1>8, <1>10, <1>12, <2>3, <2>5
    <3> QED
      BY ONLY <1>4, <2>2, <2>4, <3>1
  <2>9. Cardinality(Missing(app'[c].got)) + Base' - y + app'[c].last <= 1 + app'[c].overwritten
    <3>1. 0 + Base - y + l <= 1 + app[c].overwritten
      BY <1>2, <1>4, <2>1, <2>3
    <3> QED
      BY <1>4, <2>2, <2>4, <2>7, <3>1
  <2>10. Steady(app[c])'
    BY <2>8, <2>9 DEF Steady, SteadyWhen, Missing, Between
  <2>11. Missing(app'[c].got) = {}
    BY <2>4, <2>6
  <2> QED
    BY <1>3, <2>2, <2>10, <2>11 DEF CleanApp, Missing, Between
<1>15. CASE ~ Begins(c)
  <2>1. Steady(app[c]) /\ r = 0 /\ \A m \in app[c].got : m - app[c].last <= b
    BY <1>1, <1>5, <1>15 DEF CleanApp
  <2>2. n = app[c].last + 1
    BY <1>1, <1>2, <1>6, <1>15 DEF Asked, Begins, AskApp
  <2>3. PICK m \in app[c].got :
          /\ \A e \in app[c].got : e <= m
          /\ Cardinality(Missing(app[c].got)) + Base - m + app[c].last <= 1 + app[c].overwritten
    BY <2>1 DEF Steady, SteadyWhen
  <2>4. m - app[c].last <= b
    BY <2>1
  <2>5. PICK last \in Nat, old \in SUBSET (1 .. MaxMeasured) :
          last = app[c].last /\ old = app[c].got
    BY <1>2
  <2>6. app'[c].last = last + l /\ b + last + l <= MaxMeasured
    <3>1. n = last + 1
      BY <2>2, <2>5
    <3>2. n + l - 1 = last + l /\ n + l - 1 - 0 + b = b + last + l
      BY ONLY <3>1, b \in Nat, last \in Nat, l \in Nat \ {0}
    <3> QED
      BY <1>11, <1>12, <2>1, <3>2
  <2>7. app'[c].got = old \cup (b + last + 1) .. (b + last + l)
    <3>1. n = last + 1 /\ r = 0
      BY <2>1, <2>2, <2>5
    <3>2. b + n = b + last + 1 /\ b + n + l - 1 - r = b + last + l
      BY <3>1
    <3> QED
      BY <1>13, <1>15, <2>5, <3>2
  <2>8. SteadyWhen(app'[c].got, app'[c].last, Base, app[c].overwritten)
    <3>1. /\ m \in old /\ (\A e \in old : e <= m) /\ m - last <= b
          /\ Cardinality(Missing(old)) + Base - m + last <= 1 + app[c].overwritten
      BY <2>3, <2>4, <2>5
    <3>2. /\ b \in Nat /\ last \in Nat /\ l \in Nat \ {0} /\ old \in SUBSET (1 .. MaxMeasured)
          /\ Base \in Nat /\ app[c].overwritten \in Nat /\ b <= Base
      BY <1>2, <1>4, <1>12
    <3> QED
      BY ONLY <2>6, <2>7, <3>1, <3>2, LaterBatch
  <2>9. Steady(app[c])'
    BY <1>4, <2>8 DEF Steady
  <2>10. app'[c].last >= 1 /\ app'[c].last <= Len(entries')
    BY <1>4, <1>11, <1>12, <2>1
  <2> QED
    BY <1>3, <2>9, <2>10 DEF CleanApp
<1> QED
  BY <1>14, <1>15

(* The read of an app: what it keeps, and ReadKept for the rest. *)
LEMMA AppReadStep ==
  ASSUME HistoryInv, NEW c \in App, AppRead(c)
  PROVE  HistoryInv'
<1>1. TypeOK /\ RingInv
  BY DEF HistoryInv
<1>2. /\ app[c].phase = "asked" /\ GetHistoryEntries /\ UNCHANGED <<measured, restarts>>
      /\ app' = [app EXCEPT ![c] =
           [phase |-> "idle", address |-> 0,
            last |-> IF value' = << >> THEN app[c].last ELSE value'[Len(value')].number,
            got |-> IF Begins(c) THEN News(value') ELSE app[c].got \cup News(value'),
            clean |-> (Begins(c) \/ app[c].clean) /\ ~ app[c].overridden,
            overwritten |-> app[c].overwritten,
            overridden |-> FALSE]]
  BY DEF AppRead, Begins, News
<1>3. value' \in Seq(Record) /\ Known(value')
  BY <1>1, <1>2, ReadDevice DEF HistoryInv
<1>4. /\ News(value') \in SUBSET (1 .. MaxMeasured)
      /\ value' # << >> => value'[Len(value')].number \in Nat
  BY <1>1, <1>3, NewsAreMeasured
<1>5. /\ app[c].last \in Nat /\ app[c].overwritten \in Nat
      /\ app[c].got \in SUBSET (1 .. MaxMeasured)
      /\ app[c].clean \in BOOLEAN /\ app[c].overridden \in BOOLEAN
  BY <1>1, AppFields
<1>6. PICK nl \in Nat : nl = IF value' = << >> THEN app[c].last ELSE value'[Len(value')].number
  BY <1>4, <1>5
<1>7. PICK ng \in SUBSET (1 .. MaxMeasured) :
        ng = IF Begins(c) THEN News(value') ELSE app[c].got \cup News(value')
  BY <1>4, <1>5
<1>8. PICK nc \in BOOLEAN : nc = ((Begins(c) \/ app[c].clean) /\ ~ app[c].overridden)
  OBVIOUS
<1>9. app'[c] = [phase |-> "idle", address |-> 0, last |-> nl, got |-> ng, clean |-> nc,
                 overwritten |-> app[c].overwritten, overridden |-> FALSE]
  BY <1>1, <1>2, <1>6, <1>7, <1>8 DEF TypeOK
<1>10. /\ app'[c] \in AppState /\ app'[c].phase = "idle" /\ app'[c].last = nl
       /\ app'[c].got = ng /\ app'[c].clean = nc
       /\ app'[c].overwritten = app[c].overwritten
  BY <1>5, <1>9 DEF AppState
<1>11. app' \in [App -> AppState]
  BY <1>1, <1>2, <1>10 DEF TypeOK
<1>12. ASSUME NEW d \in App, d # c PROVE app'[d] = app[d]
  BY <1>1, <1>2, <1>12 DEF TypeOK
<1>13. AppInv(c)'
  <2>1. ASSUME nc PROVE CleanApp(c)'
    BY <1>2, <1>3, <1>6, <1>7, <1>8, <1>10, <2>1, CleanRead
  <2> QED
    BY <1>10, <2>1 DEF AppInv, AskApp, AnswerApp
<1>14. \A d \in App : AppInv(d)'
  BY <1>2, <1>12, <1>13, ReadKept
<1> QED
  BY <1>2, <1>11, <1>14, ReadKept, InvOfParts
-----------------------------------------------------------------------------
LEMMA InitInv == Init => HistoryInv
<1> SUFFICES ASSUME Init PROVE HistoryInv
  OBVIOUS
<1>1. /\ requestedIndex = 0 /\ transfer = FALSE /\ restarted = TRUE /\ up = TRUE
      /\ measured = 0 /\ restarts = 0
  BY DEF Init
<1>2. entries = << >> /\ value = << >>
  BY DEF Init
<1>3. app = [c \in App |-> NewApp]
  BY DEF Init
<1>4. NewApp \in AppState /\ NewApp.phase = "idle" /\ NewApp.clean = FALSE
  BY DEF NewApp, AppState
<1>5. entries \in Seq(1 .. MaxMeasured) /\ Len(entries) = 0
  BY ONLY <1>2, EmptySequence
<1>6. value \in Seq(Record) /\ Len(value) = 0
  BY ONLY <1>2, EmptySequence
<1>7. TypeOK
  <2>1. app \in [App -> AppState]
    BY ONLY <1>3, <1>4
  <2>2. Len(entries) <= Capacity /\ Len(value) <= BatchSize
    BY ONLY <1>5, <1>6, Constants
  <2>3. /\ requestedIndex \in 0 .. Capacity + 1
        /\ measured \in 0 .. MaxMeasured /\ restarts \in 0 .. MaxRestarts
    BY ONLY <1>1, Constants
  <2>4. transfer \in BOOLEAN /\ restarted \in BOOLEAN /\ up \in BOOLEAN
    BY ONLY <1>1
  <2> QED
    BY ONLY <1>5, <1>6, <2>1, <2>2, <2>3, <2>4 DEF TypeOK
<1>8. RingInv
  <2>1. Base >= 0
    BY ONLY <1>1, <1>5 DEF Base
  <2>2. \A i \in 1 .. Len(entries) : entries[i] = Base + i
    BY ONLY <1>5
  <2> QED
    BY ONLY <2>1, <2>2 DEF RingInv
<1>9. ValueInv /\ TransferInv
  BY <1>1, <1>2 DEF ValueInv, Known, TransferInv
<1>10. AskInv /\ AnswerInv /\ CleanInv
  BY <1>3, <1>4 DEF AskInv, AskApp, AnswerInv, AnswerApp, CleanInv
<1> QED
  BY <1>7, <1>8, <1>9, <1>10 DEF HistoryInv

LEMMA NextInv == HistoryInv /\ [Next]_vars => HistoryInv'
<1> SUFFICES ASSUME HistoryInv, [Next]_vars PROVE HistoryInv'
  OBVIOUS
<1>1. CASE AddEntry
  BY <1>1, AddEntryStep
<1>2. CASE ReadAll
  BY <1>2, ReadAllStep
<1>3. CASE Restart
  BY <1>3, RestartStep
<1>4. CASE Faults
  BY <1>4, NothingStep DEF Faults, GetHistoryEntriesFaults
<1>5. ASSUME NEW c \in App, AppInfo(c) PROVE HistoryInv'
  BY <1>5, AppInfoStep
<1>6. ASSUME NEW c \in App, AppAsk(c) PROVE HistoryInv'
  BY <1>6, AppAskStep
<1>7. ASSUME NEW c \in App, AppRead(c) PROVE HistoryInv'
  BY <1>7, AppReadStep
<1>8. CASE UNCHANGED vars
  <2>1. up \in BOOLEAN
    BY DEF HistoryInv, TypeOK
  <2> QED
    BY <1>8, <2>1, NothingStep DEF vars, device
<1> QED
  BY <1>1, <1>2, <1>3, <1>4, <1>5, <1>6, <1>7, <1>8 DEF Next

(* The invariant holds in every state. *)
LEMMA Invariant == Spec => []HistoryInv
  BY InitInv, NextInv, PTL DEF Spec

(* The ring, the value and what the apps keep have their types and sizes,  *)
(* whatever is measured, read, asked for and restarted: the ring never     *)
(* exceeds its size, nor an answer that of a batch.                        *)
THEOREM TypeIsInvariant == Spec => []TypeOK
<1>1. HistoryInv => TypeOK
  BY DEF HistoryInv
<1> QED
  BY <1>1, Invariant, PTL

(* An app that began at the beginning and was only answered its own        *)
(* requests lacks, for every number of measurements and batch sizes, at    *)
(* most one measurement and those passed over because entries were         *)
(* overwritten since.                                                      *)
THEOREM DownloadIsComplete == Spec => []Complete
<1>1. HistoryInv => Complete
  <2> SUFFICES ASSUME HistoryInv, NEW c \in App, app[c].clean
               PROVE  Cardinality(Missing(app[c].got)) <= 1 + app[c].overwritten
    BY DEF Complete, Missing
  <2>1. TypeOK /\ CleanApp(c)
    BY DEF HistoryInv, CleanInv
  <2>2. /\ app[c].got \in SUBSET (1 .. MaxMeasured) /\ app[c].last \in Nat
        /\ app[c].overwritten \in Nat
    BY <2>1, AppFields
  <2>3. CASE Steady(app[c])
    <3>1. PICK m \in app[c].got :
            /\ m - app[c].last <= Base
            /\ Cardinality(Missing(app[c].got)) + Base - m + app[c].last
                 <= 1 + app[c].overwritten
      BY <2>3 DEF Steady, SteadyWhen
    <3>2. m \in Nat /\ Cardinality(Missing(app[c].got)) \in Nat /\ Base \in Int
      BY <2>1, <2>2, MissingFinite, Constants DEF TypeOK, Base
    <3>3. PICK k \in Nat : k = Cardinality(Missing(app[c].got))
      BY <3>2
    <3>4. k + Base - m + app[c].last <= 1 + app[c].overwritten
      BY <3>1, <3>3
    <3>5. k <= 1 + app[c].overwritten
      BY ONLY <2>2, <3>1, <3>2, <3>4
    <3> QED
      BY <3>3, <3>5
  <2>4. CASE ~ Steady(app[c])
    <3>1. Missing(app[c].got) = {}
      BY <2>1, <2>4 DEF CleanApp
    <3>2. Cardinality(Missing(app[c].got)) = 0
      BY <2>2, <3>1, MissingFinite
    <3> QED
      BY <2>2, <3>2
  <2> QED
    BY <2>3, <2>4
<1> QED
  BY <1>1, Invariant, PTL

(* What an app reads begins with the number it asked for, whatever was     *)
(* measured and read by others in between, unless another connection       *)
(* wrote an address; a repeated read of the same batch, a value that began *)
(* with the batch already, and a batch of the reference time included.     *)
THEOREM ReadIsTheAnswer == Spec => AnswersOwnRequest
<1>1. HistoryInv /\ [Next]_vars =>
        \A c \in App :
          /\ app[c].phase = "asked" /\ app'[c].phase = "idle" /\ restarts' = restarts
          /\ ~ app[c].overridden
          => value' # << >> /\ value'[1].number = IF app[c].address = 0 THEN 1
                                                   ELSE app[c].address
  <2> SUFFICES ASSUME HistoryInv, [Next]_vars, NEW c \in App,
                      app[c].phase = "asked", app'[c].phase = "idle", restarts' = restarts,
                      ~ app[c].overridden
               PROVE  value' # << >> /\ value'[1].number = Asked(c)
    BY DEF Asked
  <2>1. /\ TypeOK /\ RingInv /\ ValueInv /\ TransferInv /\ restarts \in Int
    BY Constants DEF HistoryInv, TypeOK
  <2>2. GetHistoryEntries
    <3>1. app' = app \/ Restart \/ AddEntry \/ GetHistoryEntries
            \/ \E d \in App : AppInfo(d) \/ AppAsk(d)
      BY DEF Next, ReadAll, AppRead, Faults, vars
    <3>2. app[c].phase # app'[c].phase
      OBVIOUS
    <3>3. CASE Restart
      <4>1. restarts' = restarts + 1
        BY <3>3 DEF Restart
      <4> QED
        BY <2>1, <4>1
    <3>4. CASE AddEntry
      <4>1. app'[c] = [app[c] EXCEPT !.overwritten = @ + IF isFull THEN 1 ELSE 0]
        BY <3>4 DEF AddEntry
      <4>2. app'[c].phase = app[c].phase
        BY <2>1, <4>1, AppFields DEF AppState
      <4> QED
        BY <3>2, <4>2
    <3>5. ASSUME NEW d \in App, AppInfo(d) PROVE FALSE
      <4>1. CASE d = c
        BY <3>5, <4>1 DEF AppInfo
      <4>2. CASE d # c
        BY <2>1, <3>2, <3>5, <4>2 DEF AppInfo, TypeOK
      <4> QED
        BY <4>1, <4>2
    <3>6. ASSUME NEW d \in App, AppAsk(d) PROVE FALSE
      <4>1. CASE d = c
        BY <3>6, <4>1 DEF AppAsk
      <4>2. CASE d # c
        <5>1. app'[c] = [app[c] EXCEPT !.overridden = TRUE]
          BY <3>6, <4>2 DEF AppAsk
        <5>2. app'[c].phase = app[c].phase
          BY <2>1, <5>1, AppFields DEF AppState
        <5> QED
          BY <3>2, <5>2
      <4> QED
        BY <4>1, <4>2
    <3> QED
      BY <3>1, <3>2, <3>3, <3>4, <3>5, <3>6
  <2>3. Answers(value', c)
    BY <2>2, AnswerIsRead
  <2>4. PICK r \in {0, 1}, b \in Nat : Holds(value', Asked(c), r, b)
    BY <2>3 DEF Answers
  <2>5. value' \in Seq(Record)
    BY <2>1, <2>2, ReadDevice
  <2>6. Asked(c) \in Nat \ {0}
    BY <2>1, AppFields DEF Asked
  <2>7. Len(value') \in Nat \ {0} /\ value'[1].number = Asked(c)
    <3>1. PICK n \in Nat \ {0} : n = Asked(c)
      BY <2>6
    <3>2. TypeOK /\ RingInv /\ value' \in Seq(Record) /\ Holds(value', n, r, b)
      BY <2>1, <2>4, <2>5, <3>1
    <3>3. Taken(value', n, r, b)
      BY <3>2, AnswerEntries
    <3> QED
      BY ONLY <3>1, <3>3 DEF Taken
  <2> QED
    BY <2>5, <2>7
<1> QED
  BY <1>1, Invariant, PTL DEF Spec, AnswersOwnRequest
=============================================================================
