------------------------- MODULE WritePipelineProofs -------------------------
(***************************************************************************)
(* Proofs about the write path of the Firestore client, for every set of   *)
(* accounts, every number of writes and every length of the pipeline: the  *)
(* stream, the pipeline and the mutation queue stay in step, and every     *)
(* step of the client is a step of WriteQueue, whose consequences follow.  *)
(***************************************************************************)
EXTENDS WritePipeline, TLAPS, SequenceTheorems, WellFoundedInduction

(***************************************************************************)
(* The mutation queue: keys in ascending order, and an iterator over them. *)
(***************************************************************************)

(* The batches of a queue lie in the order of their ids, and so do the     *)
(* writes they carry.                                                      *)
Ascending(q) ==
  \A i, j \in DOMAIN q : i < j => q[i].id < q[j].id /\ q[i].w < q[j].w

(* As much of a queue as the pipeline holds.                               *)
Room(q) == IF kMaxPendingWrites < Len(q) THEN kMaxPendingWrites ELSE Len(q)
Filled(q) == SubSeq(q, 1, Room(q))

(* Ids of batches are positive, so neither the handshake nor the refusal   *)
(* on the wire is taken for the answer to a batch.                         *)
LEMMA BatchFacts ==
  /\ \A b \in Batch : /\ b.id \in Nat /\ b.id >= 1
                       /\ b.w \in Nat /\ b.w >= 1 /\ b.w \in Write
  /\ Handshake \notin Batch /\ Refusal \notin Batch /\ Handshake # Refusal
<1>1. MaxWrites \in Nat
  BY LimitAssumption
<1>2. \A b \in Batch : b.id \in 1..MaxWrites /\ b.w \in 1..MaxWrites
  BY DEF Batch, Write
<1>3. \A n \in 1..MaxWrites : n \in Nat /\ n >= 1
  BY <1>1
<1>4. Handshake.id = 0 /\ Refusal.id = 0 /\ Handshake.w = 0 /\ Refusal.w = 1
  BY DEF Handshake, Refusal
<1>5. Handshake \notin Batch /\ Refusal \notin Batch
  BY <1>2, <1>3, <1>4
<1> QED
  BY <1>2, <1>3, <1>4, <1>5 DEF Write

(* An iterator placed right after the id of a batch stands at the next.    *)
LEMMA SeekNext ==
  ASSUME NEW q \in Seq(Batch), Ascending(q), NEW n \in 0..Len(q), NEW last \in Int,
         n = 0 => last = -1,
         n # 0 => last = q[n].id
  PROVE  Seek(q, last + 1) = n + 1
<1> DEFINE P(i) == /\ \A j \in 1..(i - 1) : q[j].id < last + 1
                   /\ i <= Len(q) => q[i].id >= last + 1
<1>1. Len(q) \in Nat /\ n \in Nat /\ n <= Len(q)
  OBVIOUS
<1>2. \A i \in 1..Len(q) : q[i].id \in Nat /\ q[i].id >= 1
  BY BatchFacts
<1>3. \A i, j \in 1..Len(q) : i < j => q[i].id < q[j].id
  BY DEF Ascending
<1>4. P(n + 1)
  <2>1. ASSUME NEW j \in 1..n PROVE q[j].id < last + 1
    <3>1. j \in 1..Len(q) /\ n \in 1..Len(q) /\ n # 0
      BY <1>1
    <3>2. j = n \/ q[j].id < q[n].id
      BY <3>1, <1>3
    <3> QED
      BY <3>1, <3>2, <1>2
  <2>2. ASSUME n + 1 <= Len(q) PROVE q[n + 1].id >= last + 1
    <3>1. PICK m : m = n + 1
      OBVIOUS
    <3>2. m \in 1..Len(q)
      BY <3>1, <2>2, <1>1
    <3>3. CASE n = 0
      BY <3>1, <3>2, <3>3, <1>2
    <3>4. CASE n # 0
      <4>1. n \in 1..Len(q) /\ n < m
        BY <3>1, <3>4, <1>1
      <4>2. q[n].id < q[m].id
        BY <4>1, <3>2, <1>3
      <4> QED
        BY <4>1, <4>2, <3>1, <3>2, <3>4, <1>2
    <3> QED
      BY <3>3, <3>4
  <2>3. 1..((n + 1) - 1) = 1..n
    BY <1>1
  <2> QED
    BY <2>1, <2>2, <2>3
<1>5. ASSUME NEW i \in 1..(Len(q) + 1), P(i) PROVE i = n + 1
  <2>1. ASSUME i < n + 1 PROVE FALSE
    <3>1. i \in 1..Len(q) /\ n \in 1..Len(q) /\ n # 0
      BY <2>1, <1>1
    <3>2. q[i].id >= last + 1
      BY <1>5, <3>1
    <3>3. i = n \/ q[i].id < q[n].id
      BY <2>1, <3>1, <1>3
    <3> QED
      BY <3>1, <3>2, <3>3, <1>2
  <2>2. ASSUME i > n + 1 PROVE FALSE
    <3>1. PICK m : m = n + 1
      OBVIOUS
    <3>2. m \in 1..Len(q) /\ m \in 1..(i - 1)
      BY <2>2, <3>1, <1>1
    <3>3. q[m].id < last + 1
      BY <1>5, <3>2
    <3>4. CASE n = 0
      BY <3>2, <3>3, <3>4, <1>2
    <3>5. CASE n # 0
      <4>1. n \in 1..Len(q) /\ n < m
        BY <3>1, <3>5, <1>1
      <4>2. q[n].id < q[m].id
        BY <4>1, <3>2, <1>3
      <4> QED
        BY <4>1, <4>2, <3>2, <3>3, <3>5, <1>2
    <3> QED
      BY <3>4, <3>5
  <2> QED
    BY <2>1, <2>2, <1>1
<1>6. n + 1 \in 1..(Len(q) + 1)
  BY <1>1
<1>7. Seek(q, last + 1) = CHOOSE i \in 1..(Len(q) + 1) : P(i)
  BY DEF Seek
<1> HIDE DEF P
<1> QED
  BY <1>4, <1>5, <1>6, <1>7

(* An iterator placed at the id of the first batch stands there.           *)
LEMMA SeekHead ==
  ASSUME NEW q \in Seq(Batch), Ascending(q), q # <<>>
  PROVE  Seek(q, Head(q).id) = 1 /\ RemoveAt(q, Seek(q, Head(q).id)) = Tail(q)
<1> DEFINE P(i) == /\ \A j \in 1..(i - 1) : q[j].id < q[1].id
                   /\ i <= Len(q) => q[i].id >= q[1].id
<1>1. Len(q) \in Nat /\ Len(q) >= 1 /\ Head(q) = q[1]
  OBVIOUS
<1>2. \A i \in 1..Len(q) : q[i].id \in Nat
  BY BatchFacts
<1>3. P(1)
  BY <1>1, <1>2
<1>4. ASSUME NEW i \in 1..(Len(q) + 1), P(i) PROVE i = 1
  <2>1. ASSUME i # 1 PROVE FALSE
    <3>1. 1 \in 1..(i - 1) /\ 1 \in 1..Len(q)
      BY <2>1, <1>1
    <3>2. q[1].id < q[1].id
      BY <1>4, <3>1
    <3> QED
      BY <3>1, <3>2, <1>2
  <2> QED
    BY <2>1
<1>5. 1 \in 1..(Len(q) + 1)
  BY <1>1
<1>6. Seek(q, q[1].id) = CHOOSE i \in 1..(Len(q) + 1) : P(i)
  BY DEF Seek
<1>7. Seek(q, Head(q).id) = 1
  <2> HIDE DEF P
  <2> QED
    BY <1>1, <1>3, <1>4, <1>5, <1>6
<1>8. RemoveAt(q, 1) = SubSeq(q, 1, 0) \o SubSeq(q, 2, Len(q))
  BY DEF RemoveAt
<1>9. SubSeq(q, 1, 0) = <<>>
  BY SubSeqEmpty
<1>10. SubSeq(q, 2, Len(q)) = Tail(q) /\ Tail(q) \in Seq(Batch)
  BY TailIsSubSeq, HeadTailProperties
<1> QED
  BY <1>7, <1>8, <1>9, <1>10, ConcatEmptySeq

(* Removing the first batch leaves a queue in order.                       *)
LEMMA TailAscending ==
  ASSUME NEW q \in Seq(Batch), Ascending(q), q # <<>>
  PROVE  /\ Tail(q) \in Seq(Batch) /\ Ascending(Tail(q))
         /\ Len(Tail(q)) = Len(q) - 1
         /\ DOMAIN Tail(q) = 1..(Len(q) - 1)
         /\ \A i \in 1..(Len(q) - 1) : i + 1 \in DOMAIN q /\ Tail(q)[i] = q[i + 1]
         /\ \A i \in DOMAIN Tail(q) : Head(q).id < Tail(q)[i].id /\ Head(q).w < Tail(q)[i].w
<1>1. /\ Tail(q) \in Seq(Batch)
      /\ Len(Tail(q)) = Len(q) - 1
      /\ Len(q) \in Nat /\ Len(q) >= 1
      /\ DOMAIN q = 1..Len(q) /\ Head(q) = q[1]
  OBVIOUS
<1>2. \A i \in 1..(Len(q) - 1) : Tail(q)[i] = q[i + 1]
  OBVIOUS
<1>3. DOMAIN Tail(q) = 1..(Len(q) - 1)
  BY <1>1
<1>4. \A i \in 1..(Len(q) - 1) : i + 1 \in 1..Len(q)
  BY <1>1
<1>5. ASSUME NEW i \in 1..(Len(q) - 1), NEW j \in 1..(Len(q) - 1), i < j
      PROVE  Tail(q)[i].id < Tail(q)[j].id /\ Tail(q)[i].w < Tail(q)[j].w
  <2>1. PICK k, m : k = i + 1 /\ m = j + 1
    OBVIOUS
  <2>2. k \in DOMAIN q /\ m \in DOMAIN q /\ k < m
    BY <2>1, <1>5, <1>1
  <2>3. q[k].id < q[m].id /\ q[k].w < q[m].w
    BY <2>2 DEF Ascending
  <2> QED
    BY <2>1, <2>3, <1>2
<1>6. ASSUME NEW i \in 1..(Len(q) - 1)
      PROVE  Head(q).id < Tail(q)[i].id /\ Head(q).w < Tail(q)[i].w
  <2>1. PICK k : k = i + 1
    OBVIOUS
  <2>2. k \in DOMAIN q /\ 1 \in DOMAIN q /\ 1 < k
    BY <2>1, <1>1
  <2>3. q[1].id < q[k].id /\ q[1].w < q[k].w
    BY <2>2 DEF Ascending
  <2> QED
    BY <2>1, <2>3, <1>1, <1>2
<1>7. Ascending(Tail(q))
  BY <1>3, <1>5 DEF Ascending
<1> QED
  BY <1>1, <1>2, <1>3, <1>4, <1>6, <1>7

(***************************************************************************)
(* The stream and the pipeline: what each operation makes of the record.   *)
(***************************************************************************)
RsType ==
  [state : State, handshake : BOOLEAN, idle : BOOLEAN, request : BOOLEAN,
   pipeline : Seq(Batch), up : Seq(Batch \cup {Handshake}),
   down : Seq(Batch \cup {Handshake, Refusal})]

(* What the first n elements of a sequence are.                            *)
LEMMA HeadPart ==
  ASSUME NEW S, NEW q \in Seq(S), NEW n \in 0..Len(q)
  PROVE  /\ SubSeq(q, 1, n) \in Seq(S)
         /\ Len(SubSeq(q, 1, n)) = n
         /\ \A i \in 1..n : SubSeq(q, 1, n)[i] = q[i]
<1>1. n \in Nat /\ Len(q) \in Nat /\ n <= Len(q)
  OBVIOUS
<1> QED
  BY <1>1

(* The room of the pipeline is a number of batches of the queue.           *)
LEMMA RoomFacts ==
  ASSUME NEW q \in Seq(Batch)
  PROVE  /\ Room(q) \in Nat /\ Room(q) <= Len(q) /\ Room(q) <= kMaxPendingWrites
         /\ Room(q) < kMaxPendingWrites => Room(q) = Len(q)
         /\ Room(q) = 0 => Len(q) = 0
         /\ kMaxPendingWrites \in Nat
         /\ Filled(q) \in Seq(Batch) /\ Len(Filled(q)) = Room(q)
         /\ \A i \in 1..Room(q) : Filled(q)[i] = q[i]
<1>1. kMaxPendingWrites \in Nat /\ kMaxPendingWrites > 0 /\ Len(q) \in Nat
  BY LimitAssumption
<1>2. /\ Room(q) \in Nat /\ Room(q) <= Len(q) /\ Room(q) <= kMaxPendingWrites
      /\ Room(q) < kMaxPendingWrites => Room(q) = Len(q)
      /\ Room(q) = 0 => Len(q) = 0
  BY <1>1 DEF Room
<1>3. Room(q) \in 0..Len(q)
  BY <1>1, <1>2
<1>4. /\ Filled(q) \in Seq(Batch)
      /\ Len(Filled(q)) = Room(q)
      /\ \A i \in 1..Room(q) : Filled(q)[i] = q[i]
  BY <1>3, HeadPart DEF Filled
<1> QED
  BY <1>1, <1>2, <1>4

(* The batches fetched next complete the head of the queue.                *)
LEMMA NextBatchesFill ==
  ASSUME NEW s \in RsType, NEW q \in Seq(Batch), Ascending(q),
         NEW n \in 0..Room(q), s.pipeline = SubSeq(q, 1, n)
  PROVE  /\ NextBatches(s, q) \in Seq(Batch)
         /\ s.pipeline \o NextBatches(s, q) = Filled(q)
<1> DEFINE last == IF s.pipeline = <<>> THEN BatchIdUnknown ELSE Last(s.pipeline).id
<1>1. /\ Room(q) \in Nat /\ Room(q) <= Len(q) /\ Room(q) <= kMaxPendingWrites
      /\ Room(q) < kMaxPendingWrites => Room(q) = Len(q)
      /\ kMaxPendingWrites \in Nat /\ Len(q) \in Nat
  BY RoomFacts
<1>2. n \in Nat /\ n <= Room(q) /\ n \in 0..Len(q)
  BY <1>1
<1>3. \A i \in 1..n : q[i] \in Batch
  BY <1>1, <1>2
<1>4. /\ Len(s.pipeline) = n
      /\ \A i \in 1..n : s.pipeline[i] = q[i]
  BY <1>2, HeadPart
<1>5. last \in Int /\ (n = 0 => last = -1) /\ (n # 0 => last = q[n].id)
  <2>1. CASE n = 0
    <3>1. s.pipeline = <<>>
      BY <2>1, SubSeqEmpty
    <3> QED
      BY <2>1, <3>1 DEF BatchIdUnknown
  <2>2. CASE n # 0
    <3>1. n \in 1..n
      BY <2>2, <1>2
    <3>2. s.pipeline # <<>>
      BY <2>2, <1>2, <1>4
    <3>3. last = q[n].id /\ q[n].id \in Nat
      BY <3>1, <3>2, <1>3, <1>4, BatchFacts DEF Last
    <3> QED
      BY <2>2, <3>3
  <2> QED
    BY <2>1, <2>2
<1> HIDE DEF last
<1>6. Seek(q, last + 1) = n + 1
  BY <1>2, <1>5, SeekNext
<1>7. NextBatches(s, q) = SubSeq(q, n + 1, Room(q))
  <2>1. n + 1 + kMaxPendingWrites - Len(s.pipeline) - 1 = kMaxPendingWrites
    BY <1>1, <1>2, <1>4
  <2> QED
    BY <1>6, <2>1 DEF NextBatches, Room, last
<1>8. NextBatches(s, q) \in Seq(Batch)
  <2>1. \A i \in (n + 1)..Room(q) : q[i] \in Batch
    BY <1>1, <1>2
  <2> QED
    BY <2>1, <1>1, <1>2, <1>7, SubSeqProperties
<1>9. SubSeq(q, 1, n) \o SubSeq(q, n + 1, Room(q)) = SubSeq(q, 1, Room(q))
  <2>1. 1 \in 1..(Len(q) + 1) /\ n \in (1 - 1)..Len(q) /\ Room(q) \in n..Len(q)
    BY <1>1, <1>2
  <2> QED
    BY <2>1, ConcatAdjacentSubSeq
<1> QED
  BY <1>7, <1>8, <1>9 DEF Filled

(* Batches that join the pipeline are sent at once on an established       *)
(* stream; sending ends its being idle.                                    *)
LEMMA AddShape ==
  ASSUME NEW s \in RsType, NEW new \in Seq(Batch)
  PROVE  LET r == AddToWritePipeline(s, new) IN
         /\ r \in RsType
         /\ r.pipeline = s.pipeline \o new
         /\ r.down = s.down /\ r.handshake = s.handshake
         /\ r.state = s.state /\ r.request = s.request
         /\ r.up = IF IsOpen(s) /\ s.handshake THEN s.up \o new ELSE s.up
         /\ r.idle => s.idle /\ (new = <<>> \/ ~ (IsOpen(s) /\ s.handshake))
<1> DEFINE t == [s EXCEPT !.pipeline = @ \o new]
<1>1. /\ s.pipeline \in Seq(Batch) /\ s.up \in Seq(Batch \cup {Handshake})
      /\ s.down \in Seq(Batch \cup {Handshake, Refusal})
      /\ s.state \in State /\ s.handshake \in BOOLEAN /\ s.idle \in BOOLEAN
      /\ s.request \in BOOLEAN
  BY DEF RsType
<1>2. s.pipeline \o new \in Seq(Batch)
  BY <1>1
<1>3. new \in Seq(Batch \cup {Handshake})
  BY SeqMonotonic
<1>4. s.up \o new \in Seq(Batch \cup {Handshake})
  BY <1>1, <1>3
<1>5. /\ t \in RsType /\ t.pipeline = s.pipeline \o new /\ t.up = s.up
      /\ t.down = s.down /\ t.handshake = s.handshake /\ t.idle = s.idle
      /\ t.state = s.state /\ t.request = s.request
  BY <1>2 DEF RsType
<1>6. AddToWritePipeline(s, new) = IF IsOpen(s) /\ s.handshake THEN Send(t, new) ELSE t
  BY DEF AddToWritePipeline
<1> HIDE DEF t
<1>7. CASE ~ (IsOpen(s) /\ s.handshake)
  BY <1>5, <1>6, <1>7
<1>8. CASE IsOpen(s) /\ s.handshake /\ new = <<>>
  <2>1. AddToWritePipeline(s, new) = t
    BY <1>6, <1>8 DEF Send
  <2>2. s.up \o new = s.up
    BY <1>1, <1>8, ConcatEmptySeq
  <2> QED
    BY <1>5, <1>8, <2>1, <2>2
<1>9. CASE IsOpen(s) /\ s.handshake /\ new # <<>>
  <2>1. AddToWritePipeline(s, new) = [t EXCEPT !.up = @ \o new, !.idle = FALSE]
    BY <1>6, <1>9 DEF Send
  <2>2. [t EXCEPT !.up = @ \o new, !.idle = FALSE] \in RsType
    BY <1>4, <1>5 DEF RsType
  <2>3. LET r == [t EXCEPT !.up = @ \o new, !.idle = FALSE] IN
        /\ r.pipeline = t.pipeline /\ r.down = t.down /\ r.handshake = t.handshake
        /\ r.state = t.state /\ r.request = t.request /\ r.up = t.up \o new
        /\ r.idle = FALSE
    BY <1>5 DEF RsType
  <2> QED
    BY <1>5, <1>9, <2>1, <2>2, <2>3
<1> QED
  BY <1>7, <1>8, <1>9

(* Starting a stream that has work leaves the rest of the record alone.    *)
LEMMA StartShape ==
  ASSUME NEW s \in RsType
  PROVE  LET r == StartIfNeeded(s) IN
         /\ r \in RsType
         /\ r.pipeline = s.pipeline /\ r.up = s.up /\ r.down = s.down
         /\ r.handshake = s.handshake /\ r.idle = s.idle
         /\ r.pipeline # <<>> => IsStarted(r)
         /\ IsStarted(s) => r = s
         /\ ~ IsOpen(s) => ~ IsOpen(r)
         /\ (s.request => s.state = "Starting") => (r.request => r.state = "Starting")
<1>1. CASE ~ ShouldStartWriteStream(s)
  BY <1>1 DEF StartIfNeeded, ShouldStartWriteStream
<1>2. CASE ShouldStartWriteStream(s) /\ s.state = "Error"
  <2>1. StartIfNeeded(s) = [s EXCEPT !.state = "Backoff"]
    BY <1>2 DEF StartIfNeeded, Start
  <2>2. [s EXCEPT !.state = "Backoff"] \in RsType
    BY DEF RsType, State
  <2>3. ~ s.request \/ s.state = "Starting" => ~ s.request
    BY <1>2
  <2> QED
    BY <1>2, <2>1, <2>2, <2>3 DEF RsType, IsOpen, IsStarted, ShouldStartWriteStream
<1>3. CASE ShouldStartWriteStream(s) /\ s.state # "Error"
  <2>1. StartIfNeeded(s) = [s EXCEPT !.state = "Starting", !.request = TRUE]
    BY <1>3 DEF StartIfNeeded, Start
  <2>2. [s EXCEPT !.state = "Starting", !.request = TRUE] \in RsType
    BY DEF RsType, State
  <2> QED
    BY <1>3, <2>1, <2>2 DEF RsType, IsOpen, IsStarted, ShouldStartWriteStream
<1> QED
  BY <1>1, <1>2, <1>3

(* The idle timer starts on an open stream without work.                   *)
LEMMA MarkIdleShape ==
  ASSUME NEW s \in RsType
  PROVE  LET r == IF s.pipeline = <<>> THEN MarkIdle(s) ELSE s IN
         /\ r \in RsType
         /\ r.pipeline = s.pipeline /\ r.up = s.up /\ r.down = s.down
         /\ r.handshake = s.handshake /\ r.state = s.state /\ r.request = s.request
         /\ r.idle => s.idle \/ (s.pipeline = <<>> /\ IsOpen(s))
<1>1. CASE s.pipeline = <<>> /\ IsOpen(s)
  <2>1. MarkIdle(s) = [s EXCEPT !.idle = TRUE]
    BY <1>1 DEF MarkIdle
  <2>2. [s EXCEPT !.idle = TRUE] \in RsType
    BY DEF RsType
  <2> QED
    BY <1>1, <2>1, <2>2 DEF RsType
<1>2. CASE ~ (s.pipeline = <<>> /\ IsOpen(s))
  BY <1>2 DEF MarkIdle
<1> QED
  BY <1>1, <1>2

(* What a refill makes of the stream and the pipeline.                     *)
LEMMA FillShape ==
  ASSUME NEW s \in RsType, NEW q \in Seq(Batch), Ascending(q),
         NEW n \in 0..Room(q), s.pipeline = SubSeq(q, 1, n),
         s.request => s.state = "Starting"
  PROVE  LET r == FillWritePipeline(s, q) IN
         /\ r \in RsType
         /\ r.pipeline = Filled(q)
         /\ r.down = s.down /\ r.handshake = s.handshake
         /\ r.pipeline # <<>> => IsStarted(r)
         /\ IsOpen(s) => r.state = s.state /\ r.request = s.request
         /\ ~ IsOpen(s) => ~ IsOpen(r)
         /\ r.request => r.state = "Starting"
         /\ \E new \in Seq(Batch) :
              /\ r.pipeline = s.pipeline \o new
              /\ r.up = IF IsOpen(s) /\ s.handshake THEN s.up \o new ELSE s.up
              /\ r.idle => \/ r.pipeline = <<>> /\ IsOpen(s)
                           \/ s.idle /\ (new = <<>> \/ ~ (IsOpen(s) /\ s.handshake))
<1> DEFINE new == NextBatches(s, q)
           a == AddToWritePipeline(s, new)
           b == IF a.pipeline = <<>> THEN MarkIdle(a) ELSE a
           r == StartIfNeeded(b)
<1>1. new \in Seq(Batch) /\ s.pipeline \o new = Filled(q)
  BY NextBatchesFill
<1>2. FillWritePipeline(s, q) = r
  BY DEF FillWritePipeline
<1> HIDE DEF new
<1>3. /\ a \in RsType
      /\ a.pipeline = s.pipeline \o new
      /\ a.down = s.down /\ a.handshake = s.handshake
      /\ a.state = s.state /\ a.request = s.request
      /\ a.up = IF IsOpen(s) /\ s.handshake THEN s.up \o new ELSE s.up
      /\ a.idle => s.idle /\ (new = <<>> \/ ~ (IsOpen(s) /\ s.handshake))
  BY <1>1, AddShape
<1> HIDE DEF a
<1>4. /\ b \in RsType
      /\ b.pipeline = a.pipeline /\ b.up = a.up /\ b.down = a.down
      /\ b.handshake = a.handshake /\ b.state = a.state /\ b.request = a.request
      /\ b.idle => a.idle \/ (a.pipeline = <<>> /\ IsOpen(a))
  BY <1>3, MarkIdleShape
<1> HIDE DEF b
<1>5. /\ r \in RsType
      /\ r.pipeline = b.pipeline /\ r.up = b.up /\ r.down = b.down
      /\ r.handshake = b.handshake /\ r.idle = b.idle
      /\ r.pipeline # <<>> => IsStarted(r)
      /\ IsStarted(b) => r = b
      /\ ~ IsOpen(b) => ~ IsOpen(r)
      /\ (b.request => b.state = "Starting") => (r.request => r.state = "Starting")
  BY <1>4, StartShape
<1> HIDE DEF r
<1>6. (IsOpen(a) <=> IsOpen(s)) /\ (IsOpen(b) <=> IsOpen(s))
  BY <1>3, <1>4 DEF IsOpen
<1>7. IsOpen(s) => r.state = s.state /\ r.request = s.request
  BY <1>3, <1>4, <1>5, <1>6 DEF IsStarted
<1>8. ~ IsOpen(s) => ~ IsOpen(r)
  BY <1>5, <1>6
<1>9. r.request => r.state = "Starting"
  BY <1>3, <1>4, <1>5
<1>10. r.idle => \/ r.pipeline = <<>> /\ IsOpen(s)
                 \/ s.idle /\ (new = <<>> \/ ~ (IsOpen(s) /\ s.handshake))
  BY <1>3, <1>4, <1>5, <1>6
<1>11. r.up = IF IsOpen(s) /\ s.handshake THEN s.up \o new ELSE s.up
  BY <1>3, <1>4, <1>5
<1>12. r.pipeline = s.pipeline \o new /\ r.pipeline = Filled(q)
  BY <1>1, <1>3, <1>4, <1>5
<1>13. r \in RsType /\ r.down = s.down /\ r.handshake = s.handshake
  BY <1>3, <1>4, <1>5
<1> QED
  BY <1>1, <1>2, <1>5, <1>7, <1>8, <1>9, <1>10, <1>11, <1>12, <1>13

(***************************************************************************)
(* What holds of the stream and the pipeline between two handlers.         *)
(***************************************************************************)
(* Before the handshake is over: it is on its way to the server or back.   *)
Greeting(s) ==
  \/ s.up = <<Handshake>> /\ s.down = <<>>
  \/ s.up = <<>> /\ s.down = <<Handshake>>

(* On an established stream the answers and the requests under way make up *)
(* the pipeline, or the answers end with the refusal of one of its writes. *)
Established(s) ==
  \/ /\ s.down \in Seq(Batch) /\ s.up \in Seq(Batch)
     /\ s.down \o s.up = s.pipeline
  \/ \E m \in 0..(Len(s.pipeline) - 1) :
       s.down = Append(SubSeq(s.pipeline, 1, m), Refusal)

WireSound(s) ==
  /\ s.idle => s.pipeline = <<>> /\ s.handshake
  /\ s.request => s.state = "Starting"
  /\ s.handshake => IsOpen(s)
  /\ ~ IsOpen(s) => s.up = <<>> /\ s.down = <<>>
  /\ IsOpen(s) /\ ~ s.handshake => Greeting(s)
  /\ s.handshake => Established(s)

StreamSound(s) == WireSound(s) /\ (s.pipeline # <<>> => IsStarted(s))

(* A stream that was closed, with the pipeline p kept or refilled, and     *)
(* started again if there is work.                                         *)
ClosedWith(s, p) ==
  /\ s \in RsType
  /\ s.pipeline = p
  /\ ~ IsOpen(s) /\ ~ s.handshake /\ ~ s.idle
  /\ s.up = <<>> /\ s.down = <<>>
  /\ s.request => s.state = "Starting"
  /\ p # <<>> => IsStarted(s)

(* Such a stream is sound: nothing is under way.                           *)
LEMMA ClosedIsSound ==
  ASSUME NEW s, NEW p, ClosedWith(s, p)
  PROVE  StreamSound(s)
BY DEF ClosedWith, StreamSound, WireSound

(* Ending a stream drops the wire, the timer and the request.              *)
LEMMA EndShape ==
  ASSUME NEW s \in RsType, NEW e \in {"Initial", "Error"}
  PROVE  LET r == EndStream(s, e) IN
         /\ r \in RsType
         /\ r.state = e /\ ~ IsOpen(r) /\ ~ IsStarted(r)
         /\ r.pipeline = s.pipeline /\ r.handshake = s.handshake
         /\ r.idle = FALSE /\ r.request = FALSE
         /\ r.up = <<>> /\ r.down = <<>>
<1>1. /\ <<>> \in Seq(Batch \cup {Handshake})
      /\ <<>> \in Seq(Batch \cup {Handshake, Refusal})
      /\ e \in State
  BY DEF State
<1>2. EndStream(s, e) \in RsType
  BY <1>1 DEF EndStream, RsType
<1> QED
  BY <1>2 DEF EndStream, RsType, IsOpen, IsStarted

(* The handshake flag is one field of the record.                          *)
LEMMA HandshakeOverShape ==
  ASSUME NEW s \in RsType
  PROVE  LET r == HandshakeOver(s) IN
         /\ r \in RsType
         /\ r.handshake = FALSE
         /\ r.state = s.state /\ r.pipeline = s.pipeline /\ r.idle = s.idle
         /\ r.request = s.request /\ r.up = s.up /\ r.down = s.down
         /\ IsOpen(r) <=> IsOpen(s)
         /\ IsStarted(r) <=> IsStarted(s)
<1>1. HandshakeOver(s) \in RsType
  BY DEF HandshakeOver, RsType
<1> QED
  BY <1>1 DEF HandshakeOver, RsType, IsOpen, IsStarted

(* A stream closed for whatever reason keeps its pipeline and is started   *)
(* again for it.                                                           *)
LEMMA CloseShape ==
  ASSUME NEW s \in RsType, NEW e \in {"Initial", "Error"}
  PROVE  ClosedWith(StreamClosed(s, e), s.pipeline)
<1> DEFINE a == EndStream(s, e)
           b == StartIfNeeded(a)
           r == HandshakeOver(b)
<1>1. /\ a \in RsType
      /\ ~ IsOpen(a)
      /\ a.pipeline = s.pipeline
      /\ a.idle = FALSE /\ a.request = FALSE
      /\ a.up = <<>> /\ a.down = <<>>
  BY EndShape
<1>2. StreamClosed(s, e) = r
  BY DEF StreamClosed
<1> HIDE DEF a
<1>3. /\ b \in RsType
      /\ b.pipeline = a.pipeline /\ b.up = a.up /\ b.down = a.down
      /\ b.idle = a.idle
      /\ b.pipeline # <<>> => IsStarted(b)
      /\ ~ IsOpen(a) => ~ IsOpen(b)
      /\ (a.request => a.state = "Starting") => (b.request => b.state = "Starting")
  BY <1>1, StartShape
<1> HIDE DEF b
<1>4. /\ r \in RsType
      /\ r.handshake = FALSE
      /\ r.state = b.state /\ r.pipeline = b.pipeline /\ r.idle = b.idle
      /\ r.request = b.request /\ r.up = b.up /\ r.down = b.down
      /\ IsOpen(r) <=> IsOpen(b)
      /\ IsStarted(r) <=> IsStarted(b)
  BY <1>3, HandshakeOverShape
<1> HIDE DEF r
<1> QED
  BY <1>1, <1>2, <1>3, <1>4 DEF ClosedWith

(* The refill of a closed stream: nothing is sent.                         *)
LEMMA RefillClosed ==
  ASSUME NEW s \in RsType, NEW q \in Seq(Batch), Ascending(q),
         NEW n \in 0..Room(q), s.pipeline = SubSeq(q, 1, n),
         ~ IsOpen(s), ~ s.handshake, ~ s.idle, ~ s.request,
         s.up = <<>>, s.down = <<>>
  PROVE  ClosedWith(FillWritePipeline(s, q), Filled(q))
<1> DEFINE r == FillWritePipeline(s, q)
<1>1. /\ r \in RsType
      /\ r.pipeline = Filled(q)
      /\ r.down = s.down /\ r.handshake = s.handshake
      /\ r.pipeline # <<>> => IsStarted(r)
      /\ ~ IsOpen(s) => ~ IsOpen(r)
      /\ r.request => r.state = "Starting"
  BY FillShape
<1>2. r.up = s.up /\ ~ r.idle
  BY FillShape
<1> HIDE DEF r
<1>3. ClosedWith(r, Filled(q))
  BY <1>1, <1>2 DEF ClosedWith
<1> QED
  BY <1>3 DEF r

(* The network restarts: the pipeline is filled from the queue anew.       *)
LEMMA RestartShape ==
  ASSUME NEW s \in RsType, NEW q \in Seq(Batch), Ascending(q)
  PROVE  ClosedWith(RestartNetwork(s, q), Filled(q))
<1> DEFINE a == EndStream(s, "Initial")
           b == HandshakeOver(a)
           c == [b EXCEPT !.pipeline = <<>>]
<1>1. /\ a \in RsType
      /\ ~ IsOpen(a)
      /\ a.idle = FALSE /\ a.request = FALSE
      /\ a.up = <<>> /\ a.down = <<>>
  BY EndShape
<1>2. RestartNetwork(s, q) = FillWritePipeline(c, q)
  BY DEF RestartNetwork
<1> HIDE DEF a
<1>3. /\ b \in RsType
      /\ b.handshake = FALSE
      /\ b.idle = a.idle
      /\ b.request = a.request /\ b.up = a.up /\ b.down = a.down
      /\ IsOpen(b) <=> IsOpen(a)
  BY <1>1, HandshakeOverShape
<1> HIDE DEF b
<1>4. /\ c \in RsType
      /\ c.pipeline = <<>>
      /\ c.handshake = FALSE /\ c.idle = b.idle /\ c.request = b.request
      /\ c.up = b.up /\ c.down = b.down /\ c.state = b.state
  <2>1. <<>> \in Seq(Batch)
    OBVIOUS
  <2>2. c \in RsType
    BY <2>1, <1>3 DEF RsType
  <2> QED
    BY <2>2, <1>3 DEF RsType
<1> HIDE DEF c
<1>5. 0 \in 0..Room(q) /\ c.pipeline = SubSeq(q, 1, 0)
  <2>1. SubSeq(q, 1, 0) = <<>>
    BY SubSeqEmpty
  <2> QED
    BY <2>1, <1>4, RoomFacts
<1>6. ~ IsOpen(c) /\ ~ c.handshake /\ ~ c.idle /\ ~ c.request /\ c.up = <<>> /\ c.down = <<>>
  BY <1>1, <1>3, <1>4 DEF IsOpen
<1>7. ClosedWith(FillWritePipeline(c, q), Filled(q))
  BY <1>4, <1>5, <1>6, RefillClosed
<1> QED
  BY <1>2, <1>7

(* The app starts: the same from a stopped stream.                         *)
LEMMA StartupShape ==
  ASSUME NEW q \in Seq(Batch), Ascending(q)
  PROVE  ClosedWith(FillWritePipeline(Stopped, q), Filled(q))
<1>1. /\ <<>> \in Seq(Batch) /\ <<>> \in Seq(Batch \cup {Handshake})
      /\ <<>> \in Seq(Batch \cup {Handshake, Refusal}) /\ "Initial" \in State
  BY DEF State
<1>2. /\ Stopped \in RsType
      /\ Stopped.pipeline = <<>> /\ Stopped.state = "Initial"
      /\ ~ Stopped.handshake /\ ~ Stopped.idle /\ ~ Stopped.request
      /\ Stopped.up = <<>> /\ Stopped.down = <<>>
  BY <1>1 DEF Stopped, RsType
<1>3. 0 \in 0..Room(q) /\ Stopped.pipeline = SubSeq(q, 1, 0)
  <2>1. SubSeq(q, 1, 0) = <<>>
    BY SubSeqEmpty
  <2> QED
    BY <2>1, <1>2, RoomFacts
<1>4. ~ IsOpen(Stopped)
  BY <1>2 DEF IsOpen
<1> QED
  BY <1>2, <1>3, <1>4, RefillClosed

(* Without its first batch, the pipeline is still the head of the queue    *)
(* that lost the batch too.                                                *)
LEMMA TailFilled ==
  ASSUME NEW q \in Seq(Batch), q # <<>>
  PROVE  /\ Filled(q) # <<>> /\ Head(Filled(q)) = Head(q)
         /\ \E n \in 0..Room(Tail(q)) : Tail(Filled(q)) = SubSeq(Tail(q), 1, n)
<1>1. /\ Tail(q) \in Seq(Batch) /\ Len(Tail(q)) = Len(q) - 1
      /\ Len(q) \in Nat /\ Len(q) >= 1 /\ Head(q) = q[1]
      /\ \A i \in 1..(Len(q) - 1) : Tail(q)[i] = q[i + 1]
  OBVIOUS
<1>2. /\ Room(q) \in Nat /\ Room(q) <= Len(q)
      /\ Room(q) = 0 => Len(q) = 0
      /\ Filled(q) \in Seq(Batch) /\ Len(Filled(q)) = Room(q)
      /\ \A i \in 1..Room(q) : Filled(q)[i] = q[i]
  BY RoomFacts
<1>3. Room(q) >= 1
  BY <1>1, <1>2
<1>4. Filled(q) # <<>> /\ Head(Filled(q)) = Head(q)
  BY <1>1, <1>2, <1>3
<1>5. PICK n : n = Room(q) - 1
  OBVIOUS
<1>6. n \in 0..Room(Tail(q)) /\ n \in 0..Len(Tail(q)) /\ n \in Nat
  BY <1>1, <1>2, <1>3, <1>5, LimitAssumption DEF Room
<1>7. /\ Tail(Filled(q)) \in Seq(Batch)
      /\ Len(Tail(Filled(q))) = n
      /\ \A i \in 1..n : Tail(Filled(q))[i] = Filled(q)[i + 1]
  BY <1>2, <1>4, <1>5, HeadTailProperties
<1>8. /\ SubSeq(Tail(q), 1, n) \in Seq(Batch)
      /\ Len(SubSeq(Tail(q), 1, n)) = n
      /\ \A i \in 1..n : SubSeq(Tail(q), 1, n)[i] = Tail(q)[i]
  BY <1>1, <1>6, HeadPart
<1>9. ASSUME NEW i \in 1..n PROVE Tail(Filled(q))[i] = SubSeq(Tail(q), 1, n)[i]
  <2>1. PICK k : k = i + 1
    OBVIOUS
  <2>2. k \in 1..Room(q) /\ i \in 1..(Len(q) - 1)
    BY <2>1, <1>5, <1>6, <1>2
  <2> QED
    BY <2>1, <2>2, <1>1, <1>2, <1>7, <1>8
<1>10. Tail(Filled(q)) = SubSeq(Tail(q), 1, n)
  BY <1>7, <1>8, <1>9, SeqEqual
<1> QED
  BY <1>4, <1>6, <1>10

(* More batches in the pipeline, sent at once, keep a stream established.  *)
LEMMA EstablishedGrows ==
  ASSUME NEW s \in RsType, NEW r \in RsType, NEW new \in Seq(Batch), Established(s),
         r.down = s.down, r.pipeline = s.pipeline \o new, r.up = s.up \o new
  PROVE  Established(r)
<1>1. s.pipeline \in Seq(Batch)
  BY DEF RsType
<1>2. ASSUME s.down \in Seq(Batch), s.up \in Seq(Batch), s.down \o s.up = s.pipeline
      PROVE  Established(r)
  <2>1. r.up \in Seq(Batch)
    BY <1>2
  <2>2. ASSUME NEW a \in Seq(Batch), NEW b \in Seq(Batch), NEW c \in Seq(Batch)
        PROVE  (a \o b) \o c = a \o (b \o c)
    BY ONLY a \in Seq(Batch), b \in Seq(Batch), c \in Seq(Batch), ConcatAssociative
  <2>3. (s.down \o s.up) \o new = s.down \o (s.up \o new)
    BY <1>2, <2>2, Zenon
  <2> QED
    BY <1>2, <2>1, <2>3 DEF Established
<1>3. ASSUME NEW m \in 0..(Len(s.pipeline) - 1),
             s.down = Append(SubSeq(s.pipeline, 1, m), Refusal)
      PROVE  Established(r)
  <2>1. /\ Len(s.pipeline) \in Nat /\ Len(new) \in Nat
        /\ Len(r.pipeline) = Len(s.pipeline) + Len(new)
        /\ \A i \in 1..Len(s.pipeline) : r.pipeline[i] = s.pipeline[i]
        /\ r.pipeline \in Seq(Batch)
    BY <1>1, ConcatProperties
  <2>2. m \in 0..(Len(r.pipeline) - 1) /\ m \in 0..Len(s.pipeline) /\ m \in 0..Len(r.pipeline)
    BY <2>1
  <2>3. /\ SubSeq(s.pipeline, 1, m) \in Seq(Batch) /\ SubSeq(r.pipeline, 1, m) \in Seq(Batch)
        /\ Len(SubSeq(s.pipeline, 1, m)) = m /\ Len(SubSeq(r.pipeline, 1, m)) = m
        /\ \A i \in 1..m : SubSeq(s.pipeline, 1, m)[i] = s.pipeline[i]
        /\ \A i \in 1..m : SubSeq(r.pipeline, 1, m)[i] = r.pipeline[i]
    BY <1>1, <2>1, <2>2, HeadPart
  <2>4. \A i \in 1..m : i \in 1..Len(s.pipeline)
    BY <2>1
  <2>5. SubSeq(s.pipeline, 1, m) = SubSeq(r.pipeline, 1, m)
    BY <2>1, <2>3, <2>4, SeqEqual
  <2> QED
    BY <1>3, <2>2, <2>5 DEF Established
<1> QED
  BY <1>2, <1>3 DEF Established

(* A refill keeps a sound stream sound and starts one that has work.       *)
LEMMA FillKeepsSound ==
  ASSUME NEW s \in RsType, WireSound(s), NEW q \in Seq(Batch), Ascending(q),
         NEW n \in 0..Room(q), s.pipeline = SubSeq(q, 1, n),
         IsOpen(s) /\ ~ s.handshake => Filled(q) # <<>>
  PROVE  LET r == FillWritePipeline(s, q) IN
         /\ r \in RsType /\ StreamSound(r) /\ r.pipeline = Filled(q)
         /\ r.down = s.down /\ r.handshake = s.handshake
<1> DEFINE r == FillWritePipeline(s, q)
<1>0. s.request => s.state = "Starting"
  BY DEF WireSound
<1>1. /\ r \in RsType
      /\ r.pipeline = Filled(q)
      /\ r.down = s.down /\ r.handshake = s.handshake
      /\ r.pipeline # <<>> => IsStarted(r)
      /\ IsOpen(s) => r.state = s.state /\ r.request = s.request
      /\ ~ IsOpen(s) => ~ IsOpen(r)
      /\ r.request => r.state = "Starting"
  BY <1>0, FillShape
<1>2. PICK new \in Seq(Batch) :
        /\ r.pipeline = s.pipeline \o new
        /\ r.up = IF IsOpen(s) /\ s.handshake THEN s.up \o new ELSE s.up
        /\ r.idle => \/ r.pipeline = <<>> /\ IsOpen(s)
                     \/ s.idle /\ (new = <<>> \/ ~ (IsOpen(s) /\ s.handshake))
  BY <1>0, FillShape
<1> HIDE DEF r
<1>3. IsOpen(s) <=> IsOpen(r)
  BY <1>1 DEF IsOpen
<1>4. r.idle => r.pipeline = <<>> /\ r.handshake
  <2>1. ASSUME r.pipeline = <<>>, IsOpen(s) PROVE r.handshake
    BY <2>1, <1>1
  <2>2. ASSUME s.idle, new = <<>> \/ ~ (IsOpen(s) /\ s.handshake)
        PROVE  r.pipeline = <<>> /\ r.handshake
    <3>1. s.pipeline = <<>> /\ s.handshake /\ IsOpen(s)
      BY <2>2 DEF WireSound
    <3>2. new = <<>>
      BY <2>2, <3>1
    <3>3. r.pipeline = <<>> \o <<>>
      BY <3>1, <3>2, <1>2
    <3> QED
      BY <3>1, <3>3, <1>1
  <2> QED
    BY <2>1, <2>2, <1>2
<1>5. r.handshake => IsOpen(r)
  BY <1>1, <1>3 DEF WireSound
<1>6. ~ IsOpen(r) => r.up = <<>> /\ r.down = <<>>
  BY <1>1, <1>2, <1>3 DEF WireSound
<1>7. IsOpen(r) /\ ~ r.handshake => Greeting(r)
  BY <1>1, <1>2, <1>3 DEF WireSound, Greeting
<1>8. ASSUME r.handshake PROVE Established(r)
  <2>1. Established(s) /\ IsOpen(s) /\ s.handshake
    BY <1>8, <1>1 DEF WireSound
  <2> QED
    BY <2>1, <1>1, <1>2, EstablishedGrows
<1>9. StreamSound(r)
  BY <1>1, <1>4, <1>5, <1>6, <1>7, <1>8 DEF StreamSound, WireSound
<1> QED
  BY <1>1, <1>9 DEF r

(* Taking from the front of two sequences in a row.                        *)
LEMMA ConcatTail ==
  ASSUME NEW S, NEW a \in Seq(S), NEW b \in Seq(S), a # <<>>
  PROVE  /\ a \o b # <<>> /\ Tail(a) \in Seq(S) /\ Tail(a) \o b = Tail(a \o b)
         /\ Len(a) \in Nat /\ Len(a) > 0 /\ Len(Tail(a)) = Len(a) - 1
<1>1. /\ Len(a) \in Nat /\ Len(a) > 0 /\ Len(b) \in Nat
      /\ Tail(a) \in Seq(S) /\ Len(Tail(a)) = Len(a) - 1
      /\ a \o b \in Seq(S) /\ Len(a \o b) = Len(a) + Len(b)
  OBVIOUS
<1>2. a \o b # <<>>
  BY <1>1
<1>3. /\ Tail(a \o b) \in Seq(S) /\ Len(Tail(a \o b)) = Len(a) + Len(b) - 1
      /\ Tail(a) \o b \in Seq(S) /\ Len(Tail(a) \o b) = Len(a) - 1 + Len(b)
  BY <1>1, <1>2
<1>4. ASSUME NEW i \in 1..(Len(a) + Len(b) - 1)
      PROVE  (Tail(a) \o b)[i] = Tail(a \o b)[i]
  <2>1. PICK k : k = i + 1
    OBVIOUS
  <2>2. Tail(a \o b)[i] = (a \o b)[k]
    BY <1>1, <1>2, <1>3, <2>1
  <2>3. k \in 1..(Len(a) + Len(b)) /\ k \in Int
    BY <1>1, <2>1
  <2>4. CASE k <= Len(a)
    <3>1. (a \o b)[k] = a[k]
      BY <2>3, <2>4, <1>1
    <3>2. i \in 1..Len(Tail(a)) /\ Tail(a)[i] = a[k]
      BY <2>1, <2>3, <2>4, <1>1
    <3>3. (Tail(a) \o b)[i] = Tail(a)[i]
      BY <3>2, <1>1
    <3> QED
      BY <3>1, <3>2, <3>3, <2>2
  <2>5. CASE k > Len(a)
    <3>1. (a \o b)[k] = b[k - Len(a)]
      BY <2>3, <2>5, <1>1
    <3>2. i > Len(Tail(a)) /\ i <= Len(Tail(a)) + Len(b) /\ i - Len(Tail(a)) = k - Len(a)
      BY <2>1, <2>3, <2>5, <1>1
    <3>3. (Tail(a) \o b)[i] = b[i - Len(Tail(a))]
      BY <3>2, <1>1
    <3> QED
      BY <3>1, <3>2, <3>3, <2>2
  <2> QED
    BY <2>3, <2>4, <2>5, <1>1
<1>5. Tail(a) \o b = Tail(a \o b)
  BY <1>1, <1>3, <1>4, SeqEqual
<1> QED
  BY <1>1, <1>2, <1>5

(* Moving the first element of one sequence to the end of another.         *)
LEMMA ConcatMove ==
  ASSUME NEW S, NEW a \in Seq(S), NEW b \in Seq(S), b # <<>>
  PROVE  /\ Append(a, Head(b)) \in Seq(S) /\ Tail(b) \in Seq(S)
         /\ Append(a, Head(b)) \o Tail(b) = a \o b
         /\ Len(a) \in 0..(Len(a \o b) - 1)
         /\ (a \o b)[Len(a) + 1] = Head(b)
         /\ SubSeq(a \o b, 1, Len(a)) = a
<1>1. /\ Len(a) \in Nat /\ Len(b) \in Nat /\ Len(b) > 0
      /\ Head(b) \in S /\ Head(b) = b[1]
      /\ Tail(b) \in Seq(S) /\ Len(Tail(b)) = Len(b) - 1
      /\ a \o b \in Seq(S) /\ Len(a \o b) = Len(a) + Len(b)
  OBVIOUS
<1>2. Append(a, Head(b)) \in Seq(S) /\ Len(Append(a, Head(b))) = Len(a) + 1
  BY <1>1
<1>3. (a \o b)[Len(a) + 1] = Head(b)
  BY <1>1
<1>4. Len(a) \in 0..(Len(a \o b) - 1) /\ Len(a) \in 0..Len(a \o b)
  BY <1>1
<1>5. SubSeq(a \o b, 1, Len(a)) = a
  <2>1. /\ SubSeq(a \o b, 1, Len(a)) \in Seq(S)
        /\ Len(SubSeq(a \o b, 1, Len(a))) = Len(a)
        /\ \A i \in 1..Len(a) : SubSeq(a \o b, 1, Len(a))[i] = (a \o b)[i]
    BY <1>1, <1>4, HeadPart
  <2>2. \A i \in 1..Len(a) : (a \o b)[i] = a[i]
    OBVIOUS
  <2> QED
    BY <2>1, <2>2, SeqEqual
<1>6. Append(a, Head(b)) \o Tail(b) = a \o b
  <2>1. Append(a, Head(b)) = a \o <<Head(b)>>
    BY <1>1
  <2>2. <<Head(b)>> \in Seq(S) /\ <<Head(b)>> \o Tail(b) = b
    BY <1>1
  <2>3. ASSUME NEW x \in Seq(S), NEW y \in Seq(S), NEW z \in Seq(S)
        PROVE  (x \o y) \o z = x \o (y \o z)
    BY ONLY x \in Seq(S), y \in Seq(S), z \in Seq(S), ConcatAssociative
  <2> QED
    BY <2>1, <2>2, <2>3, <1>1
<1> QED
  BY <1>1, <1>2, <1>3, <1>4, <1>5, <1>6

(***************************************************************************)
(* Reading the wire: which answer can be the next, and to what.            *)
(***************************************************************************)
(* On an established stream either all that came down are results, or they *)
(* are followed by the refusal.                                            *)
LEMMA ResultsShape ==
  ASSUME NEW s \in RsType, s.handshake, Established(s)
  PROVE  \/ /\ s.down \in Seq(Batch) /\ s.up \in Seq(Batch)
            /\ s.down \o s.up = s.pipeline
            /\ ~ Ended(s) /\ Results(s) = s.down
         \/ \E m \in 0..(Len(s.pipeline) - 1) :
              /\ s.down = Append(SubSeq(s.pipeline, 1, m), Refusal)
              /\ Ended(s)
              /\ Results(s) = SubSeq(s.pipeline, 1, m)
              /\ Len(Results(s)) = m
<1>1. s.pipeline \in Seq(Batch) /\ Len(s.pipeline) \in Nat
  BY DEF RsType
<1>2. ASSUME s.down \in Seq(Batch) PROVE ~ Ended(s) /\ Results(s) = s.down
  <2>1. ASSUME s.down # <<>> PROVE Last(s.down) \in Batch
    <3>1. Len(s.down) \in 1..Len(s.down)
      BY <1>2, <2>1
    <3> QED
      BY <1>2, <3>1 DEF Last
  <2>2. ~ Ended(s)
    BY <2>1, BatchFacts DEF Ended
  <2> QED
    BY <2>2 DEF Results
<1>3. ASSUME NEW m \in 0..(Len(s.pipeline) - 1),
             s.down = Append(SubSeq(s.pipeline, 1, m), Refusal)
      PROVE  /\ Ended(s)
             /\ Results(s) = SubSeq(s.pipeline, 1, m)
             /\ Len(Results(s)) = m
  <2>0. m \in 0..Len(s.pipeline) /\ m \in Nat
    BY <1>1
  <2>1. PICK p : p = SubSeq(s.pipeline, 1, m)
    OBVIOUS
  <2>2. p \in Seq(Batch) /\ Len(p) = m
    BY <2>0, <2>1, <1>1, HeadPart
  <2>3. p \in Seq(Batch \cup {Refusal})
    BY <2>2, SeqMonotonic
  <2>4. /\ s.down = Append(p, Refusal) /\ s.down \in Seq(Batch \cup {Refusal})
        /\ Len(s.down) = m + 1 /\ s.down[m + 1] = Refusal
        /\ \A i \in 1..m : s.down[i] = p[i]
    BY <1>3, <2>0, <2>1, <2>2, <2>3
  <2>5. Ended(s)
    <3>1. s.down # <<>>
      BY <2>4, <2>0
    <3> QED
      BY <2>4, <3>1 DEF Ended, Last
  <2>6. Front(s.down) = SubSeq(s.down, 1, m)
    <3>1. Len(s.down) - 1 = m
      BY <2>4, <2>0
    <3> QED
      BY <3>1 DEF Front
  <2>7. m \in 0..Len(s.down)
    BY <2>0, <2>4
  <2>8. /\ Front(s.down) \in Seq(Batch \cup {Refusal})
        /\ Len(Front(s.down)) = m
        /\ \A i \in 1..m : Front(s.down)[i] = s.down[i]
    BY <2>4, <2>6, <2>7, HeadPart
  <2>9. Front(s.down) = p
    BY <2>2, <2>3, <2>4, <2>8, SeqEqual
  <2> QED
    BY <2>1, <2>2, <2>5, <2>9 DEF Results
<1> QED
  BY <1>2, <1>3 DEF Established

(* An answer to the handshake: nothing else is under way.                  *)
LEMMA HandshakeComes ==
  ASSUME NEW s \in RsType, WireSound(s), s.down # <<>>, Head(s.down) = Handshake
  PROVE  IsOpen(s) /\ ~ s.handshake /\ s.up = <<>> /\ s.down = <<Handshake>>
<1>1. IsOpen(s)
  BY DEF WireSound
<1>2. ASSUME s.handshake PROVE FALSE
  <2>1. Established(s)
    BY <1>2 DEF WireSound
  <2>2. ASSUME s.down \in Seq(Batch) PROVE FALSE
    <3>1. Head(s.down) \in Batch
      BY <2>2
    <3> QED
      BY <3>1, BatchFacts
  <2>3. ASSUME NEW m \in 0..(Len(s.pipeline) - 1),
               s.down = Append(SubSeq(s.pipeline, 1, m), Refusal)
        PROVE  FALSE
    <3>1. s.pipeline \in Seq(Batch) /\ m \in 0..Len(s.pipeline)
      BY DEF RsType
    <3>2. SubSeq(s.pipeline, 1, m) \in Seq(Batch)
      BY <3>1, HeadPart
    <3>3. SubSeq(s.pipeline, 1, m) \in Seq(Batch \cup {Refusal})
      BY <3>2, SeqMonotonic
    <3>4. s.down \in Seq(Batch \cup {Refusal})
      BY <2>3, <3>3
    <3>5. Head(s.down) \in Batch \cup {Refusal}
      BY <3>4
    <3> QED
      BY <3>5, BatchFacts
  <2> QED
    BY <2>1, <2>2, <2>3 DEF Established
<1>3. Greeting(s)
  BY <1>1, <1>2 DEF WireSound
<1> QED
  BY <1>1, <1>2, <1>3 DEF Greeting

(* A result: it answers the first write of the pipeline, and what is left  *)
(* on the wire matches the rest.                                           *)
LEMMA ResultComes ==
  ASSUME NEW s \in RsType, WireSound(s), s.down # <<>>, Head(s.down) \in Batch
  PROVE  LET r == WithoutFirst([s EXCEPT !.down = Tail(@)]) IN
         /\ s.handshake /\ IsOpen(s) /\ s.pipeline # <<>> /\ ~ s.idle
         /\ r \in RsType
         /\ r.pipeline = Tail(s.pipeline) /\ r.down = Tail(s.down)
         /\ r.up = s.up /\ r.handshake = s.handshake /\ r.idle = s.idle
         /\ r.state = s.state /\ r.request = s.request
         /\ Established(r)
         /\ Len(Results(s)) > 0
         /\ Len(Results(r)) = Len(Results(s)) - 1
<1> DEFINE r == WithoutFirst([s EXCEPT !.down = Tail(@)])
<1>1. IsOpen(s)
  BY DEF WireSound
<1>2. s.handshake
  <2>1. ASSUME ~ s.handshake PROVE FALSE
    <3>1. s.down = <<Handshake>>
      BY <1>1, <2>1 DEF WireSound, Greeting
    <3>2. Head(s.down) = Handshake
      BY <3>1
    <3> QED
      BY <3>2, BatchFacts
  <2> QED
    BY <2>1 DEF RsType
<1>3. Established(s)
  BY <1>2 DEF WireSound
<1>4. s.pipeline \in Seq(Batch) /\ s.down \in Seq(Batch \cup {Handshake, Refusal})
      /\ s.up \in Seq(Batch \cup {Handshake})
  BY DEF RsType
<1>5. ASSUME s.pipeline # <<>>
      PROVE  /\ r \in RsType
             /\ r.pipeline = Tail(s.pipeline) /\ r.down = Tail(s.down)
             /\ r.up = s.up /\ r.handshake = s.handshake /\ r.idle = s.idle
             /\ r.state = s.state /\ r.request = s.request
  <2>1. /\ Tail(s.pipeline) \in Seq(Batch)
        /\ Tail(s.down) \in Seq(Batch \cup {Handshake, Refusal})
    BY <1>4, <1>5, HeadTailProperties
  <2>2. r = [s EXCEPT !.down = Tail(@), !.pipeline = Tail(@)]
    BY DEF WithoutFirst, RsType
  <2>3. r \in RsType
    BY <2>1, <2>2 DEF RsType
  <2> QED
    BY <2>2, <2>3 DEF RsType
<1> HIDE DEF r
<1>6. ASSUME s.down \in Seq(Batch), s.up \in Seq(Batch), s.down \o s.up = s.pipeline,
             Results(s) = s.down
      PROVE  /\ s.pipeline # <<>> /\ Established(r) /\ Len(Results(s)) > 0
             /\ Len(Results(r)) = Len(Results(s)) - 1
  <2>1. PICK a, c : a = s.down /\ c = s.up
    OBVIOUS
  <2>2. /\ a \o c # <<>> /\ Tail(a) \in Seq(Batch) /\ Tail(a) \o c = Tail(a \o c)
        /\ Len(a) \in Nat /\ Len(a) > 0 /\ Len(Tail(a)) = Len(a) - 1
    BY <2>1, <1>6, ConcatTail
  <2>3. /\ s.pipeline # <<>> /\ Tail(s.down) \in Seq(Batch)
        /\ Tail(s.down) \o s.up = Tail(s.pipeline)
    BY <2>1, <2>2, <1>6
  <2>4. Established(r)
    BY <1>5, <2>3, <1>6 DEF Established
  <2>5. Results(r) = Tail(s.down)
    <3>1. r.handshake /\ r.down \in Seq(Batch)
      BY <1>2, <1>5, <2>3
    <3>2. ~ Ended(r)
      <4>1. ASSUME r.down # <<>> PROVE Last(r.down) \in Batch
        <5>1. Len(r.down) \in 1..Len(r.down)
          BY <3>1, <4>1
        <5> QED
          BY <3>1, <5>1 DEF Last
      <4> QED
        BY <4>1, BatchFacts DEF Ended
    <3> QED
      BY <3>1, <3>2, <1>5, <2>3 DEF Results
  <2>6. Len(Tail(s.down)) = Len(s.down) - 1 /\ Len(s.down) > 0
    BY <2>1, <2>2
  <2> QED
    BY <2>3, <2>4, <2>5, <2>6, <1>6
<1>7. ASSUME NEW m \in 0..(Len(s.pipeline) - 1),
             s.down = Append(SubSeq(s.pipeline, 1, m), Refusal), Len(Results(s)) = m
      PROVE  /\ s.pipeline # <<>> /\ Established(r) /\ Len(Results(s)) > 0
             /\ Len(Results(r)) = Len(Results(s)) - 1
  <2>1. Len(s.pipeline) \in Nat /\ m \in Nat /\ m < Len(s.pipeline) /\ m \in 0..Len(s.pipeline)
    BY <1>4
  <2>2. s.pipeline # <<>>
    BY <2>1
  <2>3. PICK p : p = SubSeq(s.pipeline, 1, m)
    OBVIOUS
  <2>4. p \in Seq(Batch) /\ Len(p) = m
    BY <2>1, <2>3, <1>4, HeadPart
  <2>5. p \in Seq(Batch \cup {Refusal})
    BY <2>4, SeqMonotonic
  <2>6. m # 0
    <3>1. ASSUME m = 0 PROVE FALSE
      <4>1. p = <<>>
        BY <3>1, <2>4
      <4>2. Head(s.down) = Refusal
        BY <4>1, <2>3, <1>7
      <4> QED
        BY <4>2, BatchFacts
    <3> QED
      BY <3>1
  <2>7. p # <<>> /\ Tail(s.down) = Append(Tail(p), Refusal)
    <3>1. p # <<>>
      BY <2>4, <2>6
    <3>2. Tail(Append(p, Refusal)) = Append(Tail(p), Refusal)
      BY <2>5, <3>1
    <3> QED
      BY <3>1, <3>2, <2>3, <1>7
  <2>8. PICK n : n = m - 1
    OBVIOUS
  <2>9. Len(Tail(s.pipeline)) = Len(s.pipeline) - 1 /\ Tail(s.pipeline) \in Seq(Batch)
    BY <1>4, <2>2
  <2>10. n \in 0..(Len(Tail(s.pipeline)) - 1) /\ n \in 0..Len(Tail(s.pipeline)) /\ n \in Nat
    BY <2>1, <2>6, <2>8, <2>9
  <2>11. /\ Tail(p) \in Seq(Batch) /\ Len(Tail(p)) = n
         /\ \A i \in 1..n : Tail(p)[i] = p[i + 1]
    BY <2>4, <2>7, <2>8, HeadTailProperties
  <2>12. /\ SubSeq(Tail(s.pipeline), 1, n) \in Seq(Batch)
         /\ Len(SubSeq(Tail(s.pipeline), 1, n)) = n
         /\ \A i \in 1..n : SubSeq(Tail(s.pipeline), 1, n)[i] = Tail(s.pipeline)[i]
    BY <2>9, <2>10, HeadPart
  <2>13. ASSUME NEW i \in 1..n PROVE Tail(p)[i] = SubSeq(Tail(s.pipeline), 1, n)[i]
    <3>1. PICK k : k = i + 1
      OBVIOUS
    <3>2. k \in 1..m /\ i \in 1..Len(Tail(s.pipeline))
      BY <3>1, <2>8, <2>10, <2>1
    <3>3. p[k] = s.pipeline[k]
      BY <3>2, <2>1, <2>3, <1>4, HeadPart
    <3>4. Tail(s.pipeline)[i] = s.pipeline[k]
      BY <3>1, <3>2, <1>4, <2>2, HeadTailProperties
    <3> QED
      BY <3>1, <3>3, <3>4, <2>11, <2>12
  <2>14. Tail(p) = SubSeq(Tail(s.pipeline), 1, n)
    BY <2>11, <2>12, <2>13, SeqEqual
  <2>15. Established(r)
    BY <2>2, <2>7, <2>10, <2>14, <1>5 DEF Established
  <2>16. Len(Results(r)) = n
    <3>1. r.handshake /\ r \in RsType /\ r.down = Append(Tail(p), Refusal)
      BY <1>2, <1>5, <2>2, <2>7
    <3>2. Tail(p) \in Seq(Batch \cup {Refusal})
      BY <2>11, SeqMonotonic
    <3>3. /\ Len(r.down) = n + 1 /\ r.down[n + 1] = Refusal
          /\ r.down \in Seq(Batch \cup {Refusal})
      BY <3>1, <3>2, <2>10, <2>11
    <3>4. Ended(r)
      BY <3>3, <2>10 DEF Ended, Last
    <3>5. Len(r.down) - 1 = n /\ n \in 0..Len(r.down)
      BY <3>3, <2>10
    <3>6. Results(r) = SubSeq(r.down, 1, n)
      BY <3>1, <3>4, <3>5 DEF Results, Front
    <3> QED
      BY <3>3, <3>5, <3>6, HeadPart
  <2> QED
    BY <2>1, <2>2, <2>6, <2>8, <2>15, <2>16, <1>7
<1>8. /\ s.pipeline # <<>> /\ Established(r) /\ Len(Results(s)) > 0
      /\ Len(Results(r)) = Len(Results(s)) - 1
  BY <1>2, <1>3, <1>6, <1>7, ResultsShape
<1>9. ~ s.idle
  BY <1>8 DEF WireSound
<1> QED
  BY <1>1, <1>2, <1>5, <1>8, <1>9 DEF r

(* The refusal: it is the first write of the pipeline that is refused.     *)
LEMMA RefusalComes ==
  ASSUME NEW s \in RsType, WireSound(s), s.down # <<>>, Head(s.down) = Refusal
  PROVE  s.handshake /\ IsOpen(s) /\ s.pipeline # <<>> /\ Len(Results(s)) = 0
<1>1. IsOpen(s)
  BY DEF WireSound
<1>2. s.handshake
  <2>1. ASSUME ~ s.handshake PROVE FALSE
    <3>1. s.down = <<Handshake>>
      BY <1>1, <2>1 DEF WireSound, Greeting
    <3>2. Head(s.down) = Handshake
      BY <3>1
    <3> QED
      BY <3>2, BatchFacts
  <2> QED
    BY <2>1 DEF RsType
<1>3. Established(s)
  BY <1>2 DEF WireSound
<1>4. s.pipeline \in Seq(Batch) /\ Len(s.pipeline) \in Nat
  BY DEF RsType
<1>5. ~ (s.down \in Seq(Batch))
  <2>1. ASSUME s.down \in Seq(Batch) PROVE FALSE
    <3>1. Head(s.down) \in Batch
      BY <2>1
    <3> QED
      BY <3>1, BatchFacts
  <2> QED
    BY <2>1
<1>6. PICK m \in 0..(Len(s.pipeline) - 1) :
        s.down = Append(SubSeq(s.pipeline, 1, m), Refusal) /\ Len(Results(s)) = m
  BY <1>2, <1>3, <1>5, ResultsShape
<1>7. m = 0
  <2>1. ASSUME m # 0 PROVE FALSE
    <3>1. m \in Nat /\ m >= 1 /\ m \in 0..Len(s.pipeline)
      BY <2>1, <1>4
    <3>2. PICK p : p = SubSeq(s.pipeline, 1, m)
      OBVIOUS
    <3>3. p \in Seq(Batch) /\ Len(p) = m
      BY <3>1, <3>2, <1>4, HeadPart
    <3>4. p \in Seq(Batch \cup {Refusal}) /\ p # <<>> /\ p[1] \in Batch
      BY <3>1, <3>3, SeqMonotonic
    <3>5. Head(Append(p, Refusal)) = p[1]
      BY <3>3, <3>4
    <3> QED
      BY <3>2, <3>4, <3>5, <1>6, BatchFacts
  <2> QED
    BY <2>1
<1>8. s.pipeline # <<>>
  BY <1>4, <1>6, <1>7
<1> QED
  BY <1>1, <1>2, <1>6, <1>7, <1>8

(* What the server reads first on a stream it has not ended.               *)
LEMMA RequestComes ==
  ASSUME NEW s \in RsType, WireSound(s), s.up # <<>>, ~ Ended(s)
  PROVE  /\ IsOpen(s)
         /\ Head(s.up) \in Batch =>
              /\ s.handshake /\ s.down \in Seq(Batch) /\ s.up \in Seq(Batch)
              /\ s.down \o s.up = s.pipeline /\ Results(s) = s.down
         /\ Head(s.up) = Handshake =>
              ~ s.handshake /\ s.up = <<Handshake>> /\ s.down = <<>>
<1>1. IsOpen(s)
  BY DEF WireSound
<1>2. ASSUME s.handshake
      PROVE  /\ s.down \in Seq(Batch) /\ s.up \in Seq(Batch)
             /\ s.down \o s.up = s.pipeline /\ Results(s) = s.down
             /\ Head(s.up) \in Batch /\ Head(s.up) # Handshake
  <2>1. Established(s)
    BY <1>2 DEF WireSound
  <2>2. /\ s.down \in Seq(Batch) /\ s.up \in Seq(Batch)
        /\ s.down \o s.up = s.pipeline /\ Results(s) = s.down
    BY <1>2, <2>1, ResultsShape
  <2>3. Head(s.up) \in Batch
    BY <2>2
  <2> QED
    BY <2>2, <2>3, BatchFacts
<1>3. ASSUME ~ s.handshake
      PROVE  s.up = <<Handshake>> /\ s.down = <<>> /\ Head(s.up) \notin Batch
  <2>1. s.up = <<Handshake>> /\ s.down = <<>>
    BY <1>1, <1>3 DEF WireSound, Greeting
  <2>2. Head(s.up) = Handshake
    BY <2>1
  <2> QED
    BY <2>1, <2>2, BatchFacts
<1>4. s.handshake \in BOOLEAN
  BY DEF RsType
<1>5. CASE s.handshake
  BY <1>1, <1>2, <1>5
<1>6. CASE ~ s.handshake
  BY <1>1, <1>3, <1>6
<1> QED
  BY <1>4, <1>5, <1>6

(* The server's answer moves along the wire without a word lost.           *)
LEMMA ReplyShape ==
  ASSUME NEW s \in RsType, s.up # <<>>, NEW a \in Batch \cup {Handshake, Refusal}
  PROVE  LET r == [s EXCEPT !.up = Tail(@), !.down = Append(@, a)] IN
         /\ r \in RsType
         /\ r.up = Tail(s.up) /\ r.down = Append(s.down, a)
         /\ r.pipeline = s.pipeline /\ r.handshake = s.handshake
         /\ r.state = s.state /\ r.idle = s.idle /\ r.request = s.request
<1>1. /\ s.up \in Seq(Batch \cup {Handshake})
      /\ s.down \in Seq(Batch \cup {Handshake, Refusal})
  BY DEF RsType
<1>2. /\ Tail(s.up) \in Seq(Batch \cup {Handshake})
      /\ Append(s.down, a) \in Seq(Batch \cup {Handshake, Refusal})
  BY <1>1
<1>3. [s EXCEPT !.up = Tail(@), !.down = Append(@, a)] \in RsType
  BY <1>2 DEF RsType
<1> QED
  BY <1>3 DEF RsType

(* A server that applies or refuses the next write keeps wire and pipeline *)
(* in step.                                                                *)
LEMMA ServerAnswers ==
  ASSUME NEW s \in RsType, StreamSound(s), s.up # <<>>, ~ Ended(s), Head(s.up) \in Batch,
         NEW a, a = Head(s.up) \/ a = Refusal
  PROVE  LET r == [s EXCEPT !.up = Tail(@), !.down = Append(@, a)] IN
         /\ r \in RsType /\ StreamSound(r) /\ r.pipeline = s.pipeline
         /\ Len(Results(s)) \in 0..(Len(s.pipeline) - 1)
         /\ s.pipeline[Len(Results(s)) + 1] = Head(s.up)
         /\ Len(Results(r)) = Len(Results(s)) + IF a = Refusal THEN 0 ELSE 1
<1> DEFINE r == [s EXCEPT !.up = Tail(@), !.down = Append(@, a)]
<1>1. WireSound(s) /\ (s.pipeline # <<>> => IsStarted(s))
  BY DEF StreamSound
<1>2. /\ IsOpen(s) /\ s.handshake /\ s.down \in Seq(Batch) /\ s.up \in Seq(Batch)
      /\ s.down \o s.up = s.pipeline /\ Results(s) = s.down
  BY <1>1, RequestComes
<1>3. /\ r \in RsType
      /\ r.up = Tail(s.up) /\ r.down = Append(s.down, a)
      /\ r.pipeline = s.pipeline /\ r.handshake = s.handshake
      /\ r.state = s.state /\ r.idle = s.idle /\ r.request = s.request
  BY ReplyShape
<1> HIDE DEF r
<1>4. PICK d, u : d = s.down /\ u = s.up
  OBVIOUS
<1>5. /\ Append(d, Head(u)) \in Seq(Batch) /\ Tail(u) \in Seq(Batch)
      /\ Append(d, Head(u)) \o Tail(u) = d \o u
      /\ Len(d) \in 0..(Len(d \o u) - 1)
      /\ (d \o u)[Len(d) + 1] = Head(u)
      /\ SubSeq(d \o u, 1, Len(d)) = d
  <2>1. d \in Seq(Batch) /\ u \in Seq(Batch) /\ u # <<>>
    BY <1>2, <1>4
  <2> QED
    BY ONLY <2>1, ConcatMove
<1>6. Established(r) /\ Len(Results(r)) = Len(d) + IF a = Refusal THEN 0 ELSE 1
  <2>1. CASE a = Refusal
    <3>1. PICK m : m = Len(d)
      OBVIOUS
    <3>2. m \in 0..(Len(r.pipeline) - 1) /\ r.down = Append(SubSeq(r.pipeline, 1, m), Refusal)
      BY <2>1, <3>1, <1>2, <1>3, <1>4, <1>5
    <3>3. Established(r)
      BY <3>2 DEF Established
    <3>4. Refusal \notin Batch /\ d \in Seq(Batch) /\ Len(d) \in Nat
      BY <1>2, <1>4, BatchFacts
    <3>5. d \in Seq(Batch \cup {Refusal})
      BY <3>4, SeqMonotonic
    <3>6. /\ r.down \in Seq(Batch \cup {Refusal})
          /\ Len(r.down) = m + 1 /\ r.down[m + 1] = Refusal
      BY <2>1, <3>1, <3>4, <3>5, <1>3, <1>4
    <3>7. Ended(r)
      BY <3>1, <3>4, <3>6 DEF Ended, Last
    <3>8. Len(r.down) - 1 = m /\ m \in 0..Len(r.down)
      BY <3>1, <3>4, <3>6
    <3>9. Results(r) = SubSeq(r.down, 1, m)
      BY <3>7, <3>8, <1>2, <1>3 DEF Results, Front
    <3>10. Len(Results(r)) = m
      BY <3>6, <3>8, <3>9, HeadPart
    <3> QED
      BY <2>1, <3>1, <3>3, <3>4, <3>10
  <2>2. CASE a # Refusal
    <3>1. a = Head(s.up)
      BY <2>2
    <3>2. /\ r.down \in Seq(Batch) /\ r.up \in Seq(Batch) /\ r.down \o r.up = r.pipeline
      BY <3>1, <1>2, <1>3, <1>4, <1>5
    <3>3. Established(r)
      BY <3>2 DEF Established
    <3>4. Results(r) = r.down
      <4>1. Refusal \notin Batch
        BY BatchFacts
      <4>2. ASSUME r.down # <<>> PROVE Last(r.down) \in Batch
        <5>1. Len(r.down) \in 1..Len(r.down)
          BY <3>2, <4>2
        <5> QED
          BY <3>2, <5>1 DEF Last
      <4> QED
        BY <4>1, <4>2, <1>2, <1>3 DEF Results, Ended
    <3>5. Len(r.down) = Len(d) + 1
      BY <1>2, <1>3, <1>4
    <3> QED
      BY <2>2, <3>3, <3>4, <3>5
  <2> QED
    BY <2>1, <2>2
<1>7. StreamSound(r)
  BY <1>1, <1>2, <1>3, <1>6 DEF StreamSound, WireSound, IsOpen, IsStarted
<1> QED
  BY <1>2, <1>3, <1>4, <1>5, <1>6, <1>7 DEF r

(***************************************************************************)
(* What holds of the mutation queues and the callbacks.                    *)
(***************************************************************************)
QueueTypes ==
  /\ issued \in Seq(User) /\ Len(issued) <= MaxWrites
  /\ user \in User
  /\ queue \in [User -> Seq(Batch)]
  /\ callbacks \in [User -> SUBSET Batch]
  /\ nextId \in 1..(Len(issued) + 1)
  /\ told \in [Write -> {"nothing", "done", "refused"}]
  /\ token \in {"good", "stale"}
  /\ log \in Seq(Write)
  /\ trouble \in 0..MaxTrouble

QueuesInOrder == \A u \in User : Ascending(queue[u])

(* A queued batch has an id given out already and carries a write its      *)
(* owner issued.                                                           *)
BatchesKnown ==
  \A u \in User : \A i \in DOMAIN queue[u] :
    /\ queue[u][i].id < nextId
    /\ queue[u][i].w <= Len(issued)
    /\ issued[queue[u][i].w] = u

QueueInv ==
  /\ QueueTypes
  /\ QueuesInOrder
  /\ BatchesKnown
  /\ CallbackOfItsBatch
  /\ IdsUnique

WriteInv ==
  /\ QueueInv
  /\ rs \in RsType
  /\ StreamSound(rs)
  /\ rs.pipeline = Filled(queue[user])

(* Every set of naturals has a least element.                              *)
LEMMA LeastNatural ==
  ASSUME NEW T \in SUBSET Nat, T # {}
  PROVE  \E x \in T : \A y \in T : x <= y
<1> DEFINE R == {p \in Nat \X Nat : p[1] < p[2]}
<1>1. OpToRel(<, Nat) = R
  BY Zenon DEF OpToRel
<1>2. IsWellFoundedOn(R, Nat)
  BY <1>1, NatLessThanWellFounded, Zenon
<1> HIDE DEF R
<1>3. PICK x \in T : \A y \in T : ~(<<y, x>> \in R)
  BY <1>2, WFMin
<1>4. ASSUME NEW y \in T PROVE x <= y
  <2>1. <<y, x>> \in Nat \X Nat /\ ~(<<y, x>> \in R)
    BY <1>3
  <2>2. ~(y < x)
    BY <2>1 DEF R
  <2> QED
    BY <2>2
<1> QED
  BY <1>4

(* A bounded set of naturals has a greatest element, or is empty.          *)
LEMMA GreatestNatural ==
  ASSUME NEW S \in SUBSET Nat, NEW n \in Nat, \A x \in S : x <= n
  PROVE  \E m \in {0} \cup S : \A x \in S : x <= m
<1> DEFINE T == {k \in Nat : \A x \in S : x <= k}
<1>1. T \in SUBSET Nat /\ n \in T
  OBVIOUS
<1>2. PICK m \in T : \A k \in T : m <= k
  <2> HIDE DEF T
  <2> QED
    BY <1>1, LeastNatural
<1>3. m \in Nat /\ \A x \in S : x <= m
  OBVIOUS
<1>4. m \in {0} \cup S
  <2>1. ASSUME m # 0, m \notin S PROVE FALSE
    <3>1. m - 1 \in Nat
      BY <2>1, <1>3
    <3>2. \A x \in S : x <= m - 1
      BY <2>1, <1>3
    <3>3. m - 1 \in T
      BY <3>1, <3>2
    <3>4. m <= m - 1
      BY <3>3, <1>2
    <3> QED
      BY <3>4, <1>3
  <2> QED
    BY <2>1
<1> QED
  BY <1>3, <1>4

(* Where a queued batch is found.                                          *)
LEMMA InAllBatches ==
  ASSUME NEW b
  PROVE  b \in AllBatches <=> \E u \in User : \E i \in DOMAIN queue[u] : b = queue[u][i]
BY DEF AllBatches, ToSet

(* The next id counted from the database is above every id in use and not  *)
(* above the one counted in memory.                                        *)
LEMMA NextIdReloaded ==
  ASSUME QueueInv
  PROVE  /\ LoadNextBatchIdFromDb \in 1..nextId
         /\ \A u \in User : \A i \in DOMAIN queue[u] :
              queue[u][i].id < LoadNextBatchIdFromDb
<1> DEFINE Ids == {b.id : b \in AllBatches}
<1>1. nextId \in Nat /\ nextId >= 1
  BY DEF QueueInv, QueueTypes
<1>2. ASSUME NEW u \in User, NEW i \in DOMAIN queue[u]
      PROVE  queue[u][i] \in Batch /\ queue[u][i].id < nextId
  <2>1. queue[u] \in Seq(Batch)
    BY DEF QueueInv, QueueTypes
  <2> QED
    BY <2>1 DEF QueueInv, BatchesKnown
<1>3. \A b \in AllBatches : b.id \in Nat /\ b.id < nextId
  BY <1>2, InAllBatches, BatchFacts
<1>4. Ids \in SUBSET Nat /\ \A x \in Ids : x <= nextId - 1
  BY <1>1, <1>3
<1>5. PICK m \in {0} \cup Ids : \A x \in Ids : x <= m
  <2> HIDE DEF Ids
  <2>1. nextId - 1 \in Nat
    BY <1>1
  <2>2. PICK n : n = nextId - 1
    OBVIOUS
  <2>3. n \in Nat /\ \A x \in Ids : x <= n
    BY <1>4, <2>1, <2>2
  <2> QED
    BY <1>4, <2>3, GreatestNatural
<1>6. \A b \in AllBatches : b.id <= m
  BY <1>5
<1>7. PICK k \in {0} \cup Ids : (\A b \in AllBatches : b.id <= k) /\ LoadNextBatchIdFromDb = 1 + k
  BY <1>5, <1>6 DEF LoadNextBatchIdFromDb
<1>8. k \in Nat /\ k < nextId
  <2> HIDE DEF Ids
  <2>1. k = 0 \/ (k \in Nat /\ k <= nextId - 1)
    BY <1>4, <1>7
  <2> QED
    BY <1>1, <2>1
<1>9. LoadNextBatchIdFromDb \in 1..nextId
  BY <1>1, <1>7, <1>8
<1>10. ASSUME NEW u \in User, NEW i \in DOMAIN queue[u]
       PROVE  queue[u][i].id < LoadNextBatchIdFromDb
  <2>1. queue[u][i] \in AllBatches /\ queue[u][i].id \in Nat
    BY <1>2, InAllBatches, BatchFacts
  <2> QED
    BY <2>1, <1>7, <1>8
<1> QED
  BY <1>9, <1>10

(* Issuing a write: the batch at the end of the queue has the newest id    *)
(* and the newest write, and its callback is its own.                      *)
LEMMA IssueKeeps ==
  ASSUME QueueInv, WriteMutations
  PROVE  /\ QueueInv'
         /\ \E b \in Batch :
              /\ b = [id |-> nextId, w |-> Len(issued) + 1]
              /\ queue' = [queue EXCEPT ![user] = Append(queue[user], b)]
              /\ callbacks' = [callbacks EXCEPT ![user] = callbacks[user] \cup {b}]
<1>0. PICK b : b = [id |-> nextId, w |-> Len(issued) + 1]
  OBVIOUS
<1>1. /\ Len(issued) < MaxWrites
      /\ issued' = Append(issued, user)
      /\ queue' = [queue EXCEPT ![user] = Append(queue[user], b)]
      /\ nextId' = nextId + 1
      /\ StoreCallback(b)
      /\ user' = user /\ told' = told /\ token' = token /\ log' = log /\ trouble' = trouble
  BY <1>0 DEF WriteMutations
<1>2. /\ issued \in Seq(User) /\ Len(issued) <= MaxWrites
      /\ user \in User
      /\ queue \in [User -> Seq(Batch)]
      /\ callbacks \in [User -> SUBSET Batch]
      /\ nextId \in 1..(Len(issued) + 1)
      /\ told \in [Write -> {"nothing", "done", "refused"}]
      /\ token \in {"good", "stale"}
      /\ log \in Seq(Write)
      /\ trouble \in 0..MaxTrouble
  BY DEF QueueInv, QueueTypes
<1>3. MaxWrites \in Nat /\ Len(issued) \in Nat /\ nextId \in Nat /\ nextId >= 1
      /\ nextId <= Len(issued) + 1
  BY <1>2, LimitAssumption
<1>4. b \in Batch /\ b.id = nextId /\ b.w = Len(issued) + 1
  <2>1. nextId \in 1..MaxWrites /\ Len(issued) + 1 \in 1..MaxWrites
    BY <1>1, <1>3
  <2> QED
    BY <1>0, <2>1 DEF Batch, Write
<1>5. /\ issued' \in Seq(User) /\ Len(issued') = Len(issued) + 1
      /\ issued'[Len(issued) + 1] = user
      /\ \A i \in 1..Len(issued) : issued'[i] = issued[i]
  BY <1>1, <1>2
<1>6. ASSUME NEW u \in User, NEW i \in DOMAIN queue[u]
      PROVE  /\ queue[u][i] \in Batch
             /\ queue[u][i].id < nextId /\ queue[u][i].id \in Nat
             /\ queue[u][i].w <= Len(issued) /\ queue[u][i].w \in 1..Len(issued)
             /\ issued[queue[u][i].w] = u
  <2>1. queue[u] \in Seq(Batch)
    BY <1>2
  <2>2. queue[u][i] \in Batch
    BY <2>1
  <2>3. /\ queue[u][i].id < nextId
        /\ queue[u][i].w <= Len(issued)
        /\ issued[queue[u][i].w] = u
    BY DEF QueueInv, BatchesKnown
  <2>4. queue[u][i].id \in Nat /\ queue[u][i].w \in Nat /\ queue[u][i].w >= 1
    BY <2>2, BatchFacts
  <2> QED
    BY <2>2, <2>3, <2>4, <1>3
<1>7. callbacks' = [callbacks EXCEPT ![user] = callbacks[user] \cup {b}]
  <2>1. ASSUME NEW c \in callbacks[user] PROVE c.id # b.id
    <3>1. PICK i \in DOMAIN queue[user] : c = queue[user][i]
      BY <1>2 DEF QueueInv, CallbackOfItsBatch, ToSet
    <3>2. queue[user][i].id < nextId /\ queue[user][i].id \in Nat
      BY <1>2, <1>6
    <3> QED
      BY <3>1, <3>2, <1>3, <1>4
  <2> QED
    BY <2>1, <1>1 DEF StoreCallback
<1> DEFINE q == queue[user]
           n == Len(queue[user])
<1>8. /\ q \in Seq(Batch) /\ n \in Nat /\ DOMAIN q = 1..n
      /\ Append(q, b) \in Seq(Batch) /\ DOMAIN Append(q, b) = 1..(n + 1)
      /\ Append(q, b)[n + 1] = b
      /\ \A i \in 1..n : Append(q, b)[i] = q[i]
  <2>1. q \in Seq(Batch)
    BY <1>2
  <2> QED
    BY <2>1, <1>4
<1> HIDE DEF q, n
<1>9. /\ queue' \in [User -> Seq(Batch)]
      /\ queue'[user] = Append(q, b)
      /\ \A u \in User : u # user => queue'[u] = queue[u]
  BY <1>1, <1>2, <1>8 DEF q
<1>10. ASSUME NEW i \in 1..(n + 1)
       PROVE  i = n + 1 \/ i \in 1..n
  BY <1>8
<1>11. ASSUME NEW u \in User, NEW i \in DOMAIN queue'[u]
       PROVE  \/ u = user /\ i = n + 1 /\ queue'[u][i] = b
              \/ i \in DOMAIN queue[u] /\ queue'[u][i] = queue[u][i]
  <2>1. CASE u # user
    BY <2>1, <1>9
  <2>2. CASE u = user
    BY <2>2, <1>8, <1>9, <1>10 DEF q
  <2> QED
    BY <2>1, <2>2
<1>12. QueueTypes'
  <2>1. callbacks' \in [User -> SUBSET Batch]
    BY <1>2, <1>4, <1>7
  <2>2. Len(issued') <= MaxWrites
    BY <1>1, <1>3, <1>5
  <2>3. nextId' \in 1..(Len(issued') + 1)
    BY <1>1, <1>3, <1>5
  <2> QED
    BY <1>1, <1>2, <1>5, <1>9, <2>1, <2>2, <2>3 DEF QueueTypes
<1>13. QueuesInOrder'
  <2> SUFFICES ASSUME NEW u \in User,
                      NEW i \in DOMAIN queue'[u], NEW j \in DOMAIN queue'[u], i < j
               PROVE  queue'[u][i].id < queue'[u][j].id /\ queue'[u][i].w < queue'[u][j].w
    BY DEF QueuesInOrder, Ascending
  <2>1. CASE u # user
    BY <2>1, <1>9 DEF QueueInv, QueuesInOrder, Ascending
  <2>2. CASE u = user
    <3>1. i \in 1..(n + 1) /\ j \in 1..(n + 1)
      BY <2>2, <1>8, <1>9
    <3>2. i \in DOMAIN q /\ queue'[u][i] = q[i]
      BY <2>2, <3>1, <1>8, <1>9
    <3>3. CASE j = n + 1
      BY <2>2, <3>2, <3>3, <1>3, <1>4, <1>6, <1>8, <1>9 DEF q
    <3>4. CASE j \in 1..n
      BY <2>2, <3>2, <3>4, <1>8, <1>9 DEF q, QueueInv, QueuesInOrder, Ascending
    <3> QED
      BY <3>1, <3>3, <3>4, <1>10
  <2> QED
    BY <2>1, <2>2
<1>14. BatchesKnown'
  <2> SUFFICES ASSUME NEW u \in User, NEW i \in DOMAIN queue'[u]
               PROVE  /\ queue'[u][i].id < nextId'
                      /\ queue'[u][i].w <= Len(issued')
                      /\ issued'[queue'[u][i].w] = u
    BY DEF BatchesKnown
  <2>1. ASSUME u = user, queue'[u][i] = b
        PROVE  /\ queue'[u][i].id < nextId + 1
               /\ queue'[u][i].w <= Len(issued) + 1
               /\ issued'[queue'[u][i].w] = u
    BY <2>1, <1>3, <1>4, <1>5
  <2>2. ASSUME i \in DOMAIN queue[u], queue'[u][i] = queue[u][i]
        PROVE  /\ queue'[u][i].id < nextId + 1
               /\ queue'[u][i].w <= Len(issued) + 1
               /\ issued'[queue'[u][i].w] = u
    <3>1. PICK c : c = queue[u][i]
      OBVIOUS
    <3>2. c.id < nextId /\ c.id \in Nat /\ c.w \in 1..Len(issued) /\ issued[c.w] = u
      BY <2>2, <3>1, <1>6
    <3>3. c.id < nextId + 1 /\ c.w <= Len(issued) + 1 /\ issued'[c.w] = u
      BY <3>2, <1>3, <1>5
    <3> QED
      BY <2>2, <3>1, <3>3
  <2>3. /\ queue'[u][i].id < nextId + 1
        /\ queue'[u][i].w <= Len(issued) + 1
        /\ issued'[queue'[u][i].w] = u
    BY <2>1, <2>2, <1>11
  <2> QED
    BY <2>3, <1>1, <1>5
<1>15. CallbackOfItsBatch'
  <2> SUFFICES ASSUME NEW u \in User, NEW c \in callbacks'[u]
               PROVE  \E i \in DOMAIN queue'[u] : queue'[u][i] = c
    BY DEF CallbackOfItsBatch, ToSet
  <2>1. CASE u # user
    BY <2>1, <1>2, <1>7, <1>9 DEF QueueInv, CallbackOfItsBatch, ToSet
  <2>2. CASE u = user /\ c = b
    <3>1. n + 1 \in 1..(n + 1)
      BY <1>8
    <3> QED
      BY <2>2, <3>1, <1>8, <1>9
  <2>3. CASE u = user /\ c \in callbacks[user]
    <3>1. PICK i \in DOMAIN q : q[i] = c
      BY <2>3 DEF QueueInv, CallbackOfItsBatch, ToSet, q
    <3>2. i \in DOMAIN Append(q, b) /\ Append(q, b)[i] = c
      BY <3>1, <1>8
    <3> QED
      BY <2>3, <3>2, <1>9
  <2> QED
    BY <2>1, <2>2, <2>3, <1>2, <1>7
<1>16. IdsUnique'
  <2> SUFFICES ASSUME NEW u \in User, NEW v \in User,
                      NEW i \in DOMAIN queue'[u], NEW j \in DOMAIN queue'[v],
                      queue'[u][i].id = queue'[v][j].id
               PROVE  u = v /\ i = j
    BY DEF IdsUnique
  <2>1. \/ u = user /\ i = n + 1 /\ queue'[u][i].id = nextId
        \/ i \in DOMAIN queue[u] /\ queue'[u][i] = queue[u][i] /\ queue'[u][i].id < nextId
    BY <1>4, <1>6, <1>11
  <2>2. \/ v = user /\ j = n + 1 /\ queue'[v][j].id = nextId
        \/ j \in DOMAIN queue[v] /\ queue'[v][j] = queue[v][j] /\ queue'[v][j].id < nextId
    BY <1>4, <1>6, <1>11
  <2>3. CASE u = user /\ i = n + 1 /\ queue'[u][i].id = nextId
    BY <2>2, <2>3, <1>3
  <2>4. CASE i \in DOMAIN queue[u] /\ queue'[u][i] = queue[u][i] /\ queue'[u][i].id < nextId
    BY <2>2, <2>4, <1>3 DEF QueueInv, IdsUnique
  <2> QED
    BY <2>1, <2>3, <2>4
<1> QED
  BY <1>0, <1>1, <1>4, <1>7, <1>12, <1>13, <1>14, <1>15, <1>16 DEF QueueInv

(* The answer to the first write of the pipeline: the batch leaves the     *)
(* queue from its head, and its own callback, if any, is called.           *)
LEMMA AnswerKeeps ==
  ASSUME WriteInv, rs.pipeline # <<>>,
         NEW outcome \in {"done", "refused"}, AnswerFirst(outcome),
         UNCHANGED <<issued, user, token, log, trouble>>
  PROVE  /\ QueueInv'
         /\ queue[user] # <<>>
         /\ queue' = [queue EXCEPT ![user] = Tail(queue[user])]
         /\ LET b == Head(queue[user]) IN
            /\ callbacks' = [callbacks EXCEPT ![user] = callbacks[user] \ {b}]
            /\ told' = [w \in Write |-> IF w = b.w /\ b \in callbacks[user]
                                        THEN outcome ELSE told[w]]
<1>1. /\ issued \in Seq(User) /\ Len(issued) <= MaxWrites
      /\ user \in User
      /\ queue \in [User -> Seq(Batch)]
      /\ callbacks \in [User -> SUBSET Batch]
      /\ nextId \in 1..(Len(issued) + 1)
      /\ told \in [Write -> {"nothing", "done", "refused"}]
      /\ token \in {"good", "stale"}
      /\ log \in Seq(Write)
      /\ trouble \in 0..MaxTrouble
  BY DEF WriteInv, QueueInv, QueueTypes
<1>2. PICK q : q = queue[user]
  OBVIOUS
<1>3. q \in Seq(Batch) /\ Ascending(q) /\ rs.pipeline = Filled(q)
  BY <1>1, <1>2 DEF WriteInv, QueueInv, QueuesInOrder
<1>4. q # <<>>
  <2>1. ASSUME q = <<>> PROVE FALSE
    <3>1. Len(q) = 0
      BY <2>1
    <3>2. /\ Room(q) \in Nat /\ Room(q) <= Len(q)
          /\ Filled(q) \in Seq(Batch) /\ Len(Filled(q)) = Room(q)
      BY <1>3, RoomFacts
    <3>3. Len(Filled(q)) = 0
      BY <3>1, <3>2
    <3> QED
      BY <3>2, <3>3, <1>3
  <2> QED
    BY <2>1
<1>5. PICK b : b = Head(q)
  OBVIOUS
<1>6. Head(rs.pipeline) = b
  BY <1>3, <1>4, <1>5, TailFilled
<1>7. /\ Tail(q) \in Seq(Batch) /\ Ascending(Tail(q))
      /\ Len(Tail(q)) = Len(q) - 1
      /\ DOMAIN Tail(q) = 1..(Len(q) - 1)
      /\ \A i \in 1..(Len(q) - 1) : i + 1 \in DOMAIN q /\ Tail(q)[i] = q[i + 1]
      /\ \A i \in DOMAIN Tail(q) : b.id < Tail(q)[i].id
  BY <1>3, <1>4, <1>5, TailAscending
<1>8. queue' = [queue EXCEPT ![user] = Tail(q)]
  <2>1. queue' = [queue EXCEPT ![user] = RemoveAt(q, Seek(q, b.id))]
    BY <1>2, <1>6 DEF AnswerFirst, RemoveMutationBatch
  <2>2. RemoveAt(q, Seek(q, b.id)) = Tail(q)
    BY <1>3, <1>4, <1>5, SeekHead
  <2> QED
    BY <2>1, <2>2
<1>9. /\ 1 \in DOMAIN q /\ b = q[1] /\ Len(q) \in Nat /\ DOMAIN q = 1..Len(q) /\ Len(q) >= 1
  BY <1>3, <1>4, <1>5
<1>10. ASSUME NEW c \in callbacks[user] PROVE c.id = b.id <=> c = b
  <2>1. PICK i \in DOMAIN queue[user] : c = queue[user][i]
    BY <1>1 DEF WriteInv, QueueInv, CallbackOfItsBatch, ToSet
  <2>2. c.id = b.id => i = 1
    BY <2>1, <1>1, <1>2, <1>9 DEF WriteInv, QueueInv, IdsUnique
  <2> QED
    BY <2>1, <2>2, <1>2, <1>9
<1>11. PICK found : found = {c \in callbacks[user] : c.id = b.id}
  OBVIOUS
<1>12. /\ told' = [w \in Write |-> IF \E c \in found : c.w = w THEN outcome ELSE told[w]]
       /\ callbacks' = [callbacks EXCEPT ![user] = callbacks[user] \ found]
       /\ nextId' = nextId
  BY <1>6, <1>11 DEF AnswerFirst, NotifyUser
<1>13. found = {b} \cap callbacks[user]
  BY <1>10, <1>11
<1>14. callbacks' = [callbacks EXCEPT ![user] = callbacks[user] \ {b}]
  BY <1>12, <1>13
<1>15. told' = [w \in Write |-> IF w = b.w /\ b \in callbacks[user] THEN outcome ELSE told[w]]
  BY <1>12, <1>13
<1>16. /\ queue' \in [User -> Seq(Batch)]
       /\ queue'[user] = Tail(q)
       /\ \A u \in User : u # user => queue'[u] = queue[u]
  BY <1>1, <1>7, <1>8
<1>17. QueueTypes'
  <2>1. callbacks' \in [User -> SUBSET Batch]
    BY <1>1, <1>14
  <2>2. told' \in [Write -> {"nothing", "done", "refused"}]
    BY <1>1, <1>15
  <2> QED
    BY <1>1, <1>12, <1>16, <2>1, <2>2 DEF QueueTypes
<1>18. ASSUME NEW u \in User, NEW i \in DOMAIN queue'[u]
       PROVE  \E k \in DOMAIN queue[u] :
                /\ queue'[u][i] = queue[u][k]
                /\ k = IF u = user THEN i + 1 ELSE i
  <2>1. CASE u # user
    BY <2>1, <1>16
  <2>2. CASE u = user
    <3>1. i \in 1..(Len(q) - 1)
      BY <2>2, <1>7, <1>16
    <3>2. i + 1 \in DOMAIN q /\ Tail(q)[i] = q[i + 1]
      BY <3>1, <1>7
    <3> QED
      BY <2>2, <3>2, <1>2, <1>16
  <2> QED
    BY <2>1, <2>2
<1>19. QueuesInOrder'
  <2> SUFFICES ASSUME NEW u \in User PROVE Ascending(queue'[u])
    BY DEF QueuesInOrder, Ascending
  <2> QED
    BY <1>7, <1>16 DEF WriteInv, QueueInv, QueuesInOrder
<1>20. BatchesKnown'
  <2> SUFFICES ASSUME NEW u \in User, NEW i \in DOMAIN queue'[u]
               PROVE  /\ queue'[u][i].id < nextId
                      /\ queue'[u][i].w <= Len(issued)
                      /\ issued[queue'[u][i].w] = u
    BY <1>12, Zenon DEF BatchesKnown
  <2> QED
    BY <1>18 DEF WriteInv, QueueInv, BatchesKnown
<1>21. CallbackOfItsBatch'
  <2> SUFFICES ASSUME NEW u \in User, NEW c \in callbacks'[u]
               PROVE  \E i \in DOMAIN queue'[u] : queue'[u][i] = c
    BY DEF CallbackOfItsBatch, ToSet
  <2>1. CASE u # user
    BY <2>1, <1>1, <1>14, <1>16 DEF WriteInv, QueueInv, CallbackOfItsBatch, ToSet
  <2>2. CASE u = user
    <3>1. c \in callbacks[user] /\ c # b
      BY <2>2, <1>1, <1>14
    <3>2. PICK k \in DOMAIN q : c = q[k]
      BY <3>1, <1>1, <1>2 DEF WriteInv, QueueInv, CallbackOfItsBatch, ToSet
    <3>3. PICK i : i = k - 1
      OBVIOUS
    <3>4. i \in 1..(Len(q) - 1) /\ i + 1 = k
      BY <3>1, <3>2, <3>3, <1>9
    <3>5. Tail(q)[i] = c
      BY <3>2, <3>4, <1>7
    <3> QED
      BY <2>2, <3>4, <3>5, <1>7, <1>16
  <2> QED
    BY <2>1, <2>2
<1>22. IdsUnique'
  <2> SUFFICES ASSUME NEW u \in User, NEW v \in User,
                      NEW i \in DOMAIN queue'[u], NEW j \in DOMAIN queue'[v],
                      queue'[u][i].id = queue'[v][j].id
               PROVE  u = v /\ i = j
    BY DEF IdsUnique
  <2>1. PICK k \in DOMAIN queue[u] :
          queue'[u][i] = queue[u][k] /\ k = IF u = user THEN i + 1 ELSE i
    BY <1>18
  <2>2. PICK m \in DOMAIN queue[v] :
          queue'[v][j] = queue[v][m] /\ m = IF v = user THEN j + 1 ELSE j
    BY <1>18
  <2>3. u = v /\ k = m
    BY <2>1, <2>2 DEF WriteInv, QueueInv, IdsUnique
  <2>4. i \in Int /\ j \in Int
    <3>1. queue'[u] \in Seq(Batch) /\ queue'[v] \in Seq(Batch)
      BY <1>16
    <3> QED
      BY <3>1
  <2> QED
    BY <2>1, <2>2, <2>3, <2>4
<1>23. QueueInv'
  BY <1>17, <1>19, <1>20, <1>21, <1>22 DEF QueueInv
<1> QED
  BY <1>2, <1>4, <1>5, <1>8, <1>14, <1>15, <1>23

(* A change of user or a restart: the ids are counted again, the callbacks *)
(* kept or forgotten.                                                      *)
LEMMA ReloadKeeps ==
  ASSUME QueueInv, nextId' = LoadNextBatchIdFromDb, user' \in User,
         callbacks' = callbacks \/ callbacks' = [u \in User |-> {}],
         trouble' \in 0..MaxTrouble,
         UNCHANGED <<issued, queue, told, token, log>>
  PROVE  QueueInv'
<1>1. /\ nextId' \in 1..nextId
      /\ \A u \in User : \A i \in DOMAIN queue[u] : queue[u][i].id < nextId'
  BY NextIdReloaded
<1>2. QueueTypes'
  <2>1. callbacks' \in [User -> SUBSET Batch]
    BY DEF QueueInv, QueueTypes
  <2>2. nextId' \in 1..(Len(issued) + 1)
    <3>1. nextId \in 1..(Len(issued) + 1) /\ Len(issued) \in Nat
      BY DEF QueueInv, QueueTypes
    <3> QED
      BY <3>1, <1>1
  <2> QED
    BY <2>1, <2>2 DEF QueueInv, QueueTypes
<1>3. QueuesInOrder'
  BY DEF QueueInv, QueuesInOrder, Ascending
<1>4. BatchesKnown'
  BY <1>1 DEF QueueInv, BatchesKnown
<1>5. CallbackOfItsBatch'
  <2>1. \A u \in User : callbacks'[u] \subseteq callbacks[u]
    BY DEF QueueInv, QueueTypes
  <2> QED
    BY <2>1 DEF QueueInv, CallbackOfItsBatch, ToSet
<1>6. IdsUnique'
  BY DEF QueueInv, IdsUnique
<1> QED
  BY <1>2, <1>3, <1>4, <1>5, <1>6 DEF QueueInv

(* A step of the stream or the server alone keeps the queues.              *)
LEMMA QueuesUntouched ==
  ASSUME QueueInv, token' \in {"good", "stale"}, log' \in Seq(Write),
         trouble' \in 0..MaxTrouble,
         UNCHANGED <<issued, user, store>>
  PROVE  QueueInv'
<1>1. QueueTypes'
  BY DEF QueueInv, QueueTypes, store
<1>2. QueuesInOrder' /\ BatchesKnown'
  BY DEF QueueInv, QueuesInOrder, Ascending, BatchesKnown, store
<1>3. CallbackOfItsBatch' /\ IdsUnique'
  BY DEF QueueInv, CallbackOfItsBatch, ToSet, IdsUnique, store
<1> QED
  BY <1>1, <1>2, <1>3 DEF QueueInv

(***************************************************************************)
(* Every handler keeps the invariant.                                      *)
(***************************************************************************)
(* A longer queue is filled on from where the shorter one was.             *)
LEMMA FilledGrows ==
  ASSUME NEW q \in Seq(Batch), NEW b \in Batch
  PROVE  /\ Append(q, b) \in Seq(Batch)
         /\ Room(q) \in 0..Room(Append(q, b))
         /\ Filled(q) = SubSeq(Append(q, b), 1, Room(q))
         /\ Filled(Append(q, b)) # <<>>
<1>1. /\ Append(q, b) \in Seq(Batch) /\ Len(Append(q, b)) = Len(q) + 1 /\ Len(q) \in Nat
      /\ \A i \in 1..Len(q) : Append(q, b)[i] = q[i]
  OBVIOUS
<1>2. /\ Room(q) \in Nat /\ Room(q) <= Len(q)
      /\ Filled(q) \in Seq(Batch) /\ Len(Filled(q)) = Room(q)
      /\ \A i \in 1..Room(q) : Filled(q)[i] = q[i]
  BY RoomFacts
<1>3. Room(q) \in 0..Room(Append(q, b)) /\ Room(Append(q, b)) > 0
  BY <1>1, LimitAssumption DEF Room
<1>4. Room(q) \in 0..Len(Append(q, b))
  BY <1>1, <1>2
<1>5. PICK a, n : a = Append(q, b) /\ n = Room(q)
  OBVIOUS
<1>6. /\ SubSeq(a, 1, n) \in Seq(Batch)
      /\ Len(SubSeq(a, 1, n)) = n
      /\ \A i \in 1..n : SubSeq(a, 1, n)[i] = a[i]
  BY <1>1, <1>4, <1>5, HeadPart
<1>7. \A i \in 1..n : Filled(q)[i] = SubSeq(a, 1, n)[i]
  BY <1>1, <1>2, <1>5, <1>6
<1>8. Filled(q) = SubSeq(a, 1, n)
  BY <1>2, <1>5, <1>6, <1>7, SeqEqual
<1>9. Filled(Append(q, b)) # <<>>
  <2>1. /\ Filled(Append(q, b)) \in Seq(Batch)
        /\ Len(Filled(Append(q, b))) = Room(Append(q, b))
    BY <1>1, RoomFacts
  <2> QED
    BY <2>1, <1>3
<1> QED
  BY <1>1, <1>3, <1>5, <1>8, <1>9

(* Issuing a write keeps the stream sound and fills the pipeline.          *)
LEMMA IssueStep ==
  ASSUME WriteInv, WriteMutations
  PROVE  WriteInv' /\ rs'.down = rs.down /\ rs'.handshake = rs.handshake
<1>1. QueueInv'
  BY IssueKeeps DEF WriteInv
<1>2. PICK b \in Batch : queue' = [queue EXCEPT ![user] = Append(queue[user], b)]
  BY IssueKeeps DEF WriteInv
<1>3. rs' = FillWritePipeline(rs, queue'[user]) /\ user' = user
  BY DEF WriteMutations
<1>4. user \in User /\ queue \in [User -> Seq(Batch)]
  BY DEF WriteInv, QueueInv, QueueTypes
<1>5. PICK q, s : q = queue[user] /\ s = rs
  OBVIOUS
<1>6. q \in Seq(Batch) /\ queue'[user] = Append(q, b)
  BY <1>2, <1>4, <1>5
<1>7. Ascending(Append(q, b))
  <2>1. \A u \in User : Ascending(queue'[u])
    BY <1>1 DEF QueueInv, QueuesInOrder, Ascending
  <2> QED
    BY <2>1, <1>4, <1>6
<1>8. /\ s \in RsType /\ WireSound(s) /\ s.pipeline = Filled(q)
  BY <1>5 DEF WriteInv, StreamSound
<1>9. PICK n, a : n = Room(q) /\ a = Append(q, b)
  OBVIOUS
<1>10. a \in Seq(Batch) /\ n \in 0..Room(a) /\ s.pipeline = SubSeq(a, 1, n) /\ Filled(a) # <<>>
  BY <1>6, <1>8, <1>9, FilledGrows
<1>11. PICK r : r = FillWritePipeline(s, a)
  OBVIOUS
<1>12. /\ r \in RsType /\ StreamSound(r) /\ r.pipeline = Filled(a)
       /\ r.down = s.down /\ r.handshake = s.handshake
  BY <1>7, <1>8, <1>9, <1>10, <1>11, FillKeepsSound
<1>13. rs' = r /\ queue'[user'] = a
  BY <1>3, <1>5, <1>6, <1>9, <1>11
<1>14. rs' \in RsType /\ StreamSound(rs') /\ rs'.pipeline = Filled(queue'[user'])
  BY <1>12, <1>13
<1> QED
  BY <1>1, <1>5, <1>12, <1>13, <1>14 DEF WriteInv

(* A result: the pipeline moves on with the queue.                         *)
LEMMA ResultStep ==
  ASSUME WriteInv, MutationResult
  PROVE  /\ WriteInv' /\ rs.pipeline # <<>>
         /\ Len(Results(rs)) > 0 /\ Len(Results(rs')) = Len(Results(rs)) - 1
<1>1. /\ rs.down # <<>> /\ Head(rs.down) \in Batch
      /\ AnswerFirst("done")
      /\ rs' = FillWritePipeline(WithoutFirst([rs EXCEPT !.down = Tail(@)]), queue'[user])
      /\ UNCHANGED <<issued, user, token, log, trouble>>
  BY DEF MutationResult
<1>2. PICK s, q, t :
        s = rs /\ q = queue[user] /\ t = WithoutFirst([rs EXCEPT !.down = Tail(@)])
  OBVIOUS
<1>3. s \in RsType /\ WireSound(s) /\ s.pipeline = Filled(q)
  BY <1>2 DEF WriteInv, StreamSound
<1>4. /\ s.handshake /\ IsOpen(s) /\ s.pipeline # <<>> /\ ~ s.idle
      /\ t \in RsType
      /\ t.pipeline = Tail(s.pipeline) /\ t.down = Tail(s.down)
      /\ t.up = s.up /\ t.handshake = s.handshake /\ t.idle = s.idle
      /\ t.state = s.state /\ t.request = s.request
      /\ Established(t)
      /\ Len(Results(s)) > 0
      /\ Len(Results(t)) = Len(Results(s)) - 1
  BY <1>1, <1>2, <1>3, ResultComes
<1>5. /\ QueueInv' /\ q # <<>>
      /\ queue' = [queue EXCEPT ![user] = Tail(q)]
  BY <1>1, <1>2, <1>4, AnswerKeeps
<1>6. user \in User /\ queue \in [User -> Seq(Batch)] /\ q \in Seq(Batch)
  BY <1>2 DEF WriteInv, QueueInv, QueueTypes
<1>7. PICK p : p = Tail(q)
  OBVIOUS
<1>8. queue'[user] = p /\ user' = user /\ p \in Seq(Batch)
  BY <1>1, <1>5, <1>6, <1>7
<1>9. Ascending(p)
  <2>1. \A u \in User : Ascending(queue'[u])
    BY <1>5 DEF QueueInv, QueuesInOrder, Ascending
  <2> QED
    BY <2>1, <1>6, <1>8
<1>10. PICK n \in 0..Room(p) : t.pipeline = SubSeq(p, 1, n)
  BY <1>3, <1>4, <1>5, <1>6, <1>7, TailFilled
<1>11. WireSound(t)
  BY <1>3, <1>4 DEF WireSound, IsOpen
<1>12. PICK r : r = FillWritePipeline(t, p)
  OBVIOUS
<1>13. /\ r \in RsType /\ StreamSound(r) /\ r.pipeline = Filled(p)
       /\ r.down = t.down /\ r.handshake = t.handshake
  BY <1>4, <1>8, <1>9, <1>10, <1>11, <1>12, FillKeepsSound
<1>14. Results(r) = Results(t)
  BY <1>13 DEF Results, Ended
<1>15. rs' = r
  BY <1>1, <1>2, <1>8, <1>12
<1>16. rs' \in RsType /\ StreamSound(rs') /\ rs'.pipeline = Filled(queue'[user'])
  BY <1>8, <1>13, <1>15
<1> QED
  BY <1>2, <1>4, <1>5, <1>14, <1>15, <1>16 DEF WriteInv

(* A refusal: the same, on a stream that is closed and started again.      *)
LEMMA RefusalStep ==
  ASSUME WriteInv, WriteRejected
  PROVE  /\ WriteInv' /\ rs.pipeline # <<>>
         /\ Len(Results(rs)) = 0 /\ ~ rs'.handshake
<1>1. /\ rs.down # <<>> /\ Head(rs.down) = Refusal
      /\ AnswerFirst("refused")
      /\ rs' = HandshakeOver(StartIfNeeded(
                 FillWritePipeline(WithoutFirst(EndStream(rs, "Initial")), queue'[user])))
      /\ UNCHANGED <<issued, user, token, log, trouble>>
  BY DEF WriteRejected
<1>2. PICK s, q, e, t :
        s = rs /\ q = queue[user] /\ e = EndStream(rs, "Initial") /\ t = WithoutFirst(e)
  OBVIOUS
<1>3. s \in RsType /\ WireSound(s) /\ s.pipeline = Filled(q)
  BY <1>2 DEF WriteInv, StreamSound
<1>4. s.pipeline # <<>> /\ Len(Results(s)) = 0
  BY <1>1, <1>2, <1>3, RefusalComes
<1>5. /\ QueueInv' /\ q # <<>>
      /\ queue' = [queue EXCEPT ![user] = Tail(q)]
  BY <1>1, <1>2, <1>4, AnswerKeeps
<1>6. user \in User /\ queue \in [User -> Seq(Batch)] /\ q \in Seq(Batch)
  BY <1>2 DEF WriteInv, QueueInv, QueueTypes
<1>7. PICK p : p = Tail(q)
  OBVIOUS
<1>8. queue'[user] = p /\ user' = user /\ p \in Seq(Batch)
  BY <1>1, <1>5, <1>6, <1>7
<1>9. Ascending(p)
  <2>1. \A u \in User : Ascending(queue'[u])
    BY <1>5 DEF QueueInv, QueuesInOrder, Ascending
  <2> QED
    BY <2>1, <1>6, <1>8
<1>10. /\ e \in RsType
       /\ ~ IsOpen(e)
       /\ e.pipeline = s.pipeline
       /\ e.idle = FALSE /\ e.request = FALSE
       /\ e.up = <<>> /\ e.down = <<>>
  BY <1>2, <1>3, EndShape
<1>11. /\ t \in RsType /\ ~ IsOpen(t)
       /\ t.pipeline = Tail(s.pipeline)
       /\ t.idle = FALSE /\ t.request = FALSE
       /\ t.up = <<>> /\ t.down = <<>>
  <2>1. s.pipeline \in Seq(Batch)
    BY <1>3 DEF RsType
  <2>2. Tail(s.pipeline) \in Seq(Batch)
    BY <2>1, <1>4
  <2>3. t = [e EXCEPT !.pipeline = Tail(@)]
    BY <1>2 DEF WithoutFirst
  <2>4. t \in RsType
    BY <2>2, <2>3, <1>10 DEF RsType
  <2> QED
    BY <2>3, <2>4, <1>10 DEF RsType, IsOpen
<1>12. PICK n \in 0..Room(p) : t.pipeline = SubSeq(p, 1, n)
  BY <1>3, <1>4, <1>5, <1>6, <1>7, <1>11, TailFilled
<1>13. PICK f, g, r : /\ f = FillWritePipeline(t, p)
                      /\ g = StartIfNeeded(f)
                      /\ r = HandshakeOver(g)
  OBVIOUS
<1>14. /\ f \in RsType
       /\ f.pipeline = Filled(p)
       /\ f.down = t.down
       /\ f.pipeline # <<>> => IsStarted(f)
       /\ ~ IsOpen(t) => ~ IsOpen(f)
       /\ f.request => f.state = "Starting"
       /\ f.up = t.up /\ ~ f.idle
  BY <1>8, <1>9, <1>11, <1>12, <1>13, FillShape
<1>15. /\ g \in RsType
       /\ g.pipeline = f.pipeline /\ g.up = f.up /\ g.down = f.down
       /\ g.idle = f.idle
       /\ g.pipeline # <<>> => IsStarted(g)
       /\ ~ IsOpen(f) => ~ IsOpen(g)
       /\ (f.request => f.state = "Starting") => (g.request => g.state = "Starting")
  BY <1>13, <1>14, StartShape
<1>16. /\ r \in RsType
       /\ r.handshake = FALSE
       /\ r.state = g.state /\ r.pipeline = g.pipeline /\ r.idle = g.idle
       /\ r.request = g.request /\ r.up = g.up /\ r.down = g.down
       /\ IsOpen(r) <=> IsOpen(g)
       /\ IsStarted(r) <=> IsStarted(g)
  BY <1>13, <1>15, HandshakeOverShape
<1>17. ClosedWith(r, Filled(p))
  BY <1>11, <1>14, <1>15, <1>16 DEF ClosedWith
<1>18. rs' = r
  BY <1>1, <1>2, <1>8, <1>13
<1>19. rs' \in RsType /\ StreamSound(rs') /\ rs'.pipeline = Filled(queue'[user']) /\ ~ rs'.handshake
  BY <1>8, <1>17, <1>18, ClosedIsSound DEF ClosedWith
<1> QED
  BY <1>2, <1>4, <1>5, <1>19 DEF WriteInv

(* The handlers of the stream alone: credentials, handshake, backoff,      *)
(* health check.                                                           *)
LEMMA StreamStep ==
  ASSUME WriteInv,
         ResumeStartWithCredentials \/ HandshakeComplete \/ BackoffElapsed \/ HealthCheck
  PROVE  /\ rs' \in RsType /\ StreamSound(rs') /\ rs'.pipeline = rs.pipeline
         /\ Len(Results(rs')) = Len(Results(rs))
<1>1. PICK s : s = rs
  OBVIOUS
<1>2. /\ s \in RsType /\ StreamSound(s) /\ WireSound(s)
      /\ s.pipeline # <<>> => IsStarted(s)
  BY <1>1 DEF WriteInv, StreamSound
<1>3. /\ s.pipeline \in Seq(Batch) /\ s.up \in Seq(Batch \cup {Handshake})
      /\ s.down \in Seq(Batch \cup {Handshake, Refusal})
      /\ s.state \in State /\ s.handshake \in BOOLEAN /\ s.idle \in BOOLEAN
      /\ s.request \in BOOLEAN
  BY <1>2 DEF RsType
<1> DEFINE Good(r) == /\ r \in RsType /\ StreamSound(r) /\ r.pipeline = s.pipeline
                      /\ Len(Results(r)) = Len(Results(s))
<1>4. ASSUME ResumeStartWithCredentials PROVE Good(rs')
  <2>1. s.request /\ rs' = Send(ResumeStart(s), <<Handshake>>)
    BY <1>1, <1>4 DEF ResumeStartWithCredentials
  <2>2. s.state = "Starting" /\ ~ IsOpen(s)
    BY <2>1, <1>2 DEF WireSound, IsOpen
  <2>3. s.up = <<>> /\ s.down = <<>> /\ ~ s.handshake /\ ~ s.idle
    BY <2>2, <1>2 DEF WireSound
  <2>4. PICK r : r = [s EXCEPT !.state = "Open", !.request = FALSE,
                               !.up = <<Handshake>>, !.idle = FALSE]
    OBVIOUS
  <2>5. rs' = r
    <3>1. <<Handshake>> # <<>> /\ <<>> \o <<Handshake>> = <<Handshake>>
      OBVIOUS
    <3> QED
      BY <2>1, <2>3, <2>4, <3>1, <1>2 DEF Send, ResumeStart, RsType
  <2>6. <<Handshake>> \in Seq(Batch \cup {Handshake}) /\ "Open" \in State
    BY DEF State
  <2>7. /\ r \in RsType /\ r.state = "Open" /\ r.request = FALSE
        /\ r.up = <<Handshake>> /\ r.idle = FALSE /\ r.down = <<>>
        /\ r.pipeline = s.pipeline /\ ~ r.handshake
    BY <2>3, <2>4, <2>6, <1>2 DEF RsType
  <2>8. StreamSound(r)
    BY <2>7 DEF StreamSound, WireSound, IsOpen, IsStarted, Greeting
  <2>9. Results(r) = <<>> /\ Results(s) = <<>>
    BY <2>3, <2>7 DEF Results
  <2> QED
    BY <2>5, <2>7, <2>8, <2>9
<1>5. ASSUME HandshakeComplete PROVE Good(rs')
  <2>1. PICK t : t = [s EXCEPT !.down = Tail(@), !.handshake = TRUE]
    OBVIOUS
  <2>2. s.down # <<>> /\ Head(s.down) = Handshake /\ rs' = Send(t, s.pipeline)
    BY <1>1, <1>5, <2>1 DEF HandshakeComplete
  <2>3. IsOpen(s) /\ ~ s.handshake /\ s.up = <<>> /\ s.down = <<Handshake>> /\ ~ s.idle
    BY <2>2, <1>2, HandshakeComes DEF WireSound
  <2>4. Tail(s.down) = <<>> /\ <<>> \in Seq(Batch \cup {Handshake, Refusal})
        /\ <<>> \in Seq(Batch)
    BY <2>3
  <2>5. /\ t \in RsType /\ t.down = <<>> /\ t.handshake = TRUE /\ t.up = <<>>
        /\ t.pipeline = s.pipeline /\ t.state = s.state /\ ~ t.idle /\ t.request = s.request
    BY <2>1, <2>3, <2>4, <1>2 DEF RsType
  <2>6. PICK r : r = rs'
    OBVIOUS
  <2>7. /\ r \in RsType /\ r.down = <<>> /\ r.handshake = TRUE /\ r.up = s.pipeline
        /\ r.pipeline = s.pipeline /\ r.state = s.state /\ ~ r.idle /\ r.request = s.request
    <3>1. CASE s.pipeline = <<>>
      BY <3>1, <2>2, <2>5, <2>6 DEF Send
    <3>2. CASE s.pipeline # <<>>
      <4>1. <<>> \o s.pipeline = s.pipeline /\ s.pipeline \in Seq(Batch \cup {Handshake})
        BY <1>3, ConcatEmptySeq, SeqMonotonic
      <4>2. r = [t EXCEPT !.up = s.pipeline, !.idle = FALSE]
        BY <3>2, <4>1, <2>2, <2>5, <2>6 DEF Send
      <4>3. r \in RsType
        BY <4>1, <4>2, <2>5 DEF RsType
      <4> QED
        BY <4>2, <4>3, <2>5 DEF RsType
    <3> QED
      BY <3>1, <3>2
  <2>8. <<>> \o s.pipeline = s.pipeline
    BY <1>3, ConcatEmptySeq
  <2>9. Established(r)
    BY <2>4, <2>7, <2>8, <1>3 DEF Established
  <2>10. StreamSound(r)
    BY <2>3, <2>7, <2>9, <1>2 DEF StreamSound, WireSound, IsOpen, IsStarted
  <2>11. Results(r) = <<>> /\ Results(s) = <<>>
    BY <2>3, <2>7 DEF Results, Ended
  <2> QED
    BY <2>6, <2>7, <2>10, <2>11
<1>6. ASSUME BackoffElapsed PROVE Good(rs')
  <2>1. s.state = "Backoff" /\ rs' = Resume(s)
    BY <1>1, <1>6 DEF BackoffElapsed
  <2>2. s.up = <<>> /\ s.down = <<>> /\ ~ s.handshake /\ ~ s.idle
    BY <2>1, <1>2 DEF WireSound, IsOpen
  <2>3. PICK r : r = [s EXCEPT !.state = "Starting", !.request = TRUE]
    OBVIOUS
  <2>4. rs' = r
    BY <2>1, <2>3, <1>2 DEF Resume, Start, RsType
  <2>5. /\ r \in RsType /\ r.state = "Starting"
        /\ r.up = <<>> /\ r.down = <<>> /\ ~ r.handshake /\ ~ r.idle
        /\ r.pipeline = s.pipeline
    BY <2>2, <2>3, <1>2 DEF RsType, State
  <2>6. StreamSound(r)
    BY <2>5 DEF StreamSound, WireSound, IsOpen, IsStarted
  <2>7. Results(r) = <<>> /\ Results(s) = <<>>
    BY <2>2, <2>5 DEF Results
  <2> QED
    BY <2>4, <2>5, <2>6, <2>7
<1>7. ASSUME HealthCheck PROVE Good(rs')
  <2>1. PICK r : r = [s EXCEPT !.state = "Healthy"]
    OBVIOUS
  <2>2. s.state = "Open" /\ rs' = r
    BY <1>1, <1>7, <2>1 DEF HealthCheck
  <2>3. /\ r \in RsType /\ r.state = "Healthy" /\ r.pipeline = s.pipeline
        /\ r.handshake = s.handshake /\ r.idle = s.idle /\ r.request = s.request
        /\ r.up = s.up /\ r.down = s.down
    BY <2>1, <1>2 DEF RsType, State
  <2>4. StreamSound(r)
    BY <2>2, <2>3, <1>2
       DEF StreamSound, WireSound, IsOpen, IsStarted, Greeting, Established
  <2>5. Results(r) = Results(s)
    BY <2>3 DEF Results, Ended
  <2> QED
    BY <2>2, <2>3, <2>4, <2>5
<1> QED
  BY <1>1, <1>4, <1>5, <1>6, <1>7

(* Whatever closes the stream and keeps the user.                          *)
LEMMA CloseStep ==
  ASSUME WriteInv, IdleTimeout \/ Unauthenticated \/ StreamFails
  PROVE  /\ rs' \in RsType /\ StreamSound(rs') /\ rs'.pipeline = rs.pipeline
         /\ ~ rs'.handshake
<1>1. PICK e \in {"Initial", "Error"} : rs' = StreamClosed(rs, e)
  BY DEF IdleTimeout, Unauthenticated, StreamFails
<1>2. PICK s, r : s = rs /\ r = StreamClosed(s, e)
  OBVIOUS
<1>3. s \in RsType
  BY <1>2 DEF WriteInv
<1>4. ClosedWith(r, s.pipeline)
  BY <1>2, <1>3, CloseShape
<1>5. r \in RsType /\ StreamSound(r) /\ r.pipeline = s.pipeline /\ ~ r.handshake
  BY <1>4, ClosedIsSound DEF ClosedWith
<1> QED
  BY <1>1, <1>2, <1>5

(* The network restarts, for the same user or another, or the app does.    *)
LEMMA RestartStep ==
  ASSUME WriteInv, user' \in User, queue' = queue,
         \/ rs' = RestartNetwork(rs, queue[user'])
         \/ rs' = FillWritePipeline(Stopped, queue[user'])
  PROVE  /\ rs' \in RsType /\ StreamSound(rs') /\ rs'.pipeline = Filled(queue'[user'])
         /\ ~ rs'.handshake
<1>1. PICK s, q : s = rs /\ q = queue[user']
  OBVIOUS
<1>2. s \in RsType /\ q \in Seq(Batch) /\ Ascending(q)
  BY <1>1 DEF WriteInv, QueueInv, QueueTypes, QueuesInOrder
<1>3. PICK r : rs' = r /\ (r = RestartNetwork(s, q) \/ r = FillWritePipeline(Stopped, q))
  BY <1>1
<1>4. ClosedWith(r, Filled(q))
  BY <1>2, <1>3, RestartShape, StartupShape
<1>5. r \in RsType /\ StreamSound(r) /\ r.pipeline = Filled(q) /\ ~ r.handshake
  BY <1>4, ClosedIsSound DEF ClosedWith
<1> QED
  BY <1>1, <1>3, <1>5

(* The server's steps.                                                     *)
LEMMA ServerStep ==
  ASSUME WriteInv, ServerAcceptsStream \/ ServerApplies \/ ServerRefuses
  PROVE  /\ rs' \in RsType /\ StreamSound(rs') /\ rs'.pipeline = rs.pipeline
         /\ log' \in Seq(Write)
         /\ \/ log' = log /\ Len(Results(rs')) = Len(Results(rs))
            \/ /\ Len(Results(rs)) \in 0..(Len(rs.pipeline) - 1)
               /\ log' = Append(log, rs.pipeline[Len(Results(rs)) + 1].w)
               /\ Len(Results(rs')) = Len(Results(rs)) + 1
<1>1. PICK s : s = rs
  OBVIOUS
<1>2. /\ s \in RsType /\ StreamSound(s) /\ WireSound(s) /\ log \in Seq(Write)
      /\ s.pipeline # <<>> => IsStarted(s)
  BY <1>1 DEF WriteInv, StreamSound, QueueInv, QueueTypes
<1> DEFINE Good == /\ rs' \in RsType /\ StreamSound(rs') /\ rs'.pipeline = s.pipeline
                   /\ log' \in Seq(Write)
                   /\ \/ log' = log /\ Len(Results(rs')) = Len(Results(s))
                      \/ /\ Len(Results(s)) \in 0..(Len(s.pipeline) - 1)
                         /\ log' = Append(log, s.pipeline[Len(Results(s)) + 1].w)
                         /\ Len(Results(rs')) = Len(Results(s)) + 1
<1>3. ASSUME ServerAcceptsStream PROVE Good
  <2>1. PICK r : r = [s EXCEPT !.up = Tail(@), !.down = Append(@, Handshake)]
    OBVIOUS
  <2>2. /\ s.up # <<>> /\ ~ Ended(s) /\ rs' = r /\ log' = log /\ Head(s.up) = Handshake
    BY <1>1, <1>3, <2>1 DEF ServerAcceptsStream, ServerReplies
  <2>3. IsOpen(s) /\ ~ s.handshake /\ s.up = <<Handshake>> /\ s.down = <<>>
    BY <2>2, <1>2, RequestComes
  <2>4. /\ r \in RsType
        /\ r.up = Tail(s.up) /\ r.down = Append(s.down, Handshake)
        /\ r.pipeline = s.pipeline /\ r.handshake = s.handshake
        /\ r.state = s.state /\ r.idle = s.idle /\ r.request = s.request
    <3>1. PICK a : a = Handshake
      OBVIOUS
    <3>2. /\ a \in Batch \cup {Handshake, Refusal} /\ s \in RsType /\ s.up # <<>>
          /\ r = [s EXCEPT !.up = Tail(@), !.down = Append(@, a)]
      BY <3>1, <2>1, <2>2, <1>2
    <3>3. /\ r \in RsType
          /\ r.up = Tail(s.up) /\ r.down = Append(s.down, a)
          /\ r.pipeline = s.pipeline /\ r.handshake = s.handshake
          /\ r.state = s.state /\ r.idle = s.idle /\ r.request = s.request
      BY ONLY <3>2, ReplyShape
    <3> QED
      BY <3>1, <3>3
  <2>5. r.up = <<>> /\ r.down = <<Handshake>>
    BY <2>3, <2>4
  <2>6. StreamSound(r)
    BY <2>3, <2>4, <2>5, <1>2 DEF StreamSound, WireSound, IsOpen, IsStarted, Greeting
  <2>7. Results(r) = <<>> /\ Results(s) = <<>>
    BY <2>3, <2>4 DEF Results
  <2> QED
    BY <2>2, <2>4, <2>6, <2>7, <1>2
<1>4. ASSUME ServerApplies PROVE Good
  <2>1. PICK a : a = Head(s.up)
    OBVIOUS
  <2>2. PICK r : r = [s EXCEPT !.up = Tail(@), !.down = Append(@, a)]
    OBVIOUS
  <2>3. /\ s.up # <<>> /\ ~ Ended(s) /\ rs' = r /\ a \in Batch /\ log' = Append(log, a.w)
    BY <1>1, <1>4, <2>1, <2>2 DEF ServerApplies, ServerReplies
  <2>4. a # Refusal /\ a.w \in Write
    BY <2>3, BatchFacts
  <2>5. /\ r \in RsType /\ StreamSound(r) /\ r.pipeline = s.pipeline
        /\ Len(Results(s)) \in 0..(Len(s.pipeline) - 1)
        /\ s.pipeline[Len(Results(s)) + 1] = Head(s.up)
        /\ Len(Results(r)) = Len(Results(s)) + IF a = Refusal THEN 0 ELSE 1
    BY <2>1, <2>2, <2>3, <1>2, ServerAnswers
  <2>6. log' \in Seq(Write)
    BY <2>3, <2>4, <1>2
  <2> QED
    BY <2>1, <2>3, <2>4, <2>5, <2>6
<1>5. ASSUME ServerRefuses PROVE Good
  <2>1. PICK a : a = Refusal
    OBVIOUS
  <2>2. PICK r : r = [s EXCEPT !.up = Tail(@), !.down = Append(@, a)]
    OBVIOUS
  <2>3. /\ s.up # <<>> /\ ~ Ended(s) /\ rs' = r /\ Head(s.up) \in Batch /\ log' = log
    BY <1>1, <1>5, <2>1, <2>2 DEF ServerRefuses, ServerReplies
  <2>4. /\ r \in RsType /\ StreamSound(r) /\ r.pipeline = s.pipeline
        /\ Len(Results(s)) \in 0..(Len(s.pipeline) - 1)
        /\ Len(Results(r)) = Len(Results(s)) + IF a = Refusal THEN 0 ELSE 1
    BY <2>1, <2>2, <2>3, <1>2, ServerAnswers
  <2>5. Len(Results(r)) = Len(Results(s))
    BY <2>1, <2>4
  <2> QED
    BY <2>3, <2>4, <2>5, <1>2
<1>6. Good
  <2> HIDE DEF Good
  <2> QED
    BY <1>3, <1>4, <1>5
<1> QED
  BY <1>1, <1>6

(* The invariant holds initially: nothing is queued, nothing is sent.      *)
LEMMA WriteInvInit == Init => WriteInv
<1> SUFFICES ASSUME Init PROVE WriteInv
  OBVIOUS
<1>1. /\ issued = <<>> /\ user \in User /\ queue = [u \in User |-> <<>>] /\ nextId = 1
      /\ callbacks = [u \in User |-> {}] /\ told = [w \in Write |-> "nothing"]
      /\ rs = Stopped /\ token = "good" /\ log = <<>> /\ trouble = 0
  BY DEF Init
<1>2. /\ MaxWrites \in Nat /\ MaxTrouble \in Nat /\ Len(<<>>) = 0
  BY LimitAssumption
<1>3. /\ <<>> \in Seq(User) /\ <<>> \in Seq(Batch) /\ <<>> \in Seq(Write)
  OBVIOUS
<1>4. Len(issued) = 0
  BY ONLY <1>1
<1>5. QueueTypes
  <2>1. nextId \in 1..(Len(issued) + 1) /\ Len(issued) <= MaxWrites /\ trouble \in 0..MaxTrouble
    BY <1>1, <1>2, <1>4
  <2>2. /\ queue \in [User -> Seq(Batch)] /\ callbacks \in [User -> SUBSET Batch]
        /\ told \in [Write -> {"nothing", "done", "refused"}]
    BY <1>1, <1>3
  <2> QED
    BY <1>1, <1>3, <2>1, <2>2 DEF QueueTypes
<1>6. \A u \in User : queue[u] = <<>> /\ DOMAIN queue[u] = {} /\ callbacks[u] = {}
  BY <1>1
<1>7. QueueInv
  BY <1>5, <1>6
     DEF QueueInv, QueuesInOrder, Ascending, BatchesKnown, CallbackOfItsBatch, ToSet, IdsUnique
<1>8. /\ rs \in RsType /\ rs.pipeline = <<>> /\ rs.state = "Initial"
      /\ ~ rs.handshake /\ ~ rs.idle /\ ~ rs.request /\ rs.up = <<>> /\ rs.down = <<>>
  <2>1. <<>> \in Seq(Batch \cup {Handshake}) /\ <<>> \in Seq(Batch \cup {Handshake, Refusal})
    OBVIOUS
  <2> QED
    BY <2>1, <1>1, <1>3 DEF Stopped, RsType, State
<1>9. StreamSound(rs)
  BY <1>8 DEF StreamSound, WireSound, IsOpen
<1>10. rs.pipeline = Filled(queue[user])
  <2>1. PICK q : q = queue[user]
    OBVIOUS
  <2>2. q \in Seq(Batch) /\ Len(q) = 0
    BY <2>1, <1>1, <1>2, <1>3
  <2>3. /\ Room(q) \in Nat /\ Room(q) <= Len(q)
        /\ Filled(q) \in Seq(Batch) /\ Len(Filled(q)) = Room(q)
    BY <2>2, RoomFacts
  <2>4. Len(Filled(q)) = 0
    BY <2>2, <2>3
  <2> QED
    BY <2>1, <2>3, <2>4, <1>8
<1> QED
  BY <1>7, <1>8, <1>9, <1>10 DEF WriteInv

(* A step of the stream or the server alone keeps the invariant.           *)
LEMMA StreamOnly ==
  ASSUME WriteInv, rs' \in RsType, StreamSound(rs'), rs'.pipeline = rs.pipeline,
         token' \in {"good", "stale"}, log' \in Seq(Write), trouble' \in 0..MaxTrouble,
         UNCHANGED <<issued, user, store>>
  PROVE  WriteInv'
<1>1. QueueInv'
  BY QueuesUntouched DEF WriteInv
<1>2. rs'.pipeline = Filled(queue'[user'])
  BY DEF WriteInv, store
<1> QED
  BY <1>1, <1>2 DEF WriteInv

(* Every step keeps the invariant.                                         *)
LEMMA WriteInvStep == WriteInv /\ [Next]_vars => WriteInv'
<1> SUFFICES ASSUME WriteInv, [Next]_vars PROVE WriteInv'
  OBVIOUS
<1>0. /\ token \in {"good", "stale"} /\ log \in Seq(Write) /\ trouble \in 0..MaxTrouble
      /\ user \in User
  BY DEF WriteInv, QueueInv, QueueTypes
<1>a. MaxTrouble \in Nat
  BY LimitAssumption
<1>b. Trouble => trouble' \in 0..MaxTrouble
  BY <1>0, <1>a DEF Trouble
<1>1. CASE WriteMutations
  BY <1>1, IssueStep
<1>2. CASE ResumeStartWithCredentials \/ HandshakeComplete \/ BackoffElapsed \/ HealthCheck
  <2>1. UNCHANGED <<issued, user, store, token, log, trouble>>
    BY <1>2 DEF ResumeStartWithCredentials, HandshakeComplete, BackoffElapsed, HealthCheck
  <2>2. rs' \in RsType /\ StreamSound(rs') /\ rs'.pipeline = rs.pipeline
    BY <1>2, StreamStep
  <2> QED
    BY <2>1, <2>2, <1>0, StreamOnly
<1>3. CASE MutationResult
  BY <1>3, ResultStep
<1>4. CASE WriteRejected
  BY <1>4, RefusalStep
<1>5. CASE IdleTimeout \/ Unauthenticated \/ StreamFails
  <2>1. /\ UNCHANGED <<issued, user, store, log>> /\ token' \in {"good", "stale"}
        /\ trouble' \in 0..MaxTrouble
    BY <1>5, <1>0, <1>b DEF IdleTimeout, Unauthenticated, StreamFails
  <2>2. rs' \in RsType /\ StreamSound(rs') /\ rs'.pipeline = rs.pipeline
    BY <1>5, CloseStep
  <2> QED
    BY <2>1, <2>2, <1>0, StreamOnly
<1>6. CASE ConnectivityChanged
  <2>1. /\ UNCHANGED <<issued, user, store, token, log>> /\ trouble' \in 0..MaxTrouble
        /\ rs' = RestartNetwork(rs, queue[user']) /\ queue' = queue /\ user' \in User
    BY <1>6, <1>0, <1>b DEF ConnectivityChanged, store
  <2>2. rs' \in RsType /\ StreamSound(rs') /\ rs'.pipeline = Filled(queue'[user'])
    BY <2>1, RestartStep
  <2>3. rs'.pipeline = rs.pipeline
    BY <2>1, <2>2 DEF WriteInv
  <2> QED
    BY <2>1, <2>2, <2>3, <1>0, StreamOnly
<1>7. ASSUME NEW u \in User, HandleCredentialChange(u) PROVE WriteInv'
  <2>1. /\ UNCHANGED <<issued, queue, callbacks, told, token, log>> /\ user' \in User
        /\ trouble' \in 0..MaxTrouble /\ nextId' = LoadNextBatchIdFromDb
        /\ rs' = RestartNetwork(rs, queue[user'])
    BY <1>7, <1>b DEF HandleCredentialChange
  <2>2. rs' \in RsType /\ StreamSound(rs') /\ rs'.pipeline = Filled(queue'[user'])
    BY <2>1, RestartStep
  <2>3. QueueInv'
    BY <2>1, ReloadKeeps DEF WriteInv
  <2> QED
    BY <2>2, <2>3 DEF WriteInv
<1>8. CASE CrashAndRestart
  <2>1. /\ UNCHANGED <<issued, user, queue, told, token, log>> /\ user' \in User
        /\ trouble' \in 0..MaxTrouble /\ nextId' = LoadNextBatchIdFromDb
        /\ callbacks' = [u \in User |-> {}]
        /\ rs' = FillWritePipeline(Stopped, queue[user'])
    BY <1>8, <1>0, <1>b DEF CrashAndRestart
  <2>2. rs' \in RsType /\ StreamSound(rs') /\ rs'.pipeline = Filled(queue'[user'])
    BY <2>1, RestartStep
  <2>3. QueueInv'
    BY <2>1, ReloadKeeps DEF WriteInv
  <2> QED
    BY <2>2, <2>3 DEF WriteInv
<1>9. CASE TokenGoesStale
  <2>1. /\ UNCHANGED <<issued, user, store, rs, log>> /\ token' \in {"good", "stale"}
        /\ trouble' \in 0..MaxTrouble
    BY <1>9, <1>b DEF TokenGoesStale
  <2>2. rs' \in RsType /\ StreamSound(rs') /\ rs'.pipeline = rs.pipeline
    BY <2>1 DEF WriteInv
  <2> QED
    BY <2>1, <2>2, <1>0, StreamOnly
<1>10. CASE ServerAcceptsStream \/ ServerApplies \/ ServerRefuses
  <2>1. UNCHANGED <<issued, user, store, token, trouble>>
    BY <1>10 DEF ServerAcceptsStream, ServerApplies, ServerRefuses, ServerReplies
  <2>2. rs' \in RsType /\ StreamSound(rs') /\ rs'.pipeline = rs.pipeline /\ log' \in Seq(Write)
    BY <1>10, ServerStep
  <2> QED
    BY <2>1, <2>2, <1>0, StreamOnly
<1>11. CASE UNCHANGED vars
  <2>1. /\ UNCHANGED <<issued, user, store, rs, token, log, trouble>>
    BY <1>11 DEF vars
  <2>2. rs' \in RsType /\ StreamSound(rs') /\ rs'.pipeline = rs.pipeline
    BY <2>1 DEF WriteInv
  <2> QED
    BY <2>1, <2>2, <1>0, StreamOnly
<1> QED
  BY <1>1, <1>2, <1>3, <1>4, <1>5, <1>6, <1>7, <1>8, <1>9, <1>10, <1>11 DEF Next

(* The invariant of the write path holds in every state it reaches.        *)
LEMMA WriteInvAlways == Spec => []WriteInv
BY WriteInvInit, WriteInvStep, PTL DEF Spec

(***************************************************************************)
(* The theorems about the stream, the pipeline and the queue.              *)
(***************************************************************************)
(* The head of a sequence is a prefix of it.                               *)
LEMMA HeadIsPrefix ==
  ASSUME NEW S, NEW q \in Seq(S), NEW n \in 0..Len(q)
  PROVE  IsPrefix(SubSeq(q, 1, n), q)
<1>1. PICK p : p = SubSeq(q, 1, n)
  OBVIOUS
<1>2. p \in Seq(S) /\ Len(p) = n
  BY <1>1, HeadPart
<1>3. SubSeq(p, 1, Len(p)) = p
  BY <1>2, SubSeqFull
<1>4. Len(p) <= Len(q)
  BY <1>2
<1> QED
  BY <1>1, <1>2, <1>3, <1>4 DEF IsPrefix

(* The timer of an idle stream and the request for credentials belong to   *)
(* the state of the stream: the assertions of OnWriteStreamClose and of    *)
(* ResumeStartWithCredentials never fail.                                  *)
THEOREM StreamStaysInStep == Spec => []StreamInStep
<1>1. WriteInv => StreamInStep
  <2> SUFFICES ASSUME WriteInv PROVE StreamInStep
    OBVIOUS
  <2>1. /\ issued \in Seq(User) /\ Len(issued) <= MaxWrites
        /\ user \in User
        /\ queue \in [User -> Seq(Batch)]
        /\ callbacks \in [User -> SUBSET Batch]
        /\ nextId \in 1..(Len(issued) + 1)
        /\ told \in [Write -> {"nothing", "done", "refused"}]
        /\ token \in {"good", "stale"}
        /\ log \in Seq(Write)
        /\ trouble \in 0..MaxTrouble
    BY DEF WriteInv, QueueInv, QueueTypes
  <2>2. Len(issued) \in 0..MaxWrites /\ MaxWrites \in Nat /\ Len(issued) \in Nat
    BY <2>1, LimitAssumption
  <2>3. issued \in SeqOf(User, MaxWrites)
    <3>1. issued \in [1..Len(issued) -> User]
      BY <2>1
    <3> QED
      BY <3>1, <2>2, Zenon DEF SeqOf
  <2>4. nextId \in 1..(MaxWrites + 1)
    BY <2>1, <2>2
  <2>5. /\ rs.state \in State
        /\ {rs.handshake, rs.idle, rs.request} \subseteq BOOLEAN
        /\ rs.pipeline \in Seq(Batch)
        /\ rs.up \in Seq(Batch \cup {Handshake})
        /\ rs.down \in Seq(Batch \cup {Handshake, Refusal})
    BY DEF WriteInv, RsType
  <2>6. Len(rs.pipeline) <= kMaxPendingWrites
    <3>1. PICK q : q = queue[user]
      OBVIOUS
    <3>2. q \in Seq(Batch) /\ rs.pipeline = Filled(q)
      BY <3>1, <2>1 DEF WriteInv
    <3> QED
      BY <3>2, RoomFacts
  <2>7. TypeOK
    BY <2>1, <2>3, <2>4, <2>5, <2>6, Zenon DEF TypeOK
  <2>8. IdleMeansEmpty /\ CredentialsMeetTheirStart
    BY DEF WriteInv, StreamSound, WireSound, IdleMeansEmpty, CredentialsMeetTheirStart
  <2> QED
    BY <2>7, <2>8 DEF StreamInStep
<1> QED
  BY <1>1, WriteInvAlways, PTL

(* Answers are matched with writes by position, and the match is right:    *)
(* what is under way is the pipeline, and the pipeline heads the queue of  *)
(* the user signed in (the assertion of OnWriteStreamMutationResult and    *)
(* those of RejectBatch and RemoveMutationBatch never fail).               *)
THEOREM PipelineStaysInStep == Spec => []PipelineInStep
<1>1. WriteInv => PipelineInStep
  <2> SUFFICES ASSUME WriteInv PROVE PipelineInStep
    OBVIOUS
  <2>1. PICK s, q : s = rs /\ q = queue[user]
    OBVIOUS
  <2>2. /\ s \in RsType /\ WireSound(s) /\ q \in Seq(Batch) /\ s.pipeline = Filled(q)
        /\ s.pipeline \in Seq(Batch)
    BY <2>1 DEF WriteInv, StreamSound, QueueInv, QueueTypes, RsType
  <2>3. PipelineHeadsQueue
    <3>1. Room(q) \in 0..Len(q)
      BY <2>2, RoomFacts
    <3>2. IsPrefix(SubSeq(q, 1, Room(q)), q)
      BY <2>2, <3>1, HeadIsPrefix
    <3> QED
      BY <2>1, <2>2, <3>2 DEF PipelineHeadsQueue, Filled
  <2>4. ASSUME s.handshake
        PROVE  LET known == Results(s) \o IF Ended(s) THEN <<>> ELSE s.up
               IN  IsPrefix(known, s.pipeline) /\ (~Ended(s) => known = s.pipeline)
    <3>0. Established(s)
      BY <2>2, <2>4 DEF WireSound
    <3>1. CASE /\ s.down \in Seq(Batch) /\ s.up \in Seq(Batch)
               /\ s.down \o s.up = s.pipeline
               /\ ~ Ended(s) /\ Results(s) = s.down
      <4>1. Len(s.pipeline) \in 0..Len(s.pipeline)
        BY <2>2
      <4>2. SubSeq(s.pipeline, 1, Len(s.pipeline)) = s.pipeline
        BY <2>2, SubSeqFull
      <4>3. IsPrefix(s.pipeline, s.pipeline)
        BY <4>1, <4>2, <2>2, HeadIsPrefix
      <4> QED
        BY <3>1, <4>3
    <3>2. ASSUME NEW m \in 0..(Len(s.pipeline) - 1), Ended(s),
                 Results(s) = SubSeq(s.pipeline, 1, m)
          PROVE  LET known == Results(s) \o IF Ended(s) THEN <<>> ELSE s.up
                 IN  IsPrefix(known, s.pipeline) /\ (~Ended(s) => known = s.pipeline)
      <4>1. m \in 0..Len(s.pipeline)
        BY <2>2
      <4>2. Results(s) \in Seq(Batch) /\ IsPrefix(Results(s), s.pipeline)
        BY <3>2, <4>1, <2>2, HeadPart, HeadIsPrefix
      <4>3. Results(s) \o <<>> = Results(s)
        BY <4>2, ConcatEmptySeq
      <4> QED
        BY <3>2, <4>2, <4>3
    <3> QED
      BY <2>2, <2>4, <3>0, <3>1, <3>2, ResultsShape
  <2>5. AnswersMatchPipeline
    BY <2>1, <2>4 DEF AnswersMatchPipeline
  <2> QED
    BY <2>3, <2>5 DEF PipelineInStep
<1> QED
  BY <1>1, WriteInvAlways, PTL

(* No write is left behind: a queued batch is in the pipeline as soon as   *)
(* there is room, and a stream with work is started.                       *)
THEOREM NoWriteStaysStranded == Spec => []NoWriteIsStranded
<1>1. WriteInv => NoWriteIsStranded
  <2> SUFFICES ASSUME WriteInv PROVE NoWriteIsStranded
    OBVIOUS
  <2>1. PICK q : q = queue[user]
    OBVIOUS
  <2>2. q \in Seq(Batch) /\ rs.pipeline = Filled(q) /\ (rs.pipeline # <<>> => IsStarted(rs))
    BY <2>1 DEF WriteInv, StreamSound, QueueInv, QueueTypes
  <2>3. Len(rs.pipeline) < kMaxPendingWrites => Len(q) = Len(rs.pipeline)
    BY <2>2, RoomFacts
  <2> QED
    BY <2>1, <2>2, <2>3 DEF NoWriteIsStranded
<1> QED
  BY <1>1, WriteInvAlways, PTL

(* Ids given out again after a restart or a change of user never confuse   *)
(* two batches or the callbacks of two pages.                              *)
THEOREM CallbacksStayInStep == Spec => []CallbacksInStep
<1>1. WriteInv => CallbacksInStep
  BY DEF WriteInv, QueueInv, CallbacksInStep
<1> QED
  BY <1>1, WriteInvAlways, PTL

(***************************************************************************)
(* Every step of the client is a step of WriteQueue.                       *)
(***************************************************************************)
(* The writes a queue of batches carries.                                  *)
Writes(q) == [i \in DOMAIN q |-> q[i].w]

(* They are as many as the batches, one each.                              *)
LEMMA WritesFacts ==
  ASSUME NEW q \in Seq(Batch)
  PROVE  /\ Writes(q) \in Seq(Write)
         /\ Len(Writes(q)) = Len(q) /\ DOMAIN Writes(q) = 1..Len(q)
         /\ \A i \in 1..Len(q) : Writes(q)[i] = q[i].w
<1>1. Len(q) \in Nat /\ DOMAIN q = 1..Len(q)
  OBVIOUS
<1>2. \A i \in 1..Len(q) : q[i].w \in Write
  BY BatchFacts
<1>3. Writes(q) \in [1..Len(q) -> Write]
  BY <1>1, <1>2 DEF Writes
<1>4. Writes(q) \in Seq(Write) /\ Len(Writes(q)) = Len(q)
  BY <1>1, <1>3
<1> QED
  BY <1>1, <1>3, <1>4 DEF Writes

(* The writes of a queue grow and shrink with it.                          *)
LEMMA WritesAppend ==
  ASSUME NEW q \in Seq(Batch), NEW b \in Batch
  PROVE  Writes(Append(q, b)) = Append(Writes(q), b.w)
<1>1. PICK a : a = Append(q, b)
  OBVIOUS
<1>2. /\ a \in Seq(Batch) /\ Len(a) = Len(q) + 1 /\ Len(q) \in Nat
      /\ \A i \in 1..Len(q) : a[i] = q[i]
      /\ a[Len(q) + 1] = b
  BY <1>1
<1>3. b.w \in Write
  BY BatchFacts
<1>4. /\ Writes(q) \in Seq(Write) /\ Len(Writes(q)) = Len(q)
      /\ \A i \in 1..Len(q) : Writes(q)[i] = q[i].w
  BY WritesFacts
<1>5. /\ Writes(a) \in Seq(Write) /\ Len(Writes(a)) = Len(q) + 1
      /\ \A i \in 1..(Len(q) + 1) : Writes(a)[i] = a[i].w
  BY <1>2, WritesFacts
<1>6. PICK c : c = Append(Writes(q), b.w)
  OBVIOUS
<1>7. /\ c \in Seq(Write) /\ Len(c) = Len(q) + 1
      /\ \A i \in 1..Len(q) : c[i] = Writes(q)[i]
      /\ c[Len(q) + 1] = b.w
  BY <1>3, <1>4, <1>6
<1>8. ASSUME NEW i \in 1..(Len(q) + 1) PROVE Writes(a)[i] = c[i]
  <2>1. i = Len(q) + 1 \/ i \in 1..Len(q)
    BY <1>2
  <2> QED
    BY <2>1, <1>2, <1>4, <1>5, <1>7
<1>9. Writes(a) = c
  BY <1>5, <1>7, <1>8, SeqEqual
<1> QED
  BY <1>1, <1>6, <1>9

(* The first write is the one of the first batch.                          *)
LEMMA WritesTail ==
  ASSUME NEW q \in Seq(Batch), q # <<>>
  PROVE  /\ Writes(Tail(q)) = Tail(Writes(q)) /\ Writes(q) # <<>>
         /\ Head(Writes(q)) = Head(q).w
<1>1. /\ Tail(q) \in Seq(Batch) /\ Len(Tail(q)) = Len(q) - 1
      /\ Len(q) \in Nat /\ Len(q) >= 1 /\ Head(q) = q[1]
      /\ \A i \in 1..(Len(q) - 1) : Tail(q)[i] = q[i + 1]
  OBVIOUS
<1>2. PICK a : a = Writes(q)
  OBVIOUS
<1>3. /\ a \in Seq(Write) /\ Len(a) = Len(q)
      /\ \A i \in 1..Len(q) : a[i] = q[i].w
  BY <1>2, WritesFacts
<1>4. a # <<>> /\ Head(a) = Head(q).w
  BY <1>1, <1>3
<1>5. /\ Tail(a) \in Seq(Write) /\ Len(Tail(a)) = Len(q) - 1
      /\ \A i \in 1..(Len(q) - 1) : Tail(a)[i] = a[i + 1]
  BY <1>3, <1>4
<1>6. /\ Writes(Tail(q)) \in Seq(Write) /\ Len(Writes(Tail(q))) = Len(q) - 1
      /\ \A i \in 1..(Len(q) - 1) : Writes(Tail(q))[i] = Tail(q)[i].w
  BY <1>1, WritesFacts
<1>7. ASSUME NEW i \in 1..(Len(q) - 1) PROVE Writes(Tail(q))[i] = Tail(a)[i]
  <2>1. PICK k : k = i + 1
    OBVIOUS
  <2>2. k \in 1..Len(q)
    BY <2>1, <1>1
  <2> QED
    BY <2>1, <2>2, <1>1, <1>3, <1>5, <1>6
<1>8. Writes(Tail(q)) = Tail(a)
  BY <1>5, <1>6, <1>7, SeqEqual
<1> QED
  BY <1>2, <1>4, <1>8

(* No two queued batches carry the same write.                             *)
LEMMA WritesUnique ==
  ASSUME QueueInv, NEW u \in User, NEW v \in User,
         NEW i \in DOMAIN queue[u], NEW j \in DOMAIN queue[v],
         queue[u][i].w = queue[v][j].w
  PROVE  u = v /\ i = j
<1>1. u = v
  BY DEF QueueInv, BatchesKnown
<1>2. queue[u] \in Seq(Batch) /\ i \in Int /\ j \in Int /\ queue[u][i] \in Batch
  BY <1>1 DEF QueueInv, QueueTypes
<1>3. queue[u][i].w \in Nat
  BY <1>2, BatchFacts
<1>4. ~ (i < j) /\ ~ (j < i)
  BY <1>1, <1>2, <1>3 DEF QueueInv, QueuesInOrder, Ascending
<1> QED
  BY <1>1, <1>2, <1>4

(* What the abstract queue sees of the concrete one.                       *)
LEMMA PendingFacts ==
  ASSUME QueueInv
  PROVE  /\ Pending = [u \in User |-> Writes(queue[u])]
         /\ Pending \in [User -> Seq(Write)]
         /\ \A u \in User : /\ Pending[u] = Writes(queue[u])
                            /\ Len(Pending[u]) = Len(queue[u])
                            /\ \A i \in 1..Len(queue[u]) : Pending[u][i] = queue[u][i].w
<1>1. queue \in [User -> Seq(Batch)]
  BY DEF QueueInv, QueueTypes
<1>2. Pending = [u \in User |-> Writes(queue[u])]
  BY DEF Pending, Writes
<1>3. \A u \in User : /\ Writes(queue[u]) \in Seq(Write)
                      /\ Len(Writes(queue[u])) = Len(queue[u])
                      /\ \A i \in 1..Len(queue[u]) : Writes(queue[u])[i] = queue[u][i].w
  BY <1>1, WritesFacts
<1> QED
  BY <1>2, <1>3

(* Somebody waits for a write whose callback is stored.                    *)
LEMMA ListeningFacts ==
  \A w : w \in Listening <=> \E u \in User : \E c \in callbacks[u] : c.w = w
BY DEF Listening

(* The client starts as the abstract queue does.                           *)
LEMMA PromiseInit == Init => Promise!Init
<1> SUFFICES ASSUME Init PROVE Promise!Init
  OBVIOUS
<1>1. /\ issued = <<>> /\ user \in User /\ queue = [u \in User |-> <<>>]
      /\ callbacks = [u \in User |-> {}] /\ told = [w \in Write |-> "nothing"]
      /\ rs = Stopped /\ log = <<>>
  BY DEF Init
<1>2. Pending = [u \in User |-> <<>>]
  <2>1. \A u \in User : [i \in DOMAIN queue[u] |-> queue[u][i].w] = <<>>
    BY <1>1
  <2> QED
    BY <2>1 DEF Pending
<1>3. Ahead = 0
  <2>1. ~ rs.handshake
    BY <1>1 DEF Stopped
  <2>2. Results(rs) = <<>>
    BY <2>1 DEF Results
  <2> QED
    BY <2>2 DEF Ahead
<1>4. Listening = {}
  BY <1>1 DEF Listening
<1> QED
  BY <1>1, <1>2, <1>3, <1>4 DEF Promise!Init, Promise!Write, Write

(* A step that keeps the queues and callbacks keeps what the abstract      *)
(* queue holds and who waits.                                              *)
LEMMA QueueSeenUnchanged ==
  ASSUME queue' = queue, callbacks' = callbacks
  PROVE  Pending' = Pending /\ Listening' = Listening
BY DEF Pending, Listening

(* A stream that is not established has no result under way.               *)
LEMMA NothingAhead ==
  ASSUME ~ rs'.handshake
  PROVE  Ahead' = 0
<1>1. Results(rs)' = <<>>
  BY DEF Results
<1>2. Len(<<>>) = 0
  OBVIOUS
<1> QED
  BY <1>1, <1>2 DEF Ahead

(* Issuing a write is Issue.                                               *)
LEMMA IssueSimulated ==
  ASSUME WriteInv, WriteMutations
  PROVE  Promise!Issue
<1>1. PICK b \in Batch :
        /\ b = [id |-> nextId, w |-> Len(issued) + 1]
        /\ queue' = [queue EXCEPT ![user] = Append(queue[user], b)]
        /\ callbacks' = [callbacks EXCEPT ![user] = callbacks[user] \cup {b}]
  BY IssueKeeps DEF WriteInv
<1>2. /\ Len(issued) < MaxWrites /\ issued' = Append(issued, user)
      /\ UNCHANGED <<user, told, log>>
  BY DEF WriteMutations
<1>3. QueueInv /\ QueueInv'
  BY IssueKeeps DEF WriteInv
<1>4. /\ user \in User /\ queue \in [User -> Seq(Batch)] /\ queue[user] \in Seq(Batch)
      /\ callbacks \in [User -> SUBSET Batch]
  BY <1>3 DEF QueueInv, QueueTypes
<1>5. PICK w : w = Len(issued) + 1 /\ b.w = w
  BY <1>1
<1>6. Pending' = [Pending EXCEPT ![user] = Append(Pending[user], w)]
  <2>1. Pending = [u \in User |-> Writes(queue[u])]
    BY <1>3, PendingFacts
  <2>2. Pending' = [u \in User |-> Writes(queue'[u])]
    BY DEF Pending, Writes
  <2>3. Writes(queue'[user]) = Append(Writes(queue[user]), w)
    BY <1>1, <1>4, <1>5, WritesAppend
  <2>4. \A u \in User : u # user => queue'[u] = queue[u]
    BY <1>1, <1>4
  <2> QED
    BY <2>1, <2>2, <2>3, <2>4, <1>4
<1>7. Listening' = Listening \cup {w}
  <2>1. \A x : x \in Listening' <=> \E u \in User : \E c \in callbacks'[u] : c.w = x
    BY DEF Listening
  <2>2. \A u \in User : callbacks'[u] = IF u = user THEN callbacks[u] \cup {b} ELSE callbacks[u]
    BY <1>1, <1>4
  <2>3. ASSUME NEW x \in Listening' PROVE x \in Listening \cup {w}
    <3>1. PICK u \in User : \E c \in callbacks'[u] : c.w = x
      BY <2>1
    <3>2. PICK c \in callbacks'[u] : c.w = x
      BY <3>1
    <3>3. c \in callbacks[u] \/ c = b
      BY <2>2
    <3> QED
      BY <3>2, <3>3, <1>5, ListeningFacts
  <2>4. ASSUME NEW x \in Listening PROVE x \in Listening'
    <3>1. PICK u \in User : \E c \in callbacks[u] : c.w = x
      BY ListeningFacts
    <3>2. PICK c \in callbacks[u] : c.w = x
      BY <3>1
    <3>3. c \in callbacks'[u]
      BY <2>2
    <3> QED
      BY <2>1, <3>2, <3>3
  <2>5. w \in Listening'
    <3>1. b \in callbacks'[user]
      BY <2>2, <1>4
    <3> QED
      BY <2>1, <3>1, <1>4, <1>5
  <2> QED
    BY <2>3, <2>4, <2>5
<1>8. Ahead' = Ahead
  <2>1. rs'.down = rs.down /\ rs'.handshake = rs.handshake
    BY IssueStep
  <2> QED
    BY <2>1 DEF Ahead, Results, Ended
<1> QED
  BY <1>2, <1>5, <1>6, <1>7, <1>8 DEF Promise!Issue

(* An answer takes the head of the queue, and the page that waits for that *)
(* write, if any, is told.                                                 *)
LEMMA AnswerSimulated ==
  ASSUME WriteInv, rs.pipeline # <<>>,
         NEW outcome \in {"done", "refused"}, AnswerFirst(outcome),
         UNCHANGED <<issued, user, token, log, trouble>>
  PROVE  /\ Pending[user] # <<>>
         /\ Pending' = [Pending EXCEPT ![user] = Tail(Pending[user])]
         /\ Promise!Tell(Head(Pending[user]), outcome)
<1>1. PICK b : b = Head(queue[user])
  OBVIOUS
<1>2. /\ queue[user] # <<>>
      /\ queue' = [queue EXCEPT ![user] = Tail(queue[user])]
      /\ callbacks' = [callbacks EXCEPT ![user] = callbacks[user] \ {b}]
      /\ told' = [w \in Write |-> IF w = b.w /\ b \in callbacks[user]
                                  THEN outcome ELSE told[w]]
  BY <1>1, AnswerKeeps
<1>3. QueueInv
  BY DEF WriteInv
<1>4. /\ user \in User /\ queue \in [User -> Seq(Batch)] /\ queue[user] \in Seq(Batch)
      /\ callbacks \in [User -> SUBSET Batch]
      /\ told \in [Write -> {"nothing", "done", "refused"}]
  BY <1>3 DEF QueueInv, QueueTypes
<1>5. Pending = [u \in User |-> Writes(queue[u])]
  BY <1>3, PendingFacts
<1>6. Pending[user] # <<>> /\ Head(Pending[user]) = b.w
  BY <1>1, <1>2, <1>4, <1>5, WritesTail
<1>7. Pending' = [Pending EXCEPT ![user] = Tail(Pending[user])]
  <2>1. Pending' = [u \in User |-> Writes(queue'[u])]
    BY DEF Pending, Writes
  <2>2. Writes(queue'[user]) = Tail(Writes(queue[user]))
    BY <1>2, <1>4, WritesTail
  <2>3. \A u \in User : u # user => queue'[u] = queue[u]
    BY <1>2, <1>4
  <2> QED
    BY <2>1, <2>2, <2>3, <1>4, <1>5
<1>8. /\ 1 \in DOMAIN queue[user] /\ b = queue[user][1] /\ b \in Batch
  BY <1>1, <1>2, <1>4
<1>9. ASSUME NEW u \in User, NEW c \in callbacks[u], c.w = b.w PROVE u = user /\ c = b
  <2>1. PICK i \in DOMAIN queue[u] : c = queue[u][i]
    BY <1>3 DEF QueueInv, CallbackOfItsBatch, ToSet
  <2>2. queue[u][i].w = queue[user][1].w
    BY <2>1, <1>8, <1>9
  <2>3. u = user /\ i = 1
    BY <2>2, <1>3, <1>4, <1>8, WritesUnique
  <2> QED
    BY <2>1, <2>3, <1>8
<1>10. b.w \in Listening <=> b \in callbacks[user]
  BY <1>4, <1>9, ListeningFacts
<1>11. Listening' = Listening \ {b.w}
  <2>1. \A x : x \in Listening' <=> \E u \in User : \E c \in callbacks'[u] : c.w = x
    BY DEF Listening
  <2>2. \A u \in User : callbacks'[u] = IF u = user THEN callbacks[u] \ {b} ELSE callbacks[u]
    BY <1>2, <1>4
  <2>3. ASSUME NEW x \in Listening' PROVE x \in Listening /\ x # b.w
    <3>1. PICK u \in User : \E c \in callbacks'[u] : c.w = x
      BY <2>1
    <3>a. PICK c \in callbacks'[u] : c.w = x
      BY <3>1
    <3>2. c \in callbacks[u] /\ ~ (u = user /\ c = b)
      BY <2>2
    <3> QED
      BY <3>a, <3>2, <1>9, ListeningFacts
  <2>4. ASSUME NEW x \in Listening, x # b.w PROVE x \in Listening'
    <3>1. PICK u \in User : \E c \in callbacks[u] : c.w = x
      BY ListeningFacts
    <3>a. PICK c \in callbacks[u] : c.w = x
      BY <3>1
    <3>2. c \in callbacks'[u]
      BY <2>2, <2>4, <3>a
    <3> QED
      BY <2>1, <3>a, <3>2
  <2> QED
    BY <2>3, <2>4
<1>12. told' = IF b.w \in Listening THEN [told EXCEPT ![b.w] = outcome] ELSE told
  <2>1. b.w \in Write
    BY <1>8, BatchFacts
  <2>2. CASE b \in callbacks[user]
    BY <2>1, <2>2, <1>2, <1>4, <1>10
  <2>3. CASE b \notin callbacks[user]
    BY <2>3, <1>2, <1>4, <1>10
  <2> QED
    BY <2>2, <2>3
<1> QED
  BY <1>6, <1>7, <1>11, <1>12 DEF Promise!Tell

(* What the server applies is the next write of the abstract queue.        *)
LEMMA ApplySimulated ==
  ASSUME WriteInv, Ahead \in 0..(Len(rs.pipeline) - 1),
         log' = Append(log, rs.pipeline[Ahead + 1].w), Ahead' = Ahead + 1,
         UNCHANGED <<issued, user, store>>
  PROVE  Promise!Apply
<1>1. PICK q, n : q = queue[user] /\ n = Ahead + 1
  OBVIOUS
<1>2. QueueInv /\ q \in Seq(Batch) /\ rs.pipeline = Filled(q) /\ user \in User
  BY <1>1 DEF WriteInv, QueueInv, QueueTypes
<1>3. /\ Room(q) \in Nat /\ Room(q) <= Len(q) /\ Len(Filled(q)) = Room(q)
      /\ \A i \in 1..Room(q) : Filled(q)[i] = q[i]
  BY <1>2, RoomFacts
<1>4. /\ Len(Pending[user]) = Len(q)
      /\ \A i \in 1..Len(q) : Pending[user][i] = q[i].w
  BY <1>1, <1>2, PendingFacts
<1>5. n \in 1..Room(q) /\ n \in 1..Len(q) /\ Ahead < Len(q)
  BY <1>1, <1>2, <1>3
<1>6. rs.pipeline[n].w = Pending[user][n]
  BY <1>2, <1>3, <1>4, <1>5
<1>7. Pending' = Pending /\ Listening' = Listening
  BY QueueSeenUnchanged DEF store
<1>8. log' = Append(log, Pending[user][Ahead + 1]) /\ Ahead < Len(Pending[user])
  BY <1>1, <1>4, <1>5, <1>6
<1> QED
  BY <1>7, <1>8 DEF Promise!Apply, store

(* Every step of the client is a step of the abstract queue or leaves it   *)
(* as it is.                                                               *)
LEMMA PromiseStep ==
  WriteInv /\ [Next]_vars => [Promise!Next]_(Promise!vars)
<1> SUFFICES ASSUME WriteInv, [Next]_vars PROVE [Promise!Next]_(Promise!vars)
  OBVIOUS
<1>0. user \in User /\ Len(Results(rs)) = Ahead /\ Len(Results(rs')) = Ahead'
  BY DEF WriteInv, QueueInv, QueueTypes, Ahead
<1>1. ASSUME UNCHANGED <<issued, user, store, log>>, Ahead' = Ahead
      PROVE  UNCHANGED Promise!vars
  BY <1>1, QueueSeenUnchanged DEF Promise!vars, store
<1>2. ASSUME UNCHANGED <<issued, user, store, log>>, ~ rs'.handshake
      PROVE  Promise!Disconnect
  BY <1>2, QueueSeenUnchanged, NothingAhead DEF Promise!Disconnect, store
<1>3. CASE WriteMutations
  BY <1>3, IssueSimulated DEF Promise!Next
<1>4. CASE ResumeStartWithCredentials \/ HandshakeComplete \/ BackoffElapsed \/ HealthCheck
  <2>1. UNCHANGED <<issued, user, store, log>>
    BY <1>4 DEF ResumeStartWithCredentials, HandshakeComplete, BackoffElapsed, HealthCheck
  <2>2. Ahead' = Ahead
    BY <1>0, <1>4, StreamStep
  <2> QED
    BY <2>1, <2>2, <1>1
<1>5. CASE MutationResult
  <2>1. AnswerFirst("done") /\ UNCHANGED <<issued, user, token, log, trouble>>
    BY <1>5 DEF MutationResult
  <2>2. rs.pipeline # <<>> /\ Ahead > 0 /\ Ahead' = Ahead - 1
    BY <1>0, <1>5, ResultStep
  <2>3. /\ Pending' = [Pending EXCEPT ![user] = Tail(Pending[user])]
        /\ Promise!Tell(Head(Pending[user]), "done")
    BY <2>1, <2>2, AnswerSimulated
  <2>4. Promise!Acknowledge
    BY <2>1, <2>2, <2>3 DEF Promise!Acknowledge
  <2> QED
    BY <2>4 DEF Promise!Next
<1>6. CASE WriteRejected
  <2>1. AnswerFirst("refused") /\ UNCHANGED <<issued, user, token, log, trouble>>
    BY <1>6 DEF WriteRejected
  <2>2. rs.pipeline # <<>> /\ Ahead = 0 /\ Ahead' = 0
    BY <1>0, <1>6, RefusalStep, NothingAhead
  <2>3. /\ Pending[user] # <<>>
        /\ Pending' = [Pending EXCEPT ![user] = Tail(Pending[user])]
        /\ Promise!Tell(Head(Pending[user]), "refused")
    BY <2>1, <2>2, AnswerSimulated
  <2>4. Promise!Refuse
    BY <2>1, <2>2, <2>3 DEF Promise!Refuse
  <2> QED
    BY <2>4 DEF Promise!Next
<1>7. CASE IdleTimeout \/ Unauthenticated \/ StreamFails
  <2>1. UNCHANGED <<issued, user, store, log>>
    BY <1>7 DEF IdleTimeout, Unauthenticated, StreamFails
  <2> QED
    BY <2>1, <1>2, <1>7, CloseStep DEF Promise!Next
<1>8. CASE ConnectivityChanged
  <2>1. /\ UNCHANGED <<issued, user, store, log>> /\ user' \in User /\ queue' = queue
        /\ rs' = RestartNetwork(rs, queue[user'])
    BY <1>0, <1>8 DEF ConnectivityChanged, store
  <2> QED
    BY <2>1, <1>2, RestartStep DEF Promise!Next
<1>9. ASSUME NEW u \in User, HandleCredentialChange(u) PROVE Promise!Next
  <2>1. /\ UNCHANGED <<issued, queue, callbacks, told, log>> /\ user' = u
        /\ rs' = RestartNetwork(rs, queue[user'])
    BY <1>9 DEF HandleCredentialChange
  <2>2. ~ rs'.handshake
    BY <2>1, RestartStep
  <2>3. Promise!SignIn(u)
    BY <2>1, <2>2, QueueSeenUnchanged, NothingAhead DEF Promise!SignIn
  <2> QED
    BY <2>3 DEF Promise!Next
<1>10. CASE CrashAndRestart
  <2>1. /\ UNCHANGED <<issued, user, queue, told, log>> /\ user' \in User
        /\ callbacks' = [u \in User |-> {}]
        /\ rs' = FillWritePipeline(Stopped, queue[user'])
    BY <1>0, <1>10 DEF CrashAndRestart
  <2>2. ~ rs'.handshake
    BY <2>1, RestartStep
  <2>3. Pending' = Pending /\ Listening' = {}
    BY <2>1 DEF Pending, Listening
  <2>4. Promise!Restart
    BY <2>1, <2>2, <2>3, NothingAhead DEF Promise!Restart
  <2> QED
    BY <2>4 DEF Promise!Next
<1>11. CASE TokenGoesStale \/ UNCHANGED vars
  <2>1. UNCHANGED <<issued, user, store, rs, log>>
    BY <1>11 DEF TokenGoesStale, vars
  <2>2. Ahead' = Ahead
    BY <2>1 DEF Ahead, Results, Ended
  <2> QED
    BY <2>1, <2>2, <1>1
<1>12. CASE ServerAcceptsStream \/ ServerApplies \/ ServerRefuses
  <2>1. UNCHANGED <<issued, user, store>>
    BY <1>12 DEF ServerAcceptsStream, ServerApplies, ServerRefuses, ServerReplies
  <2>2. \/ log' = log /\ Ahead' = Ahead
        \/ /\ Ahead \in 0..(Len(rs.pipeline) - 1)
           /\ log' = Append(log, rs.pipeline[Ahead + 1].w)
           /\ Ahead' = Ahead + 1
    BY <1>0, <1>12, ServerStep
  <2> QED
    BY <2>1, <2>2, <1>1, ApplySimulated DEF Promise!Next
<1> QED
  BY <1>3, <1>4, <1>5, <1>6, <1>7, <1>8, <1>9, <1>10, <1>11, <1>12 DEF Next

(* The client implements WriteQueue: the pages see one queue per user that *)
(* survives restarts, whose writes the server applies in order and which   *)
(* is left from its head.  (That every write is answered in the end is     *)
(* liveness, which KeepsPromise adds and TLC checks.)                      *)
THEOREM ImplementsWriteQueue ==
  Spec => Promise!Init /\ [][Promise!Next]_(Promise!vars)
<1>1. Spec => Init /\ [][Next]_vars
  BY DEF Spec
<1> QED
  BY <1>1, PromiseInit, PromiseStep, WriteInvAlways, PTL

(***************************************************************************)
(* What the order of the abstract queue means to the pages.  A history is  *)
(* iss (who issued each write), u (the user), p (the writes that wait), a  *)
(* (how many of them this connection applied), l (the server's log) and t  *)
(* (what the pages were told).                                             *)
(***************************************************************************)
In(l, w) == \E i \in DOMAIN l : l[i] = w

(* Some application of w follows every application of v.                   *)
After(l, v, w) ==
  \E i \in DOMAIN l : l[i] = w /\ \A j \in DOMAIN l : l[j] = v => j < i

(* A history of the right types, whose queues are in the order of issue.   *)
HistoryShape(iss, u, p, l, t) ==
  /\ iss \in Seq(User) /\ Len(iss) <= MaxWrites
  /\ u \in User
  /\ p \in [User -> Seq(Write)]
  /\ l \in Seq(Write)
  /\ t \in [Write -> {"nothing", "done", "refused"}]
  /\ \A x \in User : \A i \in 1..Len(p[x]) :
       /\ p[x][i] <= Len(iss) /\ iss[p[x][i]] = x
       /\ \A j \in 1..Len(p[x]) : i < j => p[x][i] < p[x][j]

(* What was applied was issued; what was answered no longer waits, nor     *)
(* does anything of its user issued before it.                             *)
HistoryKnown(iss, p, l, t) ==
  /\ \A w \in Write : In(l, w) => w <= Len(iss)
  /\ \A w \in Write : t[w] # "nothing" =>
       /\ w <= Len(iss)
       /\ \A i \in 1..Len(p[iss[w]]) : w < p[iss[w]][i]

(* The writes whose results are under way were applied, each after every   *)
(* application of an earlier write of the user.                            *)
HistoryAhead(iss, u, p, a, l) ==
  /\ a \in Nat /\ a <= Len(p[u])
  /\ \A i \in 1..a : In(l, p[u][i])
  /\ \A i \in 1..a : \A v \in Write :
       v < p[u][i] /\ iss[v] = u => After(l, v, p[u][i])

(* The consequences: nothing overtakes, what is told is true, and of two   *)
(* writes done the later one stays.                                        *)
HistoryGood(iss, p, l, t) ==
  /\ \A x \in User : \A i \in 1..Len(p[x]) : \A j \in 1..i :
       In(l, p[x][i]) => In(l, p[x][j])
  /\ \A w \in Write : t[w] = "done" => In(l, w)
  /\ \A v, w \in Write :
       v < w /\ t[v] = "done" /\ t[w] = "done" /\ iss[v] = iss[w] => After(l, v, w)

HistorySound(iss, u, p, a, l, t) ==
  /\ HistoryKnown(iss, p, l, t)
  /\ HistoryAhead(iss, u, p, a, l)
  /\ HistoryGood(iss, p, l, t)

(* What an application adds to the log.                                    *)
LEMMA LogGrows ==
  ASSUME NEW l \in Seq(Write), NEW x \in Write
  PROVE  /\ \A w \in Write : In(Append(l, x), w) <=> (In(l, w) \/ w = x)
         /\ \A v, w \in Write : After(l, v, w) /\ v # x => After(Append(l, x), v, w)
         /\ \A v \in Write : v # x => After(Append(l, x), v, x)
<1>1. PICK m, n : m = Append(l, x) /\ n = Len(l)
  OBVIOUS
<1>2. /\ n \in Nat /\ DOMAIN l = 1..n /\ DOMAIN m = 1..(n + 1)
      /\ m[n + 1] = x /\ \A i \in 1..n : m[i] = l[i]
  BY <1>1
<1>3. \A i \in 1..(n + 1) : i \in 1..n \/ i = n + 1
  BY <1>2
<1>4. \A i \in 1..n : i \in 1..(n + 1) /\ i < n + 1
  BY <1>2
<1>5. n + 1 \in 1..(n + 1)
  BY <1>2
<1>6. ASSUME NEW w \in Write PROVE In(m, w) <=> (In(l, w) \/ w = x)
  <2>1. In(m, w) => In(l, w) \/ w = x
    BY <1>2, <1>3 DEF In
  <2>2. In(l, w) => In(m, w)
    BY <1>2, <1>4 DEF In
  <2>3. w = x => In(m, w)
    BY <1>2, <1>5 DEF In
  <2> QED
    BY <2>1, <2>2, <2>3
<1>7. ASSUME NEW v \in Write, NEW w \in Write, After(l, v, w), v # x PROVE After(m, v, w)
  <2>1. PICK i \in 1..n : l[i] = w /\ \A j \in 1..n : l[j] = v => j < i
    BY <1>2, <1>7 DEF After
  <2>2. i \in DOMAIN m /\ m[i] = w
    BY <2>1, <1>2, <1>4
  <2>3. ASSUME NEW j \in DOMAIN m, m[j] = v PROVE j < i
    BY <2>1, <2>3, <1>2, <1>3, <1>7
  <2> QED
    BY <2>2, <2>3 DEF After
<1>8. ASSUME NEW v \in Write, v # x PROVE After(m, v, x)
  <2>1. ASSUME NEW j \in DOMAIN m, m[j] = v PROVE j < n + 1
    BY <2>1, <1>2, <1>3, <1>4, <1>8
  <2> QED
    BY <2>1, <1>2, <1>5 DEF After
<1> QED
  BY <1>1, <1>6, <1>7, <1>8

(* A new write is the newest of its user and was never applied.            *)
LEMMA HistoryIssued ==
  ASSUME NEW iss, NEW u, NEW p, NEW a, NEW l, NEW t,
         HistoryShape(iss, u, p, l, t), HistorySound(iss, u, p, a, l, t),
         Len(iss) < MaxWrites
  PROVE  HistorySound(Append(iss, u), u,
                      [p EXCEPT ![u] = Append(p[u], Len(iss) + 1)], a, l, t)
<1>1. PICK n, is2, p2 : /\ n = Len(iss) /\ is2 = Append(iss, u)
                        /\ p2 = [p EXCEPT ![u] = Append(p[u], Len(iss) + 1)]
  OBVIOUS
<1>2. /\ iss \in Seq(User) /\ u \in User /\ p \in [User -> Seq(Write)] /\ n \in Nat
      /\ MaxWrites \in Nat /\ n + 1 \in Write /\ Write \subseteq Nat /\ p[u] \in Seq(Write)
  BY <1>1, LimitAssumption DEF HistoryShape, Write
<1>3. Len(is2) = n + 1 /\ \A w \in Write : w <= n => is2[w] = iss[w]
  <2>1. Len(is2) = n + 1 /\ \A w \in 1..n : is2[w] = iss[w]
    BY <1>1, <1>2
  <2>2. \A w \in Write : w <= n => w \in 1..n
    BY <1>2 DEF Write
  <2> QED
    BY <2>1, <2>2
<1>4. /\ p2[u] = Append(p[u], n + 1) /\ \A x \in User : x # u => p2[x] = p[x]
      /\ Len(p2[u]) = Len(p[u]) + 1 /\ Len(p[u]) \in Nat
      /\ p2[u][Len(p[u]) + 1] = n + 1
      /\ \A i \in 1..Len(p[u]) : p2[u][i] = p[u][i]
  BY <1>1, <1>2
<1>5. ASSUME NEW x \in User, NEW i \in 1..Len(p2[x])
      PROVE  \/ i \in 1..Len(p[x]) /\ p2[x][i] = p[x][i]
             \/ x = u /\ i = Len(p[x]) + 1 /\ p2[x][i] = n + 1
  <2>1. CASE x # u
    BY <2>1, <1>4
  <2>2. CASE x = u
    <3>1. i \in 1..Len(p[u]) \/ i = Len(p[u]) + 1
      BY <2>2, <1>4, <1>5
    <3> QED
      BY <2>2, <3>1, <1>4
  <2> QED
    BY <2>1, <2>2
<1>6. /\ \A w \in Write : In(l, w) => w <= n
      /\ \A w \in Write : t[w] # "nothing" =>
           w <= n /\ \A i \in 1..Len(p[iss[w]]) : w < p[iss[w]][i]
  BY <1>1 DEF HistorySound, HistoryKnown
<1>7. \A w \in Write : w <= n => w <= n + 1 /\ w < n + 1
  BY <1>2
<1>8. HistoryKnown(is2, p2, l, t)
  <2>1. ASSUME NEW w \in Write, t[w] # "nothing", NEW i \in 1..Len(p2[is2[w]])
        PROVE  w < p2[is2[w]][i]
    <3>1. w <= n /\ is2[w] = iss[w] /\ iss[w] \in User
      <4>1. w <= n /\ is2[w] = iss[w]
        BY <2>1, <1>3, <1>6
      <4>2. w \in 1..n
        BY <4>1, <1>2 DEF Write
      <4> QED
        BY <4>1, <4>2, <1>1, <1>2
    <3>2. \/ i \in 1..Len(p[iss[w]]) /\ p2[iss[w]][i] = p[iss[w]][i]
          \/ p2[iss[w]][i] = n + 1
      BY <3>1, <2>1, <1>5
    <3> QED
      BY <3>1, <3>2, <2>1, <1>6, <1>7
  <2>2. \A w \in Write : t[w] # "nothing" => w <= n + 1
    BY <1>6, <1>7
  <2>3. \A w \in Write : In(l, w) => w <= n + 1
    BY <1>6, <1>7
  <2> QED
    BY <2>1, <2>2, <2>3, <1>3 DEF HistoryKnown
<1>9. /\ a \in Nat /\ a <= Len(p[u])
      /\ \A i \in 1..a : In(l, p[u][i])
      /\ \A i \in 1..a : \A v \in Write :
           v < p[u][i] /\ iss[v] = u => After(l, v, p[u][i])
  BY DEF HistorySound, HistoryAhead
<1>10. HistoryAhead(is2, u, p2, a, l)
  <2>1. \A i \in 1..a : i \in 1..Len(p[u]) /\ p2[u][i] = p[u][i]
    BY <1>4, <1>9
  <2>2. a <= Len(p2[u])
    BY <1>4, <1>9
  <2>3. ASSUME NEW i \in 1..a, NEW v \in Write, v < p2[u][i], is2[v] = u
        PROVE  After(l, v, p2[u][i])
    <3>1. p[u][i] \in Nat /\ p[u][i] <= n
      <4>1. i \in 1..Len(p[u])
        BY <2>1
      <4>2. p[u][i] \in Write
        BY <4>1, <1>2
      <4>3. p[u][i] <= Len(iss)
        BY <4>1, <1>2 DEF HistoryShape
      <4> QED
        BY <4>2, <4>3, <1>1, <1>2
    <3>2. v <= n /\ v < p[u][i]
      BY <3>1, <2>1, <2>3, <1>2
    <3>3. iss[v] = u
      BY <3>2, <2>3, <1>3
    <3> QED
      BY <3>2, <3>3, <2>1, <1>9
  <2> QED
    BY <2>1, <2>2, <2>3, <1>9 DEF HistoryAhead
<1>11. HistoryGood(is2, p2, l, t)
  <2>1. ~ In(l, n + 1)
    BY <1>2, <1>6
  <2>2. ASSUME NEW x \in User, NEW i \in 1..Len(p2[x]), NEW j \in 1..i, In(l, p2[x][i])
        PROVE  In(l, p2[x][j])
    <3>1. i \in 1..Len(p[x]) /\ p2[x][i] = p[x][i]
      BY <2>1, <2>2, <1>5
    <3>2. p[x] \in Seq(Write) /\ Len(p[x]) \in Nat
      BY <1>2
    <3>3. j \in 1..Len(p[x]) /\ j # Len(p[x]) + 1
      BY <3>1, <3>2
    <3>4. j \in 1..Len(p2[x])
      BY <3>3, <3>2, <1>4
    <3>5. p2[x][j] = p[x][j]
      BY <3>3, <3>4, <1>5
    <3> QED
      BY <3>1, <3>5, <2>2 DEF HistorySound, HistoryGood
  <2>3. \A w \in Write : t[w] # "nothing" => is2[w] = iss[w]
    BY <1>3, <1>6
  <2>4. ASSUME NEW v \in Write, NEW w \in Write, v < w, t[v] = "done", t[w] = "done",
               is2[v] = is2[w]
        PROVE  After(l, v, w)
    BY <2>3, <2>4 DEF HistorySound, HistoryGood
  <2> QED
    BY <2>2, <2>4 DEF HistorySound, HistoryGood
<1> QED
  BY <1>1, <1>8, <1>10, <1>11 DEF HistorySound

(* The server applies the next write of the queue: the ones before it were *)
(* applied already, and the ones answered are not applied again.           *)
LEMMA HistoryApplied ==
  ASSUME NEW iss, NEW u, NEW p, NEW a, NEW l, NEW t,
         HistoryShape(iss, u, p, l, t), HistorySound(iss, u, p, a, l, t),
         a < Len(p[u])
  PROVE  HistorySound(iss, u, p, a + 1, Append(l, p[u][a + 1]), t)
<1>1. PICK k, x, m : k = a + 1 /\ x = p[u][k] /\ m = Append(l, x)
  OBVIOUS
<1>2. /\ u \in User /\ p \in [User -> Seq(Write)] /\ l \in Seq(Write) /\ p[u] \in Seq(Write)
      /\ a \in Nat /\ Write \subseteq Nat
  BY LimitAssumption DEF HistoryShape, HistorySound, HistoryAhead, Write
<1>3. k \in Nat /\ k \in 1..Len(p[u]) /\ k <= Len(p[u]) /\ \A i \in 1..k : i \in 1..a \/ i = k
  BY <1>1, <1>2
<1>4. x \in Write /\ x <= Len(iss) /\ iss[x] = u
  <2>1. x \in Write
    BY <1>1, <1>2, <1>3
  <2> QED
    BY <2>1, <1>1, <1>2, <1>3 DEF HistoryShape
<1>5. /\ \A w \in Write : In(m, w) <=> (In(l, w) \/ w = x)
      /\ \A v, w \in Write : After(l, v, w) /\ v # x => After(m, v, w)
      /\ \A v \in Write : v # x => After(m, v, x)
  BY <1>1, <1>2, <1>4, LogGrows
<1>6. ASSUME NEW y \in User, NEW i \in 1..Len(p[y]) PROVE p[y][i] \in Write
  BY <1>2
<1>7. HistoryKnown(iss, p, m, t)
  <2>1. /\ \A w \in Write : In(l, w) => w <= Len(iss)
        /\ \A w \in Write : t[w] # "nothing" =>
             w <= Len(iss) /\ \A i \in 1..Len(p[iss[w]]) : w < p[iss[w]][i]
    BY DEF HistorySound, HistoryKnown
  <2> QED
    BY <2>1, <1>4, <1>5 DEF HistoryKnown
<1>8. /\ \A i \in 1..a : In(l, p[u][i])
      /\ \A i \in 1..a : \A v \in Write :
           v < p[u][i] /\ iss[v] = u => After(l, v, p[u][i])
  BY DEF HistorySound, HistoryAhead
<1>9. \A i \in 1..a : i \in 1..Len(p[u]) /\ i < k
  BY <1>1, <1>2, <1>3
<1>10. \A i \in 1..a : p[u][i] \in Write /\ p[u][i] < x
  <2>1. ASSUME NEW i \in 1..a PROVE p[u][i] < x
    BY <1>1, <1>2, <1>3, <1>9 DEF HistoryShape
  <2> QED
    BY <2>1, <1>2, <1>6, <1>9
<1>11. HistoryAhead(iss, u, p, k, m)
  <2>1. ASSUME NEW i \in 1..k PROVE In(m, p[u][i])
    <3>1. i \in 1..a \/ i = k
      BY <1>3
    <3> QED
      BY <3>1, <1>1, <1>4, <1>5, <1>8, <1>10
  <2>2. ASSUME NEW i \in 1..k, NEW v \in Write, v < p[u][i], iss[v] = u
        PROVE  After(m, v, p[u][i])
    <3>1. CASE i \in 1..a
      <4>1. After(l, v, p[u][i]) /\ p[u][i] \in Write
        BY <3>1, <2>2, <1>8, <1>10
      <4>2. PICK y : y = p[u][i]
        OBVIOUS
      <4>3. v \in Nat /\ y \in Nat /\ x \in Nat /\ v < y /\ y < x
        BY <3>1, <4>2, <2>2, <1>2, <1>4, <1>10
      <4>4. v # x
        BY <4>3
      <4> QED
        BY <4>1, <4>4, <1>5
    <3>2. CASE i = k
      <4>1. p[u][i] = x /\ v # x
        BY <3>2, <2>2, <1>1, <1>2, <1>4
      <4> QED
        BY <4>1, <1>5
    <3> QED
      BY <3>1, <3>2, <1>3
  <2> QED
    BY <2>1, <2>2, <1>3 DEF HistoryAhead
<1>12. HistoryGood(iss, p, m, t)
  <2>1. ASSUME NEW y \in User, NEW i \in 1..Len(p[y]), NEW j \in 1..i, In(m, p[y][i])
        PROVE  In(m, p[y][j])
    <3>0. j \in 1..Len(p[y])
      BY <1>2
    <3>1. p[y][i] \in Write /\ p[y][j] \in Write
      BY <3>0, <1>6
    <3>2. CASE In(l, p[y][i])
      <4>1. In(l, p[y][j])
        BY <3>2 DEF HistorySound, HistoryGood
      <4> QED
        BY <4>1, <3>1, <1>5
    <3>3. CASE p[y][i] = x
      <4>1. y = u
        BY <3>3, <1>4 DEF HistoryShape
      <4>2. i = k
        <5>1. i \in Int /\ k \in Int /\ p[u][i] = p[u][k]
          BY <4>1, <3>3, <1>1, <1>3
        <5>2. ~ (i < k) /\ ~ (k < i)
          <6>1. i < k => p[u][i] < p[u][k]
            BY <4>1, <1>3 DEF HistoryShape
          <6>2. k < i => p[u][k] < p[u][i]
            BY <4>1, <1>3 DEF HistoryShape
          <6> QED
            BY <6>1, <6>2, <5>1, <1>1, <1>2, <1>4
        <5> QED
          BY <5>1, <5>2
      <4>3. In(m, p[u][j])
        <5>1. j \in 1..k
          BY <4>2
        <5> QED
          BY <5>1, <1>11 DEF HistoryAhead
      <4> QED
        BY <4>1, <4>3
    <3> QED
      BY <3>1, <3>2, <3>3, <2>1, <1>5
  <2>2. \A w \in Write : t[w] = "done" => In(m, w)
    BY <1>5 DEF HistorySound, HistoryGood
  <2>3. ASSUME NEW v \in Write, NEW w \in Write, v < w, t[v] = "done", t[w] = "done",
               iss[v] = iss[w]
        PROVE  After(m, v, w)
    <3>1. After(l, v, w)
      BY <2>3 DEF HistorySound, HistoryGood
    <3>2. ASSUME v = x PROVE FALSE
      <4>1. x < p[u][k]
        BY <3>2, <2>3, <1>3, <1>4 DEF HistorySound, HistoryKnown
      <4> QED
        BY <4>1, <1>1, <1>2, <1>4
    <3> QED
      BY <3>1, <3>2, <1>5
  <2> QED
    BY <2>1, <2>2, <2>3 DEF HistoryGood
<1> QED
  BY <1>1, <1>7, <1>11, <1>12 DEF HistorySound

(* The head of the queue is answered: reported done only when applied, and *)
(* then after everything of its user that was reported before.             *)
LEMMA HistoryAnswered ==
  ASSUME NEW iss, NEW u, NEW p, NEW a, NEW l, NEW t, NEW t2, NEW a2,
         HistoryShape(iss, u, p, l, t), HistorySound(iss, u, p, a, l, t),
         p[u] # <<>>,
         \/ t2 = t
         \/ t2 = [t EXCEPT ![Head(p[u])] = "refused"]
         \/ a > 0 /\ t2 = [t EXCEPT ![Head(p[u])] = "done"],
         \/ a > 0 /\ a2 = a - 1
         \/ a2 = 0
  PROVE  HistorySound(iss, u, [p EXCEPT ![u] = Tail(p[u])], a2, l, t2)
<1>1. PICK h, p2 : h = Head(p[u]) /\ p2 = [p EXCEPT ![u] = Tail(p[u])]
  OBVIOUS
<1>2. /\ u \in User /\ p \in [User -> Seq(Write)] /\ l \in Seq(Write) /\ p[u] \in Seq(Write)
      /\ a \in Nat /\ Write \subseteq Nat /\ a <= Len(p[u])
      /\ t \in [Write -> {"nothing", "done", "refused"}]
  BY LimitAssumption DEF HistoryShape, HistorySound, HistoryAhead, Write
<1>3. /\ 1 \in 1..Len(p[u]) /\ h = p[u][1] /\ h \in Write /\ h \in Nat
      /\ Len(p[u]) \in Nat /\ p[u] # <<>>
  <2>1. PICK q : q = p[u]
    OBVIOUS
  <2>2. q \in Seq(Write) /\ q # <<>> /\ h = Head(q)
    BY <2>1, <1>1, <1>2
  <2>3. Len(q) \in Nat /\ 1 \in 1..Len(q) /\ h = q[1] /\ h \in Write
    BY ONLY <2>2
  <2> QED
    BY <2>1, <2>2, <2>3, <1>2
<1>4. h <= Len(iss) /\ iss[h] = u
  BY <1>2, <1>3 DEF HistoryShape
<1>5. /\ p2[u] = Tail(p[u]) /\ \A y \in User : y # u => p2[y] = p[y]
      /\ Len(p2[u]) = Len(p[u]) - 1
      /\ \A i \in 1..(Len(p[u]) - 1) : p2[u][i] = p[u][i + 1]
  BY <1>1, <1>2, <1>3
<1>6. ASSUME NEW i \in 1..(Len(p[u]) - 1)
      PROVE  i + 1 \in 1..Len(p[u]) /\ p2[u][i] = p[u][i + 1] /\ h < p2[u][i]
             /\ p2[u][i] \in Write
  <2>1. PICK k : k = i + 1
    OBVIOUS
  <2>2. k \in 1..Len(p[u]) /\ 1 < k
    BY <2>1, <1>3
  <2>3. p[u][1] < p[u][k] /\ p[u][k] \in Write
    BY <2>2, <1>2, <1>3 DEF HistoryShape
  <2> QED
    BY <2>1, <2>2, <2>3, <1>3, <1>5
<1>7. ASSUME NEW y \in User, NEW i \in 1..Len(p2[y])
      PROVE  \E k \in 1..Len(p[y]) : p2[y][i] = p[y][k] /\ (\A j \in 1..i : \E n \in 1..k : p2[y][j] = p[y][n])
  <2>1. CASE y # u
    BY <2>1, <1>5
  <2>2. CASE y = u
    <3>1. i \in 1..(Len(p[u]) - 1)
      BY <2>2, <1>5, <1>7
    <3>2. i + 1 \in 1..Len(p[u]) /\ p2[u][i] = p[u][i + 1]
      BY <3>1, <1>6
    <3>3. ASSUME NEW j \in 1..i PROVE j + 1 \in 1..(i + 1) /\ p2[u][j] = p[u][j + 1]
      <4>1. j \in 1..(Len(p[u]) - 1) /\ j + 1 \in 1..(i + 1)
        BY <3>1, <1>3
      <4> QED
        BY <4>1, <1>6
    <3> QED
      BY <2>2, <3>2, <3>3
  <2> QED
    BY <2>1, <2>2
<1>8. /\ \A w \in Write : In(l, w) => w <= Len(iss)
      /\ \A w \in Write : t[w] # "nothing" =>
           w <= Len(iss) /\ \A i \in 1..Len(p[iss[w]]) : w < p[iss[w]][i]
  BY DEF HistorySound, HistoryKnown
<1>9. /\ \A w \in Write : w # h => t2[w] = t[w]
      /\ t2[h] = t[h] \/ t2[h] = "refused" \/ (t2[h] = "done" /\ a > 0)
  BY <1>1, <1>2, <1>3
<1>10. iss \in Seq(User) /\ \A w \in Write : w <= Len(iss) => iss[w] \in User
  <2>1. iss \in Seq(User)
    BY DEF HistoryShape
  <2>2. \A w \in Write : w <= Len(iss) => w \in 1..Len(iss)
    BY <2>1, LimitAssumption DEF Write
  <2> QED
    BY <2>1, <2>2
<1>11. HistoryKnown(iss, p2, l, t2)
  <2>1. ASSUME NEW w \in Write, t2[w] # "nothing"
        PROVE  w <= Len(iss) /\ \A i \in 1..Len(p2[iss[w]]) : w < p2[iss[w]][i]
    <3>1. CASE t[w] # "nothing"
      <4>1. w <= Len(iss) /\ iss[w] \in User
        BY <3>1, <1>8, <1>10
      <4>2. ASSUME NEW i \in 1..Len(p2[iss[w]]) PROVE w < p2[iss[w]][i]
        <5>1. PICK k \in 1..Len(p[iss[w]]) : p2[iss[w]][i] = p[iss[w]][k]
          BY <4>1, <1>7
        <5> QED
          BY <5>1, <3>1, <1>8
      <4> QED
        BY <4>1, <4>2
    <3>2. CASE t[w] = "nothing"
      <4>1. w = h
        BY <3>2, <2>1, <1>9
      <4> QED
        BY <4>1, <1>4, <1>5, <1>6
    <3> QED
      BY <3>1, <3>2
  <2> QED
    BY <2>1, <1>8 DEF HistoryKnown
<1>12. /\ \A i \in 1..a : In(l, p[u][i])
       /\ \A i \in 1..a : \A v \in Write :
            v < p[u][i] /\ iss[v] = u => After(l, v, p[u][i])
  BY DEF HistorySound, HistoryAhead
<1>13. HistoryAhead(iss, u, p2, a2, l)
  <2>1. a2 \in Nat /\ a2 <= Len(p2[u]) /\ \A i \in 1..a2 : i \in 1..(Len(p[u]) - 1) /\ i + 1 \in 1..a
    <3>1. CASE a > 0 /\ a2 = a - 1
      BY <3>1, <1>2, <1>3, <1>5
    <3>2. CASE a2 = 0
      <4>1. Len(p[u]) > 0
        BY <1>3
      <4> QED
        BY <4>1, <3>2, <1>3, <1>5
    <3> QED
      BY <3>1, <3>2
  <2>2. ASSUME NEW i \in 1..a2
        PROVE  /\ In(l, p2[u][i])
               /\ \A v \in Write : v < p2[u][i] /\ iss[v] = u => After(l, v, p2[u][i])
    <3>1. PICK k : k = i + 1
      OBVIOUS
    <3>2. k \in 1..a /\ p2[u][i] = p[u][k]
      BY <3>1, <2>1, <1>6
    <3> QED
      BY <3>2, <1>12
  <2> QED
    BY <2>1, <2>2 DEF HistoryAhead
<1>14. HistoryGood(iss, p2, l, t2)
  <2>1. ASSUME NEW y \in User, NEW i \in 1..Len(p2[y]), NEW j \in 1..i, In(l, p2[y][i])
        PROVE  In(l, p2[y][j])
    <3>1. PICK k \in 1..Len(p[y]) :
            p2[y][i] = p[y][k] /\ \E n \in 1..k : p2[y][j] = p[y][n]
      BY <1>7
    <3>2. PICK n \in 1..k : p2[y][j] = p[y][n]
      BY <3>1
    <3> QED
      BY <2>1, <3>1, <3>2 DEF HistorySound, HistoryGood
  <2>2. t2[h] = "done" => In(l, h)
    <3>1. CASE a > 0
      <4>1. 1 \in 1..a
        BY <3>1, <1>2
      <4> QED
        BY <4>1, <1>3, <1>12
    <3>2. CASE t2[h] = t[h]
      BY <3>2, <1>3 DEF HistorySound, HistoryGood
    <3> QED
      BY <3>1, <3>2, <1>9
  <2>3. ASSUME NEW w \in Write, t2[w] = "done" PROVE In(l, w)
    <3>1. CASE w = h
      BY <3>1, <2>2, <2>3
    <3>2. CASE w # h
      BY <3>2, <2>3, <1>9 DEF HistorySound, HistoryGood
    <3> QED
      BY <3>1, <3>2
  <2>4. ASSUME NEW v \in Write, NEW w \in Write, v < w, t2[v] = "done", t2[w] = "done",
               iss[v] = iss[w]
        PROVE  After(l, v, w)
    <3>0. ASSUME NEW x \in Write, t[x] # "nothing", iss[x] = u PROVE x < h
      BY <3>0, <1>3, <1>8
    <3>1. CASE t[v] = "done" /\ t[w] = "done"
      BY <3>1, <2>4 DEF HistorySound, HistoryGood
    <3>2. CASE t[v] # "done"
      <4>1. v = h /\ w # h
        BY <3>2, <2>4, <1>2, <1>9
      <4>2. t[w] = "done" /\ iss[w] = u
        BY <4>1, <2>4, <1>4, <1>9
      <4>3. w < h
        BY <4>2, <3>0
      <4> QED
        BY <4>1, <4>3, <2>4, <1>2
    <3>3. CASE t[w] # "done"
      <4>1. w = h /\ v # h /\ t2[h] # t[h] /\ t2[h] = "done"
        BY <3>3, <2>4, <1>2, <1>9
      <4>2. a > 0
        BY <4>1, <1>9
      <4>3. 1 \in 1..a /\ v < p[u][1] /\ iss[v] = u
        BY <4>1, <4>2, <2>4, <1>2, <1>3, <1>4
      <4> QED
        BY <4>1, <4>3, <1>3, <1>12
    <3> QED
      BY <3>1, <3>2, <3>3
  <2> QED
    BY <2>1, <2>3, <2>4 DEF HistoryGood
<1> QED
  BY <1>1, <1>11, <1>13, <1>14 DEF HistorySound

(* A connection without results under way says nothing about the queue of  *)
(* whoever is signed in.                                                   *)
LEMMA HistoryReset ==
  ASSUME NEW iss, NEW u, NEW p, NEW a, NEW l, NEW t, NEW v \in User,
         HistoryShape(iss, u, p, l, t), HistorySound(iss, u, p, a, l, t)
  PROVE  HistorySound(iss, v, p, 0, l, t)
<1>1. p[v] \in Seq(Write) /\ Len(p[v]) \in Nat
  BY DEF HistoryShape
<1>2. HistoryAhead(iss, v, p, 0, l)
  BY <1>1 DEF HistoryAhead
<1> QED
  BY <1>2 DEF HistorySound

(* The history of the client.                                              *)
HistoryInv == HistorySound(issued, user, Pending, Ahead, log, told)

(* What WriteInv says of the history.                                      *)
LEMMA ShapeOfHistory ==
  ASSUME WriteInv
  PROVE  HistoryShape(issued, user, Pending, log, told)
<1>1. /\ issued \in Seq(User) /\ Len(issued) <= MaxWrites /\ user \in User
      /\ log \in Seq(Write) /\ told \in [Write -> {"nothing", "done", "refused"}]
      /\ QueueInv
  BY DEF WriteInv, QueueInv, QueueTypes
<1>2. /\ Pending \in [User -> Seq(Write)]
      /\ \A u \in User : /\ Len(Pending[u]) = Len(queue[u])
                         /\ \A i \in 1..Len(queue[u]) : Pending[u][i] = queue[u][i].w
  BY <1>1, PendingFacts
<1>3. ASSUME NEW u \in User, NEW i \in 1..Len(Pending[u])
      PROVE  /\ Pending[u][i] <= Len(issued) /\ issued[Pending[u][i]] = u
             /\ \A j \in 1..Len(Pending[u]) : i < j => Pending[u][i] < Pending[u][j]
  <2>1. queue[u] \in Seq(Batch) /\ DOMAIN queue[u] = 1..Len(queue[u]) /\ Ascending(queue[u])
    BY <1>1 DEF QueueInv, QueueTypes, QueuesInOrder
  <2>2. i \in DOMAIN queue[u] /\ Pending[u][i] = queue[u][i].w
    BY <2>1, <1>2
  <2>3. queue[u][i].w <= Len(issued) /\ issued[queue[u][i].w] = u
    BY <2>2, <1>1 DEF QueueInv, BatchesKnown
  <2>4. ASSUME NEW j \in 1..Len(Pending[u]), i < j PROVE Pending[u][i] < Pending[u][j]
    BY <2>1, <2>2, <2>4, <1>2 DEF Ascending
  <2> QED
    BY <2>2, <2>3, <2>4
<1> QED
  BY <1>1, <1>2, <1>3 DEF HistoryShape

(* At the start there is no history.                                       *)
LEMMA HistoryInvInit == Init => HistoryInv
<1> SUFFICES ASSUME Init PROVE HistoryInv
  OBVIOUS
<1>1. /\ issued = <<>> /\ user \in User /\ log = <<>>
      /\ told = [w \in Write |-> "nothing"]
  BY DEF Init
<1>2. Pending = [u \in User |-> <<>>] /\ Ahead = 0
  BY PromiseInit DEF Promise!Init
<1>3. Len(<<>>) = 0 /\ DOMAIN log = {}
  BY <1>1
<1>4. \A w : ~ In(log, w)
  BY <1>3 DEF In
<1>5. \A w \in Write : told[w] = "nothing"
  BY <1>1
<1>6. \A u \in User : Len(Pending[u]) = 0
  BY <1>2, <1>3
<1>7. HistoryKnown(issued, Pending, log, told)
  BY <1>4, <1>5 DEF HistoryKnown
<1>8. HistoryAhead(issued, user, Pending, Ahead, log)
  BY <1>1, <1>2, <1>6 DEF HistoryAhead
<1>9. HistoryGood(issued, Pending, log, told)
  BY <1>5, <1>6 DEF HistoryGood
<1> QED
  BY <1>7, <1>8, <1>9 DEF HistoryInv, HistorySound

(* Every step of the abstract queue keeps the history sound.               *)
LEMMA HistoryInvStep ==
  WriteInv /\ HistoryInv /\ [Promise!Next]_(Promise!vars) => HistoryInv'
<1> SUFFICES ASSUME WriteInv, HistoryInv, [Promise!Next]_(Promise!vars) PROVE HistoryInv'
  OBVIOUS
<1>1. PICK iss, u, p, a, l, t :
        /\ iss = issued /\ u = user /\ p = Pending /\ a = Ahead /\ l = log /\ t = told
        /\ HistoryShape(iss, u, p, l, t) /\ HistorySound(iss, u, p, a, l, t)
  BY ShapeOfHistory DEF HistoryInv
<1>2. /\ u \in User /\ p \in [User -> Seq(Write)] /\ a \in Nat /\ a <= Len(p[u])
  BY <1>1 DEF HistoryShape, HistorySound, HistoryAhead
<1> DEFINE Kept == HistorySound(issued', user', Pending', Ahead', log', told')
<1>a. SUFFICES Kept
  BY DEF HistoryInv
<1>3. ASSUME Promise!Issue PROVE Kept
  <2>1. /\ Len(iss) < MaxWrites
        /\ issued' = Append(iss, u) /\ user' = u
        /\ Pending' = [p EXCEPT ![u] = Append(p[u], Len(iss) + 1)]
        /\ Ahead' = a /\ log' = l /\ told' = t
    BY <1>1, <1>3 DEF Promise!Issue
  <2>2. HistorySound(Append(iss, u), u,
                     [p EXCEPT ![u] = Append(p[u], Len(iss) + 1)], a, l, t)
    BY <2>1, <1>1, HistoryIssued
  <2> QED
    BY <2>1, <2>2
<1>4. ASSUME Promise!Apply PROVE Kept
  <2>1. /\ a < Len(p[u]) /\ Ahead' = a + 1 /\ log' = Append(l, p[u][a + 1])
        /\ issued' = iss /\ user' = u /\ Pending' = p /\ told' = t
    BY <1>1, <1>4 DEF Promise!Apply
  <2>2. HistorySound(iss, u, p, a + 1, Append(l, p[u][a + 1]), t)
    BY <2>1, <1>1, HistoryApplied
  <2> QED
    BY <2>1, <2>2
<1>5. ASSUME Promise!Acknowledge \/ Promise!Refuse PROVE Kept
  <2>1. /\ issued' = iss /\ user' = u /\ log' = l
        /\ Pending' = [p EXCEPT ![u] = Tail(p[u])]
    BY <1>1, <1>5 DEF Promise!Acknowledge, Promise!Refuse
  <2>2. \/ a > 0 /\ Ahead' = a - 1
        \/ Ahead' = 0
    BY <1>1, <1>5 DEF Promise!Acknowledge, Promise!Refuse
  <2>3. p[u] # <<>>
    <3>1. CASE Promise!Refuse
      BY <3>1, <1>1 DEF Promise!Refuse
    <3>2. CASE Promise!Acknowledge
      <4>1. a > 0
        BY <3>2, <1>1 DEF Promise!Acknowledge
      <4>2. p[u] \in Seq(Write) /\ Len(p[u]) # 0
        BY <4>1, <1>2
      <4> QED
        BY <4>2
    <3> QED
      BY <3>1, <3>2, <1>5
  <2>4. \/ told' = t
        \/ told' = [t EXCEPT ![Head(p[u])] = "refused"]
        \/ a > 0 /\ told' = [t EXCEPT ![Head(p[u])] = "done"]
    BY <1>1, <1>5 DEF Promise!Acknowledge, Promise!Refuse, Promise!Tell
  <2>5. PICK t2, a2 : t2 = told' /\ a2 = Ahead'
    OBVIOUS
  <2>6. HistorySound(iss, u, [p EXCEPT ![u] = Tail(p[u])], a2, l, t2)
    BY <2>2, <2>3, <2>4, <2>5, <1>1, HistoryAnswered
  <2> QED
    BY <2>1, <2>5, <2>6
<1>6. ASSUME Ahead' = 0, user' \in User, UNCHANGED <<issued, Pending, log, told>> PROVE Kept
  <2>1. PICK v \in User : v = user'
    BY <1>6
  <2>2. HistorySound(iss, v, p, 0, l, t)
    BY <1>1, HistoryReset
  <2> QED
    BY <2>1, <2>2, <1>1, <1>6
<1>7. ASSUME Promise!Disconnect \/ Promise!Restart \/ \E v \in User : Promise!SignIn(v)
      PROVE Kept
  <2>1. Ahead' = 0 /\ user' \in User /\ UNCHANGED <<issued, Pending, log, told>>
    BY <1>1, <1>2, <1>7 DEF Promise!Disconnect, Promise!Restart, Promise!SignIn
  <2> QED
    BY <2>1, <1>6
<1>8. ASSUME UNCHANGED Promise!vars PROVE Kept
  <2>1. /\ issued' = iss /\ user' = u /\ Pending' = p /\ Ahead' = a /\ log' = l /\ told' = t
    BY <1>1, <1>8 DEF Promise!vars
  <2> QED
    BY <2>1, <1>1
<1> HIDE DEF Kept
<1> QED
  BY <1>3, <1>4, <1>5, <1>7, <1>8 DEF Promise!Next

(* LastOf is the last application of a write that was applied.             *)
LEMMA LastOfFacts ==
  ASSUME NEW w, log \in Seq(Write), In(log, w)
  PROVE  /\ Promise!LastOf(w) \in DOMAIN log /\ log[Promise!LastOf(w)] = w
         /\ \A j \in DOMAIN log : log[j] = w => j <= Promise!LastOf(w)
<1> DEFINE S == {i \in DOMAIN log : log[i] = w}
<1>1. DOMAIN log = 1..Len(log) /\ Len(log) \in Nat
  OBVIOUS
<1>2. S \in SUBSET Nat /\ (\A x \in S : x <= Len(log)) /\ (\A x \in S : x >= 1)
  BY <1>1
<1>3. PICK k \in S : TRUE
  BY DEF In
<1>4. PICK m \in {0} \cup S : \A x \in S : x <= m
  <2> HIDE DEF S
  <2> QED
    BY <1>1, <1>2, GreatestNatural
<1>5. m \in S
  BY <1>2, <1>3, <1>4
<1>6. \E i \in DOMAIN log : log[i] = w /\ \A j \in DOMAIN log : log[j] = w => j <= i
  BY <1>4, <1>5
<1> QED
  BY <1>6 DEF Promise!LastOf

(* The consequences of the promise, of a sound history.                    *)
LEMMA OrderFromHistory == WriteInv /\ HistoryInv => PromisedOrder
<1> SUFFICES ASSUME WriteInv, HistoryInv PROVE PromisedOrder
  OBVIOUS
<1>1. /\ log \in Seq(Write) /\ Pending \in [User -> Seq(Write)] /\ Write \subseteq Nat
  BY ShapeOfHistory, LimitAssumption DEF HistoryShape, Write
<1>2. \A w : w \in Promise!Applied <=> In(log, w)
  BY DEF Promise!Applied, Promise!Range, In
<1>3. /\ \A x \in User : \A i \in 1..Len(Pending[x]) : \A j \in 1..i :
           In(log, Pending[x][i]) => In(log, Pending[x][j])
      /\ \A w \in Write : told[w] = "done" => In(log, w)
      /\ \A v, w \in Write :
           v < w /\ told[v] = "done" /\ told[w] = "done" /\ issued[v] = issued[w]
             => After(log, v, w)
  BY DEF HistoryInv, HistorySound, HistoryGood
<1>4. Promise!Write = Write
  BY DEF Promise!Write, Write
<1>5. NothingOvertakes
  <2>1. \A u \in User : DOMAIN Pending[u] = 1..Len(Pending[u])
    BY <1>1
  <2> QED
    BY <2>1, <1>2, <1>3 DEF NothingOvertakes, Promise!NothingOvertakes
<1>6. ToldIsTrue
  BY <1>2, <1>3, <1>4 DEF ToldIsTrue, Promise!ToldIsTrue
<1>7. ASSUME NEW v \in Write, NEW w \in Write,
             v < w, told[v] = "done", told[w] = "done", issued[v] = issued[w]
      PROVE  Promise!LastOf(v) < Promise!LastOf(w)
  <2>1. In(log, v) /\ In(log, w) /\ After(log, v, w)
    BY <1>3, <1>7
  <2>2. PICK f, g : f = Promise!LastOf(v) /\ g = Promise!LastOf(w)
    OBVIOUS
  <2>3. f \in DOMAIN log /\ log[f] = v
    BY <2>1, <2>2, <1>1, LastOfFacts
  <2>4. g \in DOMAIN log /\ \A j \in DOMAIN log : log[j] = w => j <= g
    BY <2>1, <2>2, <1>1, LastOfFacts
  <2>5. PICK i \in DOMAIN log : log[i] = w /\ \A j \in DOMAIN log : log[j] = v => j < i
    BY <2>1 DEF After
  <2>6. f < i /\ i <= g
    BY <2>3, <2>4, <2>5
  <2>7. f \in Nat /\ g \in Nat /\ i \in Nat
    BY <2>3, <2>4, <1>1
  <2> QED
    BY <2>2, <2>6, <2>7
<1>8. NewestWins
  BY <1>4, <1>7 DEF NewestWins, Promise!NewestWins
<1> QED
  BY <1>5, <1>6, <1>8 DEF PromisedOrder

(* Nothing overtakes in the pipeline, what a page is told is true of the   *)
(* server, and of two writes reported done the later one stays, whatever   *)
(* was lost, sent again, refused, or interrupted by a crash or a sign-in.  *)
THEOREM OrderIsKept == Spec => []PromisedOrder
<1>1. Spec => Init /\ [][Next]_vars
  BY DEF Spec
<1>2. WriteInv /\ HistoryInv /\ [Next]_vars => HistoryInv'
  BY PromiseStep, HistoryInvStep
<1> QED
  BY <1>1, <1>2, HistoryInvInit, OrderFromHistory, WriteInvAlways, PTL
=============================================================================
