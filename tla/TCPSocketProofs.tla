----------------------------- MODULE TCPSocketProofs -----------------------------
(***************************************************************************)
(* Proofs about TCPSocket: what arrives at one end is the beginning of     *)
(* what was written at the other, for every CHUNK_SIZE, every capacity of  *)
(* the kernel, every set of errors and either platform; as long as the     *)
(* kernel reports no error that ends the connection, the two ends          *)
(* implement ByteLink; an end that is useful has been told of all it has   *)
(* received, and one that is not has nothing left to receive.              *)
(***************************************************************************)
EXTENDS TCPSocket, SequenceTheorems, TLAPS

Segment == Seq(Nat)
QueueType == [segments : Seq(Segment), offset : Nat]

\* The bytes of s are those from n + 1 on.
RunFrom(s, n) == \A k \in 1..Len(s) : s[k] = n + k

\* A segment of the queue holds consecutive bytes: those behind Before(seg).
Before(seg) == seg[1] - 1
Run(seg) == Len(seg) \in 1..CHUNK_SIZE /\ RunFrom(seg, Before(seg)) /\ Before(seg) \in Nat

\* The queue and the stream behind it hold, in order, the bytes behind the first
\* `sent` of the `total` that were written.
Unsent(queue, stream, total, sent) ==
  LET segs == queue.segments
      last == total - Len(stream)
  IN /\ last \in Nat /\ RunFrom(stream, last)
     /\ segs = <<>> => queue.offset = 0 /\ sent = last
     /\ segs # <<>> => /\ queue.offset < Len(segs[1]) /\ sent = Before(segs[1]) + queue.offset
                       /\ Before(segs[Len(segs)]) + Len(segs[Len(segs)]) = last
     /\ \A i \in 1..Len(segs) : Run(segs[i]) /\ Before(segs[i]) + Len(segs[i]) <= last
     /\ \A i \in 1..(Len(segs) - 1) : Before(segs[i + 1]) = Before(segs[i]) + Len(segs[i])

-----------------------------------------------------------------------------
(* The queue *)

LEMMA ChunkSize == CHUNK_SIZE \in Nat \ {0} /\ CHUNK_SIZE <= SizeMax
BY SMTT(30), TCPSocketAssumption DEF TCPSocketAssumption, SizeMax

\* How many segments Get makes of n bytes, and where each begins.
LEMMA Cuts ==
  ASSUME NEW n \in Nat \ {0}
  PROVE  LET count == (n + CHUNK_SIZE - 1) \div CHUNK_SIZE
         IN /\ count \in Nat \ {0}
            /\ \A i \in 1..count : (i - 1) * CHUNK_SIZE \in 0..(n - 1)
            /\ \A i \in 1..(count - 1) : i * CHUNK_SIZE <= n
            /\ count * CHUNK_SIZE >= n
<1> DEFINE count == (n + CHUNK_SIZE - 1) \div CHUNK_SIZE
<1>1. CHUNK_SIZE \in Nat \ {0}
  BY ChunkSize
<1>2. PICK c \in Nat \ {0} : c = CHUNK_SIZE
  BY <1>1
<1>3. /\ count \in Nat /\ count * c <= n + c - 1 /\ n + c - 1 < count * c + c
  BY <1>2
<1> HIDE DEF count
<1>4. count # 0
  BY <1>2, <1>3
<1>5. ASSUME NEW i \in 1..count PROVE (i - 1) * c \in 0..(n - 1) /\ (i # count => i * c <= n)
  <2>1. (i - 1) * c \in Nat /\ (i - 1) * c = i * c - c
    BY <1>2
  <2>2. (count - i) * c \in Nat /\ (count - i) * c = count * c - i * c
    BY <1>2, <1>3
  <2>3. (i - 1) * c \in 0..(n - 1)
    BY <1>2, <1>3, <2>1, <2>2
  <2>4. ASSUME i # count PROVE i * c <= n
    <3>1. count - i - 1 \in Nat
      BY <1>3, <2>4
    <3>2. (count - i - 1) * c \in Nat /\ (count - i - 1) * c = count * c - i * c - c
      BY <1>2, <1>3, <3>1
    <3>3. QED
      BY <1>2, <1>3, <3>2
  <2>5. QED
    BY <2>3, <2>4
<1>6. count * c >= n
  BY <1>2, <1>3
<1>7. QED
  BY <1>2, <1>3, <1>4, <1>5, <1>6 DEF count

\* The bytes behind the first a, up to the b-th.
LEMMA CutOut ==
  ASSUME NEW bytes \in Seq(Nat), NEW a \in Nat, NEW b \in Nat, a <= b, b <= Len(bytes)
  PROVE  /\ SubSeq(bytes, a + 1, b) \in Seq(Nat) /\ Len(SubSeq(bytes, a + 1, b)) = b - a
         /\ \A k \in 1..(b - a) : SubSeq(bytes, a + 1, b)[k] = bytes[a + k]
<1> DEFINE part == SubSeq(bytes, a + 1, b)
<1>1. part = [k \in 1..((b - (a + 1)) + 1) |-> bytes[((a + 1) + k) - 1]]
  OBVIOUS
<1>2. (b - (a + 1)) + 1 = b - a /\ b - a \in Nat
  OBVIOUS
<1> HIDE DEF part
<1>3. ASSUME NEW k \in 1..(b - a)
      PROVE  ((a + 1) + k) - 1 = a + k /\ a + k \in 1..Len(bytes)
  OBVIOUS
<1>4. part = [k \in 1..(b - a) |-> bytes[a + k]] /\ \A k \in 1..(b - a) : bytes[a + k] \in Nat
  BY <1>1, <1>2, <1>3
<1>5. part \in Seq(Nat) /\ Len(part) = b - a /\ \A k \in 1..(b - a) : part[k] = bytes[a + k]
  BY <1>2, <1>4
<1>6. QED
  BY <1>5 DEF part

\* Get makes segments of the bytes in the stream, one behind the other.
LEMMA ChunksAreRuns ==
  ASSUME NEW bytes \in Seq(Nat), bytes # <<>>, NEW last \in Nat, RunFrom(bytes, last)
  PROVE  LET segs == Chunks(bytes)
         IN /\ segs \in Seq(Segment) /\ segs # <<>>
            /\ Before(segs[1]) = last
            /\ Before(segs[Len(segs)]) + Len(segs[Len(segs)]) = last + Len(bytes)
            /\ \A i \in 1..Len(segs) : /\ Run(segs[i])
                                       /\ Before(segs[i]) + Len(segs[i]) <= last + Len(bytes)
            /\ \A i \in 1..(Len(segs) - 1) :
                 Before(segs[i + 1]) = Before(segs[i]) + Len(segs[i])
<1> DEFINE n == Len(bytes)
           count == (n + CHUNK_SIZE - 1) \div CHUNK_SIZE
           segs == Chunks(bytes)
           from(i) == (i - 1) * CHUNK_SIZE
           to(i) == Lesser(i * CHUNK_SIZE, n)
<1>1. n \in Nat \ {0} /\ CHUNK_SIZE \in Nat \ {0}
  BY ChunkSize
<1>2. /\ count \in Nat \ {0}
      /\ \A i \in 1..count : from(i) \in 0..(n - 1)
      /\ \A i \in 1..(count - 1) : i * CHUNK_SIZE <= n
      /\ count * CHUNK_SIZE >= n
  BY <1>1, Cuts
<1>3. segs = [i \in 1..count |-> SubSeq(bytes, from(i) + 1, to(i))]
  BY DEF Chunks
<1> HIDE DEF count, segs
<1>4. ASSUME NEW i \in 1..count
      PROVE  /\ i * CHUNK_SIZE = from(i) + CHUNK_SIZE
             /\ from(i + 1) = i * CHUNK_SIZE
             /\ to(i) \in (from(i) + 1)..n /\ to(i) - from(i) <= CHUNK_SIZE
             /\ i # count => to(i) = from(i + 1)
             /\ i = count => to(i) = n
  <2>1. from(i) \in 0..(n - 1)
    BY <1>2
  <2>2. i * CHUNK_SIZE = from(i) + CHUNK_SIZE /\ from(i + 1) = i * CHUNK_SIZE
    BY <1>1, <1>2
  <2>3. to(i) = IF i * CHUNK_SIZE <= n THEN i * CHUNK_SIZE ELSE n
    BY DEF Lesser
  <2>4. i # count => i * CHUNK_SIZE <= n
    BY <1>2
  <2>5. i = count => i * CHUNK_SIZE >= n
    BY <1>2
  <2> HIDE DEF from, to
  <2>6. i * CHUNK_SIZE \in Nat
    BY <1>1, <2>1, <2>2
  <2>7. QED
    BY <1>1, <2>1, <2>2, <2>3, <2>4, <2>5, <2>6
<1>5. \A i \in 1..count : from(i) \in 0..(n - 1)
  BY <1>2
<1> HIDE DEF n, from, to
<1>6. ASSUME NEW i \in 1..count
      PROVE  /\ segs[i] \in Segment /\ Len(segs[i]) = to(i) - from(i)
             /\ \A k \in 1..(to(i) - from(i)) : segs[i][k] = last + from(i) + k
  <2>1. segs[i] = SubSeq(bytes, from(i) + 1, to(i))
    BY <1>3
  <2>2. /\ from(i) \in Nat /\ to(i) \in Nat /\ from(i) + 1 <= to(i)
        /\ to(i) <= Len(bytes) /\ Len(bytes) \in Nat
    BY <1>1, <1>4, <1>5 DEF n
  <2>3. \A k \in (from(i) + 1)..to(i) : bytes[k] \in Nat /\ bytes[k] = last + k
    BY <2>2 DEF RunFrom
  <2>4. /\ segs[i] \in Seq(Nat) /\ Len(segs[i]) = to(i) - from(i)
        /\ \A k \in 1..(to(i) - from(i)) : segs[i][k] = bytes[from(i) + k]
    <3>1. PICK a \in Nat, b \in Nat : a = from(i) /\ b = to(i)
      BY <2>2
    <3>2. a <= b /\ b <= Len(bytes) /\ segs[i] = SubSeq(bytes, a + 1, b)
      BY <2>1, <2>2, <3>1
    <3>3. /\ segs[i] \in Seq(Nat) /\ Len(segs[i]) = b - a
          /\ \A k \in 1..(b - a) : segs[i][k] = bytes[a + k]
      BY <3>2, CutOut
    <3>4. QED
      BY <3>1, <3>3
  <2>5. ASSUME NEW k \in 1..(to(i) - from(i)) PROVE segs[i][k] = last + from(i) + k
    <3>1. from(i) + k \in (from(i) + 1)..to(i)
      BY <2>2
    <3>2. bytes[from(i) + k] = last + (from(i) + k)
      BY <2>3, <3>1
    <3>3. segs[i][k] = bytes[from(i) + k]
      BY <2>4
    <3>4. QED
      BY <2>2, <3>2, <3>3
  <2>6. QED
    BY <2>4, <2>5 DEF Segment
<1>7. segs \in Seq(Segment) /\ Len(segs) = count
  BY <1>2, <1>3, <1>6
<1>8. ASSUME NEW i \in 1..count
      PROVE  /\ Before(segs[i]) = last + from(i) /\ Before(segs[i]) \in Nat
             /\ Before(segs[i]) + Len(segs[i]) = last + to(i)
             /\ Run(segs[i])
  <2>1. from(i) \in Nat /\ to(i) \in Nat /\ to(i) - from(i) \in 1..CHUNK_SIZE
    BY SMTT(30), <1>1, <1>4, <1>5 DEF n
  <2>2. 1 \in 1..(to(i) - from(i))
    BY <2>1
  <2>3. segs[i][1] = last + from(i) + 1
    BY <1>6, <2>2
  <2>4. Before(segs[i]) = last + from(i) /\ Before(segs[i]) \in Nat
    BY <2>1, <2>3 DEF Before
  <2>5. RunFrom(segs[i], Before(segs[i]))
    BY <1>6, <2>1, <2>4 DEF RunFrom
  <2>6. Len(segs[i]) = to(i) - from(i)
    BY <1>6
  <2>7. Run(segs[i])
    BY <2>1, <2>4, <2>5, <2>6 DEF Run
  <2>8. QED
    BY <2>1, <2>4, <2>6, <2>7
<1>9. Before(segs[1]) = last
  <2>1. 1 \in 1..count /\ from(1) = 0
    BY <1>1, <1>2 DEF from
  <2>2. QED
    BY <1>8, <2>1
<1>10. Before(segs[count]) + Len(segs[count]) = last + Len(bytes)
  BY SMTT(30), <1>2, <1>4, <1>8 DEF n
<1>11. ASSUME NEW i \in 1..count PROVE Before(segs[i]) + Len(segs[i]) <= last + Len(bytes)
  BY <1>1, <1>4, <1>5, <1>8 DEF n
<1>12. ASSUME NEW i \in 1..(count - 1) PROVE Before(segs[i + 1]) = Before(segs[i]) + Len(segs[i])
  <2>1. i \in 1..count /\ i + 1 \in 1..count /\ i # count
    BY <1>2
  <2>2. QED
    BY <1>4, <1>8, <2>1
<1>13. QED
  BY <1>2, <1>7, <1>8, <1>9, <1>10, <1>11, <1>12 DEF segs

\* An empty queue is filled with all that is in the stream.
LEMMA RefillUnsent ==
  ASSUME NEW queue \in QueueType, NEW stream \in Seq(Nat), NEW total \in Nat, NEW sent \in Nat,
         queue.segments = <<>>, stream # <<>>, Unsent(queue, stream, total, sent)
  PROVE  LET full == [segments |-> Chunks(stream), offset |-> 0]
         IN /\ full \in QueueType /\ full.segments # <<>>
            /\ Unsent(full, <<>>, total, sent)
<1> DEFINE last == total - Len(stream)
           segs == Chunks(stream)
<1>1. last \in Nat /\ RunFrom(stream, last) /\ sent = last /\ Len(stream) \in Nat
      /\ last + Len(stream) = total
  BY DEF Unsent
<1>2. /\ segs \in Seq(Segment) /\ segs # <<>>
      /\ Before(segs[1]) = last
      /\ Before(segs[Len(segs)]) + Len(segs[Len(segs)]) = last + Len(stream)
      /\ \A i \in 1..Len(segs) : /\ Run(segs[i])
                                 /\ Before(segs[i]) + Len(segs[i]) <= last + Len(stream)
      /\ \A i \in 1..(Len(segs) - 1) :
           Before(segs[i + 1]) = Before(segs[i]) + Len(segs[i])
  BY <1>1, ChunksAreRuns
<1> HIDE DEF segs, last
<1>3. 1 \in 1..Len(segs)
  BY <1>2
<1>4. Run(segs[1]) /\ 0 < Len(segs[1])
  BY <1>2, <1>3 DEF Run
<1>5. [segments |-> segs, offset |-> 0] \in QueueType
  BY <1>2 DEF QueueType
<1>6. total - Len(<<>>) = total /\ RunFrom(<<>>, total)
  BY DEF RunFrom
<1>7. Unsent([segments |-> segs, offset |-> 0], <<>>, total, sent)
  BY <1>1, <1>2, <1>4, <1>6 DEF Unsent
<1>8. QED
  BY <1>2, <1>5, <1>7 DEF segs

LEMMA Concatenated ==
  ASSUME NEW s \in Seq(Nat), NEW t \in Seq(Nat), NEW n \in Nat, NEW m \in Nat,
         n = Len(s), m = Len(t)
  PROVE  /\ s \o t \in Seq(Nat) /\ Len(s \o t) = n + m
         /\ \A k \in 1..n : (s \o t)[k] = s[k]
         /\ \A k \in 1..m : (s \o t)[n + k] = t[k]
OBVIOUS

\* The bytes of s and those behind them.
LEMMA RunConcat ==
  ASSUME NEW s \in Seq(Nat), NEW t \in Seq(Nat), NEW n \in Nat,
         RunFrom(s, n), RunFrom(t, n + Len(s))
  PROVE  s \o t \in Seq(Nat) /\ RunFrom(s \o t, n)
<1>1. /\ Len(s) \in Nat /\ Len(t) \in Nat /\ Len(s \o t) = Len(s) + Len(t) /\ s \o t \in Seq(Nat)
      /\ \A k \in 1..(Len(s) + Len(t)) :
           (s \o t)[k] = IF k <= Len(s) THEN s[k] ELSE t[k - Len(s)]
  OBVIOUS
<1>2. ASSUME NEW k \in 1..(Len(s) + Len(t)) PROVE (s \o t)[k] = n + k
  <2>1. CASE k <= Len(s)
    BY <1>1, <2>1 DEF RunFrom
  <2>2. CASE k > Len(s)
    <3>1. k - Len(s) \in 1..Len(t) /\ (n + Len(s)) + (k - Len(s)) = n + k
      BY <1>1, <2>2
    <3>2. t[k - Len(s)] = (n + Len(s)) + (k - Len(s))
      BY <3>1 DEF RunFrom
    <3>3. QED
      BY <1>1, <2>2, <3>1, <3>2
  <2>3. QED
    BY <1>1, <2>1, <2>2
<1>3. QED
  BY <1>1, <1>2 DEF RunFrom

\* What is written goes behind the stream.
LEMMA WriteUnsent ==
  ASSUME NEW queue \in QueueType, NEW stream \in Seq(Nat), NEW total \in Nat, NEW sent \in Nat,
         NEW n \in Nat, Unsent(queue, stream, total, sent)
  PROVE  LET longer == stream \o [k \in 1..n |-> total + k]
         IN longer \in Seq(Nat) /\ Unsent(queue, longer, total + n, sent)
<1> DEFINE more == [k \in 1..n |-> total + k]
           longer == stream \o more
           last == total - Len(stream)
<1>1. last \in Nat /\ RunFrom(stream, last) /\ Len(stream) \in Nat /\ last + Len(stream) = total
  BY DEF Unsent
<1>2. more \in Seq(Nat) /\ Len(more) = n /\ RunFrom(more, total)
  BY DEF RunFrom
<1> HIDE DEF more, last
<1>3. longer \in Seq(Nat) /\ RunFrom(longer, last) /\ Len(longer) = Len(stream) + n
  <2>1. RunFrom(more, last + Len(stream))
    BY <1>1, <1>2
  <2>2. longer \in Seq(Nat) /\ RunFrom(longer, last)
    BY <1>1, <1>2, <2>1, RunConcat
  <2>3. QED
    BY SMTT(30), <1>2, <2>2
<1> HIDE DEF longer
<1>4. (total + n) - Len(longer) = last
  <2>1. last \in Nat /\ Len(stream) \in Nat /\ total = last + Len(stream)
    BY <1>1
  <2>2. Len(longer) = Len(stream) + n
    BY <1>3
  <2>3. QED
    BY <2>1, <2>2
<1>5. Unsent(queue, longer, total + n, sent)
  BY <1>1, <1>3, <1>4 DEF Unsent, last
<1>6. QED
  BY <1>3, <1>5 DEF longer, more

LEMMA Remainder ==
  ASSUME NEW m \in Nat \ {0}, NEW b \in 0..(m - 1)
  PROVE  b % m = b
OBVIOUS

\* An offset inside of a segment is no more than a size_t.
LEMMA NoOverflow ==
  ASSUME NEW b \in Nat, NEW n \in 1..CHUNK_SIZE, b <= n
  PROVE  b % (SizeMax + 1) = b
<1>1. SizeMax \in Nat
  BY DEF SizeMax
<1>2. CHUNK_SIZE \in 1..SizeMax
  BY TCPSocketAssumption DEF TCPSocketAssumption
<1>3. b \in 0..((SizeMax + 1) - 1) /\ SizeMax + 1 \in Nat \ {0}
  BY <1>1, <1>2
<1>4. QED
  BY <1>3, Remainder

\* The next `amount` bytes of the first segment are sent.
LEMMA AdvanceUnsent ==
  ASSUME NEW queue \in QueueType, NEW stream \in Seq(Nat), NEW total \in Nat, NEW sent \in Nat,
         NEW amount \in 1..CHUNK_SIZE, queue.segments # <<>>, Unsent(queue, stream, total, sent),
         queue.offset + amount <= Len(Head(queue.segments))
  PROVE  LET taken == SubSeq(Head(queue.segments), queue.offset + 1, queue.offset + amount)
         IN /\ taken \in Seq(Nat) /\ Len(taken) = amount /\ RunFrom(taken, sent)
            /\ sent + amount <= total
            /\ Advance(queue, amount) \in QueueType
            /\ Unsent(Advance(queue, amount), stream, total, sent + amount)
<1> DEFINE segs == queue.segments
           front == segs[1]
           a == queue.offset
           b == a + amount
           last == total - Len(stream)
<1>1. /\ segs \in Seq(Segment) /\ a \in Nat /\ amount \in Nat \ {0} /\ b \in Nat
      /\ Len(segs) \in Nat \ {0} /\ 1 \in 1..Len(segs) /\ Head(segs) = front
  BY ChunkSize DEF QueueType
<1>2. /\ last \in Nat /\ last <= total /\ RunFrom(stream, last)
      /\ a < Len(front) /\ sent = Before(front) + a
      /\ Before(segs[Len(segs)]) + Len(segs[Len(segs)]) = last
      /\ \A i \in 1..Len(segs) : Run(segs[i]) /\ Before(segs[i]) + Len(segs[i]) <= last
      /\ \A i \in 1..(Len(segs) - 1) : Before(segs[i + 1]) = Before(segs[i]) + Len(segs[i])
  BY <1>1 DEF Unsent
<1>3. /\ front \in Seq(Nat) /\ Len(front) \in 1..CHUNK_SIZE /\ RunFrom(front, Before(front))
      /\ Before(front) \in Nat /\ Before(front) + Len(front) <= last
      /\ Len(front) \in Nat
  BY SMTT(30), <1>1, <1>2 DEF Run, Segment
<1>4. b <= Len(front)
  BY <1>1
<1> HIDE DEF segs, front, b, a
<1>5. /\ SubSeq(front, a + 1, b) \in Seq(Nat) /\ Len(SubSeq(front, a + 1, b)) = amount
      /\ \A k \in 1..amount : SubSeq(front, a + 1, b)[k] = front[a + k]
  <2>1. a \in Nat /\ b \in Nat /\ front \in Seq(Nat) /\ b <= Len(front)
    BY <1>1, <1>3, <1>4
  <2>2. a <= b /\ b - a = amount
    BY <1>1 DEF b
  <2>3. QED
    BY <2>1, <2>2, CutOut
<1>6. RunFrom(SubSeq(front, a + 1, b), sent)
  <2> HIDE DEF last
  <2>1. \A k \in 1..amount : a + k \in 1..Len(front) /\ Before(front) + (a + k) = sent + k
    <3>1. a \in Nat /\ amount \in Nat /\ Len(front) \in Nat /\ Before(front) \in Nat
      BY <1>1, <1>3
    <3>2. a + amount <= Len(front) /\ sent = Before(front) + a
      BY <1>2, <1>4 DEF b
    <3> HIDE DEF Before
    <3>3. QED
      BY <3>1, <3>2
  <2>2. QED
    BY <1>3, <1>5, <2>1 DEF RunFrom
<1>7. sent + amount <= total /\ sent + amount = Before(front) + b
  <2>1. a \in Nat /\ Before(front) \in Nat /\ amount \in Nat /\ Len(front) \in Nat /\ last \in Nat
    BY <1>1, <1>2, <1>3
  <2>2. sent = Before(front) + a /\ b = a + amount /\ b <= Len(front)
    BY <1>2, <1>4 DEF b
  <2>3. Before(front) + Len(front) <= last /\ last <= total
    BY <1>2, <1>3
  <2> HIDE DEF last
  <2>4. QED
    BY <2>1, <2>2, <2>3
<1>8. AddInt(a, amount) = b
  <2>1. b \in Nat /\ b <= Len(front) /\ Len(front) \in 1..CHUNK_SIZE
    BY <1>1, <1>3, <1>4
  <2>2. b % (SizeMax + 1) = b
    BY <2>1, NoOverflow
  <2>3. QED
    BY <2>2 DEF AddInt, b
<1>9. CASE b = Len(front)
  <2> DEFINE rest == Tail(segs)
             advanced == [segments |-> rest, offset |-> 0]
  <2>1. Advance(queue, amount) = advanced
    BY <1>1, <1>8, <1>9 DEF Advance, segs, a
  <2>2. /\ rest \in Seq(Segment) /\ Len(rest) = Len(segs) - 1
        /\ \A i \in 1..(Len(segs) - 1) : rest[i] = segs[i + 1] /\ i + 1 \in 1..Len(segs)
    BY <1>1
  <2> HIDE DEF rest
  <2>3. advanced \in QueueType
    BY <2>2 DEF QueueType
  <2>4. sent + amount = Before(front) + Len(front)
    BY <1>7, <1>9
  <2>5. CASE rest = <<>>
    <3>1. Len(segs) = 1
      BY <1>1, <2>2, <2>5
    <3>2. sent + amount = last
      BY <1>2, <2>4, <3>1 DEF front
    <3>3. QED
      BY <1>2, <1>5, <1>6, <1>7, <2>1, <2>3, <2>5, <3>2 DEF Unsent, b, front, segs, a
  <2>6. CASE rest # <<>>
    <3>1. Len(segs) - 1 \in Nat \ {0} /\ 1 \in 1..(Len(segs) - 1)
      BY <1>1, <2>2, <2>6
    <3>2. /\ Before(rest[1]) = Before(front) + Len(front)
          /\ rest[Len(rest)] = segs[Len(segs)]
      <4>1. Before(segs[1 + 1]) = Before(segs[1]) + Len(segs[1]) /\ rest[1] = segs[1 + 1]
        BY <1>2, <2>2, <3>1
      <4>2. rest[Len(segs) - 1] = segs[(Len(segs) - 1) + 1] /\ (Len(segs) - 1) + 1 = Len(segs)
        BY <1>1, <2>2, <3>1
      <4>3. QED
        BY <2>2, <4>1, <4>2 DEF front
    <3>3. \A i \in 1..Len(rest) : Run(rest[i]) /\ Before(rest[i]) + Len(rest[i]) <= last
      BY <1>2, <2>2
    <3>4. ASSUME NEW i \in 1..(Len(rest) - 1)
          PROVE  Before(rest[i + 1]) = Before(rest[i]) + Len(rest[i])
      <4>1. i + 1 \in 1..(Len(segs) - 1) /\ i \in 1..(Len(segs) - 1)
        BY <2>2, <3>1
      <4>2. QED
        BY <1>2, <2>2, <4>1
    <3>5. 0 < Len(rest[1]) /\ sent + amount = Before(rest[1]) + 0
      <4>1. Run(rest[1])
        BY <2>2, <3>1, <3>3
      <4>2. Before(rest[1]) \in Nat /\ 0 < Len(rest[1])
        BY <4>1 DEF Run
      <4>3. QED
        BY <2>4, <3>2, <4>2
    <3>6. Unsent(advanced, stream, total, sent + amount)
      BY <1>2, <2>6, <3>2, <3>3, <3>4, <3>5 DEF Unsent
    <3>7. QED
      BY <1>5, <1>6, <1>7, <2>1, <2>3, <3>6, <1>1 DEF b, front, segs, a
  <2>7. QED
    BY <2>5, <2>6
<1>10. CASE b # Len(front)
  <2> DEFINE advanced == [queue EXCEPT !.offset = b]
  <2>1. Advance(queue, amount) = advanced
    BY <1>1, <1>8, <1>10 DEF Advance, segs, a
  <2>2. advanced \in QueueType /\ advanced.segments = segs /\ advanced.offset = b
    BY <1>1 DEF QueueType, segs
  <2> HIDE DEF advanced
  <2>3. b < Len(front) /\ sent + amount = Before(front) + b
    BY <1>1, <1>3, <1>4, <1>7, <1>10
  <2>4. Unsent(advanced, stream, total, sent + amount)
    BY <1>1, <1>2, <2>2, <2>3 DEF Unsent, front
  <2>5. QED
    BY <1>1, <1>5, <1>6, <1>7, <2>1, <2>2, <2>4 DEF b, front, segs, a
<1>11. QED
  BY <1>9, <1>10

-----------------------------------------------------------------------------
(* The invariant *)

Busy == {"send", "recv", "fire"}
Errors == {"ok", "ECONNRESET", "ETIMEDOUT", "dead", "EPIPE"}

Types ==
  /\ mySocket \in [Ends -> BOOLEAN]
  /\ pc \in [Ends -> Busy \cup {"idle", "killed"}]
  /\ readData \in [Ends -> BOOLEAN]
  /\ myWriteStream \in [Ends -> Seq(Nat)] /\ myReadStream \in [Ends -> Seq(Nat)]
  /\ myWriteQueue \in [Ends -> QueueType]
  /\ wire \in [Ends -> Seq(Nat)] /\ inbox \in [Ends -> Seq(Nat)]
  /\ written \in [Ends -> Nat] /\ told \in [Ends -> Nat]
  /\ sk \in [Ends -> Errors]
  /\ \A e \in Ends : pc[e] \in Busy => mySocket[e]

\* Nothing ended the connection at e yet.
Alive(e) == mySocket[e] /\ sk[e] = "ok"

\* The bytes that came as far as the kernel of p.
Arrived(p) == Len(myReadStream[p]) + Len(inbox[p])

\* What p has received is what its peer wrote first, and a bogus segment can
\* only be the last.
Received(p, e) ==
  \A k \in 1..Len(myReadStream[p]) :
    \/ myReadStream[p][k] = k /\ k <= written[e]
    \/ /\ myReadStream[p][k] = Garbage /\ k = Len(myReadStream[p])
       /\ Platform[p] = "linux" /\ inbox[p] = <<>> /\ sk[p] = "dead"

\* The next bytes are those in the kernel of p,
Waiting(p, e) ==
  /\ RunFrom(inbox[p], Len(myReadStream[p]))
  /\ inbox[p] # <<>> => Arrived(p) <= written[e]

\* then those on their way,
Coming(p, e) ==
  Alive(p) => /\ RunFrom(wire[e], Arrived(p))
              /\ Arrived(p) + Len(wire[e]) <= written[e]

\* and then those that e has not sent.
Following(p, e) ==
  Alive(p) /\ Alive(e) =>
    Unsent(myWriteQueue[e], myWriteStream[e], written[e], Arrived(p) + Len(wire[e]))

Direction(p, e) == Received(p, e) /\ Waiting(p, e) /\ Coming(p, e) /\ Following(p, e)

InOrder == \A e \in Ends : Direction(Peer(e), e)

IInv == Types /\ InOrder

LEMMA Peers ==
  ASSUME NEW e \in Ends
  PROVE  /\ Peer(e) \in Ends /\ Peer(e) # e /\ Peer(Peer(e)) = e
         /\ \A x \in Ends : x = e \/ x = Peer(e)
BY DEF Ends, Peer

\* A connection does not come back, and an error is reported once.
OnlyEnds(e) == (Alive(e)' => Alive(e)) /\ (sk[e] = "dead" => sk'[e] = "dead")

\* A step that leaves the bytes of a direction where they are, and can only end
\* the connection.
LEMMA Untouched ==
  ASSUME NEW e \in Ends, NEW p \in Ends, Direction(p, e),
         myReadStream'[p] = myReadStream[p], inbox'[p] = inbox[p], wire'[e] = wire[e],
         written'[e] = written[e],
         myWriteStream'[e] = myWriteStream[e], myWriteQueue'[e] = myWriteQueue[e],
         OnlyEnds(p), OnlyEnds(e)
  PROVE  Direction(p, e)'
<1>1. Arrived(p)' = Arrived(p)
  BY DEF Arrived
<1>2. Received(p, e)' /\ Waiting(p, e)'
  BY <1>1 DEF Direction, Received, Waiting, OnlyEnds
<1>3. Coming(p, e)' /\ Following(p, e)'
  BY <1>1 DEF Direction, Coming, Following, OnlyEnds
<1>4. QED
  BY <1>2, <1>3 DEF Direction

\* Get makes at least one segment, whatever the bytes are.
LEMMA ChunksTyped ==
  ASSUME NEW bytes \in Seq(Nat), bytes # <<>>
  PROVE  Chunks(bytes) \in Seq(Segment) /\ Chunks(bytes) # <<>>
<1> DEFINE n == Len(bytes)
           count == (n + CHUNK_SIZE - 1) \div CHUNK_SIZE
           from(i) == (i - 1) * CHUNK_SIZE
           to(i) == Lesser(i * CHUNK_SIZE, n)
<1>1. n \in Nat \ {0} /\ CHUNK_SIZE \in Nat \ {0}
  BY ChunkSize
<1>2. count \in Nat \ {0} /\ \A i \in 1..count : from(i) \in 0..(n - 1)
  BY <1>1, Cuts
<1> HIDE DEF count
<1>3. ASSUME NEW i \in 1..count PROVE SubSeq(bytes, from(i) + 1, to(i)) \in Segment
  <2>1. from(i) \in Nat /\ from(i) < n /\ i * CHUNK_SIZE = from(i) + CHUNK_SIZE
    BY <1>1, <1>2
  <2> HIDE DEF from
  <2>2. to(i) \in Nat /\ from(i) <= to(i) /\ to(i) <= n
    BY <1>1, <2>1 DEF Lesser
  <2>3. PICK a \in Nat, b \in Nat : a = from(i) /\ b = to(i)
    BY <2>1, <2>2
  <2>4. SubSeq(bytes, a + 1, b) \in Seq(Nat)
    BY <2>2, <2>3, CutOut
  <2>5. QED
    BY <2>3, <2>4 DEF Segment
<1>4. Chunks(bytes) = [i \in 1..count |-> SubSeq(bytes, from(i) + 1, to(i))]
  BY DEF Chunks, count
<1> DEFINE piece(i) == SubSeq(bytes, from(i) + 1, to(i))
<1>5. Chunks(bytes) = [i \in 1..count |-> piece(i)] /\ \A i \in 1..count : piece(i) \in Segment
  BY <1>3, <1>4
<1> HIDE DEF piece
<1>6. Chunks(bytes) \in Seq(Segment) /\ Len(Chunks(bytes)) = count
  BY <1>2, <1>5
<1>7. QED
  BY <1>2, <1>6

\* What an iteration of HandleSend works on: a queue that is not empty, and
\* the bytes behind it.
Left(e) == IF myWriteQueue[e].segments # <<>> THEN myWriteStream[e] ELSE <<>>

LEMMA Fetched ==
  ASSUME IInv, NEW e \in Ends, Sending(e)
  PROVE  /\ Queue(e) \in QueueType /\ Queue(e).segments # <<>> /\ Left(e) \in Seq(Nat)
         /\ Fetch(e) => /\ myWriteStream' \in [Ends -> Seq(Nat)]
                        /\ myWriteStream'[e] = Left(e)
                        /\ myWriteStream'[Peer(e)] = myWriteStream[Peer(e)]
         /\ \A sent \in Nat :
              Unsent(myWriteQueue[e], myWriteStream[e], written[e], sent)
                => Unsent(Queue(e), Left(e), written[e], sent)
<1>1. /\ myWriteQueue[e] \in QueueType /\ myWriteStream[e] \in Seq(Nat) /\ written[e] \in Nat
      /\ myWriteStream \in [Ends -> Seq(Nat)] /\ <<>> \in Seq(Nat)
  BY DEF IInv, Types
<1>2. Peer(e) \in Ends /\ Peer(e) # e
  BY Peers
<1>3. CASE myWriteQueue[e].segments # <<>>
  BY <1>1, <1>2, <1>3 DEF Queue, Left, Fetch
<1>4. CASE myWriteQueue[e].segments = <<>>
  <2>1. myWriteStream[e] # <<>> /\ Left(e) = <<>>
    BY <1>4 DEF Sending, Left
  <2>2. Queue(e) = [segments |-> Chunks(myWriteStream[e]), offset |-> 0]
    BY <1>4 DEF Queue
  <2>3. Queue(e) \in QueueType /\ Queue(e).segments # <<>>
    <3>1. Chunks(myWriteStream[e]) \in Seq(Segment) /\ Chunks(myWriteStream[e]) # <<>>
      BY <1>1, <2>1, ChunksTyped
    <3>2. QED
      BY <2>2, <3>1 DEF QueueType
  <2>4. Fetch(e) => /\ myWriteStream' \in [Ends -> Seq(Nat)]
                    /\ myWriteStream'[e] = Left(e)
                    /\ myWriteStream'[Peer(e)] = myWriteStream[Peer(e)]
    BY <1>1, <1>2, <1>4, <2>1 DEF Fetch
  <2>5. ASSUME NEW sent \in Nat, Unsent(myWriteQueue[e], myWriteStream[e], written[e], sent)
        PROVE  Unsent(Queue(e), Left(e), written[e], sent)
    BY <1>1, <1>4, <2>1, <2>2, <2>5, RefillUnsent
  <2>6. QED
    BY <1>1, <2>1, <2>3, <2>4, <2>5
<1>5. QED
  BY <1>3, <1>4

\* At first there is nothing to send.
LEMMA NothingUnsent ==
  ASSUME NEW queue \in QueueType, NEW stream \in Seq(Nat),
         queue.segments = <<>>, queue.offset = 0,
         NEW n \in Nat, Len(stream) = n, n = 0
  PROVE  Unsent(queue, stream, n, n)
<1>1. Len(queue.segments) = 0 /\ queue.segments \in Seq(Segment)
  BY DEF QueueType
<1>2. n - Len(stream) = n /\ RunFrom(stream, n)
  BY DEF RunFrom
<1>3. QED
  BY <1>1, <1>2 DEF Unsent

LEMMA Begins == Init => IInv
<1> SUFFICES ASSUME Init PROVE IInv
  OBVIOUS
<1>1. Types
  BY DEF Init, Types, NoQueue, QueueType, Segment, Busy, Errors
<1>2. ASSUME NEW e \in Ends PROVE Direction(Peer(e), e)
  <2>1. /\ myReadStream[Peer(e)] = <<>> /\ inbox[Peer(e)] = <<>> /\ wire[e] = <<>>
        /\ myWriteStream[e] = <<>> /\ myWriteQueue[e] = NoQueue /\ written[e] = 0
    BY Peers DEF Init
  <2>2. Received(Peer(e), e) /\ Waiting(Peer(e), e)
    BY <2>1 DEF Received, Waiting, RunFrom
  <2>3. Arrived(Peer(e)) = 0 /\ Arrived(Peer(e)) + Len(wire[e]) = 0
    BY <2>1 DEF Arrived
  <2>4. Coming(Peer(e), e)
    BY <2>1, <2>3 DEF Coming, RunFrom
  <2>5. Unsent(NoQueue, <<>>, 0, 0)
    <3>1. /\ NoQueue \in QueueType /\ NoQueue.segments = <<>> /\ NoQueue.offset = 0
         /\ <<>> \in Seq(Nat) /\ Len(<<>>) = 0
      BY DEF NoQueue, QueueType
    <3>2. QED
      BY <3>1, NothingUnsent
  <2>6. Following(Peer(e), e)
    BY <2>1, <2>3, <2>5 DEF Following
  <2>7. QED
    BY <2>2, <2>4, <2>6 DEF Direction
<1>3. QED
  BY <1>1, <1>2 DEF IInv, InOrder

-----------------------------------------------------------------------------
(* The steps *)

\* It is enough to look at both directions: from x, and to x.
LEMMA BothDirections ==
  ASSUME NEW x \in Ends, Direction(Peer(x), x)', Direction(x, Peer(x))'
  PROVE  InOrder'
<1>1. ASSUME NEW e \in Ends PROVE Direction(Peer(e), e)'
  <2>1. e = x \/ (e = Peer(x) /\ Peer(e) = x)
    BY Peers
  <2>2. QED
    BY <2>1
<1>2. QED
  BY <1>1 DEF InOrder

LEMMA DirectionsHold ==
  ASSUME IInv, NEW x \in Ends
  PROVE  /\ Peer(x) \in Ends /\ Peer(x) # x
         /\ Direction(Peer(x), x) /\ Direction(x, Peer(x))
<1>1. Peer(x) \in Ends /\ Peer(x) # x /\ Peer(Peer(x)) = x
  BY Peers
<1>2. QED
  BY <1>1 DEF IInv, InOrder

\* What moves no byte.
LEMMA Quiet ==
  ASSUME IInv, Types',
         UNCHANGED <<myReadStream, inbox, wire, written, myWriteStream, myWriteQueue>>,
         \A e \in Ends : OnlyEnds(e)
  PROVE  IInv'
<1>1. ASSUME NEW e \in Ends PROVE Direction(Peer(e), e)'
  <2>1. Peer(e) \in Ends /\ Direction(Peer(e), e)
    BY DirectionsHold
  <2>2. QED
    BY <2>1, Untouched
<1>2. QED
  BY <1>1 DEF IInv, InOrder

LEMMA UpdateKeeps == ASSUME IInv, NEW x \in Ends, Update(x) PROVE IInv'
<1>1. Types'
  BY DEF IInv, Types, Update, streams, kernel, Busy
<1>2. QED
  BY <1>1, Quiet DEF Update, streams, kernel, Alive, OnlyEnds

LEMMA SendDoneKeeps == ASSUME IInv, NEW x \in Ends, SendDone(x) PROVE IInv'
<1>1. Types'
  BY DEF IInv, Types, SendDone, streams, kernel, Busy
<1>2. QED
  BY <1>1, Quiet DEF SendDone, streams, kernel, Alive, OnlyEnds

LEMMA RecvFailsKeeps == ASSUME IInv, NEW x \in Ends, RecvFails(x) PROVE IInv'
<1>1. Types'
  BY DEF IInv, Types, RecvFails, Return, streams, kernel, Busy
<1>2. QED
  BY <1>1, Quiet DEF RecvFails, streams, kernel, Alive, OnlyEnds

LEMMA RecvAgainKeeps == ASSUME IInv, NEW x \in Ends, RecvAgain(x) PROVE IInv'
<1>1. Types'
  BY ZenonT(40) DEF IInv, Types, RecvAgain, Return, streams, kernel, Busy
<1>2. QED
  BY <1>1, Quiet DEF RecvAgain, streams, kernel, Alive, OnlyEnds

LEMMA RecvBrokenKeeps == ASSUME IInv, NEW x \in Ends, RecvBroken(x) PROVE IInv'
<1>1. Types'
  BY DEF IInv, Types, RecvBroken, Return, streams, Busy, Errors
<1>2. \A e \in Ends : OnlyEnds(e)
  BY DEF IInv, Types, RecvBroken, Alive, OnlyEnds
<1>3. QED
  BY <1>1, <1>2, Quiet DEF RecvBroken, streams

LEMMA DeliverFinKeeps == ASSUME IInv, NEW x \in Ends, DeliverFin(x) PROVE IInv'
<1>1. Types'
  BY DEF IInv, Types, DeliverFin, streams
<1>2. QED
  BY <1>1, Quiet DEF DeliverFin, streams, kernel, Alive, OnlyEnds

LEMMA Counted ==
  ASSUME Types, NEW p \in Ends, NEW e \in Ends
  PROVE  /\ Len(myReadStream[p]) \in Nat /\ Len(inbox[p]) \in Nat /\ Len(wire[e]) \in Nat
         /\ Arrived(p) \in Nat /\ Arrived(p) + Len(wire[e]) \in Nat
<1>1. myReadStream[p] \in Seq(Nat) /\ inbox[p] \in Seq(Nat) /\ wire[e] \in Seq(Nat)
  BY DEF Types
<1>2. Len(myReadStream[p]) \in Nat /\ Len(inbox[p]) \in Nat /\ Len(wire[e]) \in Nat
  BY <1>1
<1>3. Arrived(p) \in Nat
  <2>1. PICK a \in Nat, b \in Nat : a = Len(myReadStream[p]) /\ b = Len(inbox[p])
    BY <1>2
  <2>2. Arrived(p) = a + b
    BY <2>1 DEF Arrived
  <2>3. QED
    BY <2>2
<1>4. Arrived(p) + Len(wire[e]) \in Nat
  BY <1>2, <1>3
<1>5. QED
  BY <1>2, <1>3, <1>4

\* n bytes are written: at their place behind the others.
LEMMA WrittenKeeps ==
  ASSUME IInv, Types', NEW x \in Ends, NEW n \in Nat, WriteBytes(x, n),
         UNCHANGED <<mySocket, myWriteQueue, myReadStream, wire, inbox, sk>>
  PROVE  IInv'
<1> DEFINE p == Peer(x)
           sent == Arrived(p) + Len(wire[x])
<1>1. p \in Ends /\ p # x /\ Direction(p, x) /\ Direction(x, p)
  BY DirectionsHold
<1>2. /\ written[x] \in Nat /\ written'[x] = written[x] + n /\ written'[p] = written[p]
      /\ myWriteStream'[x] = myWriteStream[x] \o [k \in 1..n |-> written[x] + k]
      /\ myWriteStream'[p] = myWriteStream[p]
      /\ myWriteStream[x] \in Seq(Nat) /\ myWriteQueue[x] \in QueueType
      /\ myReadStream[p] \in Seq(Nat) /\ inbox[p] \in Seq(Nat) /\ wire[x] \in Seq(Nat)
  BY <1>1 DEF IInv, Types, WriteBytes
<1> HIDE DEF p
<1>3. /\ Arrived(p)' = Arrived(p) /\ Alive(p)' = Alive(p) /\ Alive(x)' = Alive(x)
      /\ sent \in Nat /\ Arrived(p) \in Nat
  <2>1. Arrived(p)' = Arrived(p) /\ Alive(p)' = Alive(p) /\ Alive(x)' = Alive(x)
    BY DEF Arrived, Alive
  <2>2. QED
    BY <1>1, <2>1, Counted DEF IInv
<1>4. Received(p, x)'
  <2>1. /\ myReadStream'[p] = myReadStream[p] /\ inbox'[p] = inbox[p]
        /\ Len(myReadStream[p]) \in Nat
    BY <1>1, Counted DEF IInv
  <2>2. Received(p, x)
    BY <1>1 DEF Direction
  <2>3. ASSUME NEW k \in Nat PROVE k <= written[x] => k <= written'[x]
    BY <1>2
  <2>4. QED
    BY <1>3, <2>1, <2>2, <2>3 DEF Received
<1>5. Waiting(p, x)' /\ Coming(p, x)'
  <2>1. Waiting(p, x)'
    BY <1>1, <1>2, <1>3 DEF Direction, Waiting
  <2>2. Coming(p, x)'
    BY <1>1, <1>2, <1>3 DEF Direction, Coming
  <2>3. QED
    BY <2>1, <2>2
<1>6. Following(p, x)'
  <2>1. SUFFICES ASSUME Alive(p)', Alive(x)'
        PROVE  Unsent(myWriteQueue[x], myWriteStream'[x], written'[x], sent)
    BY <1>3 DEF Following
  <2>2. Unsent(myWriteQueue[x], myWriteStream[x], written[x], sent)
    BY <1>1, <1>3, <2>1 DEF Direction, Following
  <2>3. QED
    BY <1>2, <1>3, <2>2, WriteUnsent
<1>7. Direction(p, x)'
  BY <1>4, <1>5, <1>6 DEF Direction
<1>8. Direction(x, p)'
  <2>1. /\ myReadStream'[x] = myReadStream[x] /\ inbox'[x] = inbox[x] /\ wire'[p] = wire[p]
        /\ myWriteQueue'[p] = myWriteQueue[p] /\ OnlyEnds(x) /\ OnlyEnds(p)
    BY <1>3 DEF OnlyEnds
  <2>2. QED
    BY <1>1, <1>2, <1>3, <2>1, Untouched
<1>9. QED
  BY <1>7, <1>8, BothDirections DEF IInv, p

\* The longer stream is a stream, and its length a number.
LEMMA WriteTyped ==
  ASSUME Types, NEW x \in Ends, NEW n \in Nat, WriteBytes(x, n)
  PROVE  myWriteStream' \in [Ends -> Seq(Nat)] /\ written' \in [Ends -> Nat]
<1>1. written[x] \in Nat /\ myWriteStream[x] \in Seq(Nat)
  BY DEF Types
<1>2. [k \in 1..n |-> written[x] + k] \in Seq(Nat)
  BY <1>1
<1>3. QED
  BY <1>1, <1>2 DEF Types, WriteBytes

LEMMA WriteKeeps == ASSUME IInv, NEW x \in Ends, NEW n \in Nat, Write(x, n) PROVE IInv'
<1>1. myWriteStream' \in [Ends -> Seq(Nat)] /\ written' \in [Ends -> Nat]
  BY WriteTyped DEF IInv, Write
<1>2. Types'
  BY <1>1 DEF IInv, Types, Write, kernel
<1>3. QED
  BY <1>2, WrittenKeeps DEF Write, kernel

LEMMA FireKeeps == ASSUME IInv, NEW x \in Ends, NEW n \in Nat, Fire(x, n) PROVE IInv'
<1>1. myWriteStream' \in [Ends -> Seq(Nat)] /\ written' \in [Ends -> Nat]
  BY WriteTyped DEF IInv, Fire
<1>2. told' \in [Ends -> Nat]
  BY DEF IInv, Types, Fire
<1>3. Types'
  BY <1>1, <1>2 DEF IInv, Types, Fire, Return, kernel, Busy
<1>4. QED
  BY <1>3, WrittenKeeps DEF Fire, kernel

\* A socket is closed: nothing is received by it any more, and nothing sent.
LEMMA ClosedKeeps ==
  ASSUME IInv, Types', NEW x \in Ends, CloseSocket(x),
         UNCHANGED <<written, myReadStream, myWriteStream, myWriteQueue>>
  PROVE  IInv'
<1> DEFINE p == Peer(x)
<1>1. p \in Ends /\ p # x /\ Direction(p, x) /\ Direction(x, p)
  BY DirectionsHold
<1>2. /\ mySocket'[x] = FALSE /\ mySocket'[p] = mySocket[p]
      /\ inbox'[x] = <<>> /\ inbox'[p] = inbox[p]
      /\ wire'[x] = wire[x] \/ (wire'[x] = <<>> /\ sk'[p] # "ok")
      /\ wire'[p] = wire[p]
      /\ sk'[p] = "ok" => sk[p] = "ok"
      /\ sk[p] = "dead" => sk'[p] = "dead"
      /\ sk[x] = "dead" => sk'[x] = "dead"
  <2>1. /\ mySocket \in [Ends -> BOOLEAN] /\ inbox \in [Ends -> Seq(Nat)]
        /\ wire \in [Ends -> Seq(Nat)] /\ sk \in [Ends -> Errors]
    BY DEF IInv, Types
  <2>2. /\ mySocket'[x] = FALSE /\ mySocket'[p] = mySocket[p]
        /\ inbox'[x] = <<>> /\ inbox'[p] = inbox[p]
    BY <1>1, <2>1 DEF CloseSocket
  <2>3. \/ wire' = wire /\ sk' = sk
        \/ /\ wire' = [wire EXCEPT ![x] = <<>>]
           /\ sk' = [sk EXCEPT ![p] = IF @ = "ok" THEN "ECONNRESET" ELSE @]
    BY DEF CloseSocket
  <2>4. \/ wire' = wire /\ sk' = sk
        \/ /\ wire'[x] = <<>> /\ wire'[p] = wire[p] /\ sk'[p] # "ok" /\ sk'[x] = sk[x]
           /\ sk[p] = "dead" => sk'[p] = "dead"
    BY <1>1, <2>1, <2>3
  <2>5. QED
    BY <2>2, <2>4
<1> HIDE DEF p
<1>3. ~Alive(x)' /\ (Alive(p)' => Alive(p) /\ wire'[x] = wire[x]) /\ Arrived(p)' = Arrived(p)
  BY <1>2 DEF Alive, Arrived
<1>4. Direction(p, x)'
  <2>1. Received(p, x)' /\ Waiting(p, x)'
    BY <1>1, <1>2, <1>3 DEF Direction, Received, Waiting
  <2>2. Coming(p, x)' /\ Following(p, x)'
    BY <1>1, <1>3 DEF Direction, Coming, Following
  <2>3. QED
    BY <2>1, <2>2 DEF Direction
<1>5. Direction(x, p)'
  <2>1. Received(x, p)'
    BY <1>1, <1>2, <1>3 DEF Direction, Received
  <2>2. Waiting(x, p)'
    BY <1>2 DEF Waiting, RunFrom
  <2>3. Coming(x, p)' /\ Following(x, p)'
    BY <1>3 DEF Coming, Following
  <2>4. QED
    BY <2>1, <2>2, <2>3 DEF Direction
<1>6. QED
  BY <1>4, <1>5, BothDirections DEF IInv, p

LEMMA CloseTyped ==
  ASSUME Types, NEW x \in Ends, CloseSocket(x)
  PROVE  /\ mySocket' \in [Ends -> BOOLEAN] /\ mySocket'[x] = FALSE
         /\ mySocket'[Peer(x)] = mySocket[Peer(x)]
         /\ inbox' \in [Ends -> Seq(Nat)] /\ wire' \in [Ends -> Seq(Nat)]
         /\ sk' \in [Ends -> Errors]
<1>1. <<>> \in Seq(Nat) /\ Peer(x) \in Ends /\ Peer(x) # x
  BY Peers
<1>2. QED
  BY <1>1 DEF Types, CloseSocket, Errors

LEMMA CloseKeeps == ASSUME IInv, NEW x \in Ends, Close(x) PROVE IInv'
<1>1. pc[x] = "idle" /\ CloseSocket(x) /\ UNCHANGED <<streams, readData, pc, told, written>>
  BY DEF Close
<1>2. \A e \in Ends : e = x \/ e = Peer(x)
  BY Peers
<1>3. Types'
  BY <1>1, <1>2, CloseTyped DEF IInv, Types, streams, Busy
<1>4. QED
  BY <1>1, <1>3, ClosedKeeps DEF streams

LEMMA SendKilledKeeps == ASSUME IInv, NEW x \in Ends, SendKilled(x) PROVE IInv'
<1>1. /\ pc' = [pc EXCEPT ![x] = "killed"] /\ CloseSocket(x)
      /\ UNCHANGED <<streams, readData, told, written>>
  BY DEF SendKilled
<1>2. \A e \in Ends : e = x \/ e = Peer(x)
  BY Peers
<1>3. Types'
  BY <1>1, <1>2, CloseTyped DEF IInv, Types, streams, Busy
<1>4. QED
  BY <1>1, <1>3, ClosedKeeps DEF streams

LEMMA FireAndCloseKeeps == ASSUME IInv, NEW x \in Ends, FireAndClose(x) PROVE IInv'
<1>1. /\ pc' = [pc EXCEPT ![x] = "idle"] /\ CloseSocket(x)
      /\ told' = [told EXCEPT ![x] = Len(myReadStream[x])]
      /\ UNCHANGED <<streams, readData, written>>
  BY DEF FireAndClose, Return
<1>2. \A e \in Ends : e = x \/ e = Peer(x)
  BY Peers
<1>3. told' \in [Ends -> Nat]
  BY <1>1 DEF IInv, Types
<1>4. Types'
  BY <1>1, <1>2, <1>3, CloseTyped DEF IInv, Types, streams, Busy
<1>5. QED
  BY <1>1, <1>4, ClosedKeeps DEF streams

\* The peer does not answer: what is on its way is lost, and nothing is sent.
LEMMA TimeOutKeeps == ASSUME IInv, NEW x \in Ends, TimeOut(x) PROVE IInv'
<1> DEFINE p == Peer(x)
<1>1. p \in Ends /\ p # x /\ Direction(p, x) /\ Direction(x, p)
  BY DirectionsHold
<1>2. Types'
  <2>1. <<>> \in Seq(Nat)
    OBVIOUS
  <2>2. QED
    BY <2>1 DEF IInv, Types, TimeOut, streams, Errors
<1>3. /\ wire'[x] = <<>> /\ wire'[p] = wire[p] /\ sk'[x] # "ok" /\ sk'[p] = sk[p]
      /\ sk[x] = "ok"
      /\ UNCHANGED <<mySocket, myReadStream, inbox, written, myWriteStream, myWriteQueue>>
  BY <1>1 DEF IInv, Types, TimeOut, streams
<1> HIDE DEF p
<1>4. ~Alive(x)' /\ (Alive(p)' <=> Alive(p)) /\ Arrived(p)' = Arrived(p)
  BY <1>3 DEF Alive, Arrived
<1>5. Direction(p, x)'
  <2>1. Received(p, x)' /\ Waiting(p, x)'
    BY <1>1, <1>3, <1>4 DEF Direction, Received, Waiting
  <2>2. Coming(p, x)'
    <3>1. PICK a \in Nat, b \in Nat : a = Arrived(p) /\ b = Len(wire[x])
      BY <1>1, Counted DEF IInv
    <3>2. Alive(p) => a + b <= written[x] /\ written[x] \in Nat
      BY <1>1, <3>1 DEF IInv, Types, Direction, Coming
    <3>3. Alive(p) => a + 0 <= written[x]
      BY <3>2
    <3>4. Len(wire'[x]) = 0
      BY <1>3
    <3>5. QED
      BY <1>3, <1>4, <3>1, <3>3, <3>4 DEF Coming, RunFrom
  <2>3. Following(p, x)'
    BY <1>4 DEF Following
  <2>4. QED
    BY <2>1, <2>2, <2>3 DEF Direction
<1>6. Direction(x, p)'
  <2>1. OnlyEnds(x) /\ OnlyEnds(p)
    BY <1>3, <1>4 DEF OnlyEnds
  <2>2. QED
    BY <1>1, <1>3, <2>1, Untouched
<1>7. QED
  BY <1>2, <1>5, <1>6, BothDirections DEF IInv, p

\* recv's -1: a bogus segment at the end, and nothing is received after it.
LEMMA RecvUnlistedKeeps == ASSUME IInv, NEW x \in Ends, RecvUnlisted(x) PROVE IInv'
<1> DEFINE p == Peer(x)
           garbage == <<Garbage>>
<1>1. p \in Ends /\ p # x /\ Direction(p, x) /\ Direction(x, p)
  BY DirectionsHold
<1>2. /\ myReadStream' = [myReadStream EXCEPT ![x] = @ \o garbage]
      /\ sk' = [sk EXCEPT ![x] = "dead"] /\ inbox[x] = <<>> /\ sk[x] # "ok" /\ sk[x] # "dead"
      /\ Platform[x] = "linux" /\ readData' = [readData EXCEPT ![x] = TRUE]
      /\ UNCHANGED <<mySocket, myWriteStream, myWriteQueue, pc, told, written, wire, inbox>>
  BY DEF RecvUnlisted, AppendReceived
<1>3. /\ myReadStream \in [Ends -> Seq(Nat)] /\ sk \in [Ends -> Errors]
      /\ garbage \in Seq(Nat) /\ Len(garbage) = 1 /\ garbage[1] = Garbage
  BY DEF IInv, Types, Garbage
<1> HIDE DEF garbage
<1>4. Types'
  <2>1. myReadStream' \in [Ends -> Seq(Nat)] /\ sk' \in [Ends -> Errors]
    BY <1>2, <1>3 DEF Errors
  <2>2. QED
    BY <1>2, <2>1 DEF IInv, Types
<1>5. /\ myReadStream'[x] = myReadStream[x] \o garbage /\ myReadStream'[p] = myReadStream[p]
      /\ sk'[x] = "dead" /\ sk'[p] = sk[p] /\ myReadStream[x] \in Seq(Nat)
  BY <1>1, <1>2, <1>3
<1> HIDE DEF p
<1>6. OnlyEnds(x) /\ OnlyEnds(p) /\ ~Alive(x)'
  BY <1>2, <1>5 DEF OnlyEnds, Alive
<1>7. Direction(p, x)'
  BY <1>1, <1>2, <1>5, <1>6, Untouched
<1>8. Direction(x, p)'
  <2>1. PICK n \in Nat : n = Len(myReadStream[x])
    BY <1>5
  <2>2. \A k \in 1..n : myReadStream[x][k] = k /\ k <= written[p]
    BY <1>1, <1>2, <2>1 DEF Direction, Received
  <2>3. /\ Len(myReadStream'[x]) = n + 1 /\ myReadStream'[x][n + 1] = Garbage
        /\ \A k \in 1..n : myReadStream'[x][k] = myReadStream[x][k]
    <3>1. PICK m \in Nat : m = 1
      OBVIOUS
    <3>2. /\ m = Len(garbage) /\ 1 \in 1..m /\ n = Len(myReadStream[x])
          /\ garbage \in Seq(Nat) /\ myReadStream[x] \in Seq(Nat)
      BY <1>3, <1>5, <2>1, <3>1
    <3>3. /\ Len(myReadStream[x] \o garbage) = n + m
          /\ \A k \in 1..n : (myReadStream[x] \o garbage)[k] = myReadStream[x][k]
          /\ \A k \in 1..m : (myReadStream[x] \o garbage)[n + k] = garbage[k]
      BY <3>2, Concatenated
    <3>4. QED
      BY <1>3, <1>5, <3>1, <3>2, <3>3
  <2>4. Received(x, p)'
    <3>1. ASSUME NEW k \in 1..(n + 1)
          PROVE  \/ myReadStream'[x][k] = k /\ k <= written'[p]
                 \/ myReadStream'[x][k] = Garbage /\ k = n + 1
      <4>1. k \in 1..n \/ k = n + 1
        OBVIOUS
      <4>2. QED
        BY <1>2, <2>2, <2>3, <4>1
    <3>2. QED
      BY <1>2, <1>5, <2>3, <3>1 DEF Received
  <2>5. Waiting(x, p)'
    BY <1>2 DEF Waiting, RunFrom
  <2>6. Coming(x, p)' /\ Following(x, p)'
    BY <1>6 DEF Coming, Following
  <2>7. QED
    BY <2>4, <2>5, <2>6 DEF Direction
<1>9. QED
  BY <1>4, <1>7, <1>8, BothDirections DEF IInv, p

\* s is n bytes.
Bytes(s, n) == s \in Seq(Nat) /\ Len(s) = n

\* The bytes from the a + 1-st to the b-th.
LEMMA Part ==
  ASSUME NEW s, NEW n \in Nat, Bytes(s, n), NEW a \in Nat, NEW b \in Nat, a <= b, b <= n
  PROVE  /\ Bytes(SubSeq(s, a + 1, b), b - a)
         /\ \A k \in 1..(b - a) : SubSeq(s, a + 1, b)[k] = s[a + k]
BY CutOut DEF Bytes

Join(s, t) == s \o t

LEMMA Joined ==
  ASSUME NEW s, NEW t, NEW n \in Nat, NEW m \in Nat, Bytes(s, n), Bytes(t, m)
  PROVE  /\ Bytes(Join(s, t), n + m)
         /\ \A k \in 1..n : Join(s, t)[k] = s[k]
         /\ \A k \in 1..m : Join(s, t)[n + k] = t[k]
<1>1. s \in Seq(Nat) /\ t \in Seq(Nat) /\ n = Len(s) /\ m = Len(t)
  BY DEF Bytes
<1>2. /\ s \o t \in Seq(Nat) /\ Len(s \o t) = n + m
      /\ \A k \in 1..n : (s \o t)[k] = s[k]
      /\ \A k \in 1..m : (s \o t)[n + k] = t[k]
  BY <1>1, Concatenated
<1>3. QED
  BY <1>2 DEF Bytes, Join

\* The first a bytes of t go behind s.
LEMMA Moved ==
  ASSUME NEW s, NEW t, NEW n \in Nat, NEW m \in Nat, Bytes(s, n), Bytes(t, m),
         NEW a \in 1..m, RunFrom(t, n), RunFrom(s, 0)
  PROVE  /\ Bytes(Join(s, SubSeq(t, 1, a)), n + a) /\ RunFrom(Join(s, SubSeq(t, 1, a)), 0)
         /\ Bytes(SubSeq(t, a + 1, m), m - a) /\ RunFrom(SubSeq(t, a + 1, m), n + a)
<1> DEFINE part == SubSeq(t, 1, a)
           rest == SubSeq(t, a + 1, m)
<1>1. Bytes(part, a) /\ \A k \in 1..a : part[k] = t[k]
  <2>1. PICK z \in Nat : z = 0
    OBVIOUS
  <2>2. /\ Bytes(SubSeq(t, z + 1, a), a - z)
        /\ \A k \in 1..(a - z) : SubSeq(t, z + 1, a)[k] = t[z + k]
    BY <2>1, Part
  <2>3. a - z = a /\ z + 1 = 1 /\ \A k \in 1..a : z + k = k
    BY <2>1
  <2>4. QED
    BY <2>2, <2>3
<1>2. Bytes(rest, m - a) /\ \A k \in 1..(m - a) : rest[k] = t[a + k]
  BY Part
<1> HIDE DEF part, rest
<1>3. \A k \in 1..m : t[k] = n + k
  BY DEF RunFrom, Bytes
<1>4. \A k \in 1..n : s[k] = k
  BY DEF RunFrom, Bytes
<1>5. RunFrom(rest, n + a)
  <2>1. ASSUME NEW k \in 1..(m - a) PROVE rest[k] = (n + a) + k
    <3>1. a + k \in 1..m /\ n + (a + k) = (n + a) + k
      OBVIOUS
    <3>2. QED
      BY <1>2, <1>3, <3>1
  <2>2. QED
    BY <1>2, <2>1 DEF RunFrom, Bytes
<1>6. /\ Bytes(Join(s, part), n + a)
      /\ \A k \in 1..n : Join(s, part)[k] = s[k]
      /\ \A k \in 1..a : Join(s, part)[n + k] = part[k]
  BY <1>1, Joined
<1>7. ASSUME NEW k \in 1..(n + a) PROVE Join(s, part)[k] = 0 + k
  <2>1. CASE k \in 1..n
    BY <1>4, <1>6, <2>1
  <2>2. CASE ~(k \in 1..n)
    <3>1. PICK j \in 1..a : n + j = k /\ j \in 1..m
      <4>1. k - n \in 1..a /\ k - n \in 1..m /\ n + (k - n) = k
        BY <2>2
      <4>2. QED
        BY <4>1
    <3>2. Join(s, part)[n + j] = part[j] /\ part[j] = t[j] /\ t[j] = n + j
      BY <1>1, <1>3, <1>6, <3>1
    <3>3. QED
      BY <3>1, <3>2
  <2>3. QED
    BY <2>1, <2>2
<1>8. RunFrom(Join(s, part), 0)
  BY <1>6, <1>7 DEF RunFrom, Bytes
<1>9. QED
  BY <1>2, <1>5, <1>6, <1>8 DEF part, rest

LEMMA RecvSomeKeeps == ASSUME IInv, NEW x \in Ends, RecvSome(x) PROVE IInv'
<1> DEFINE p == Peer(x)
           amount == Lesser(CHUNK_SIZE, Len(inbox[x]))
           part == SubSeq(inbox[x], 1, amount)
           rest == SubSeq(inbox[x], amount + 1, Len(inbox[x]))
<1>1. p \in Ends /\ p # x /\ Direction(p, x) /\ Direction(x, p)
  BY DirectionsHold
<1>2. PICK n \in Nat, m \in Nat : /\ n = Len(myReadStream[x]) /\ m = Len(inbox[x])
                                  /\ Arrived(x) = n + m
  BY Counted DEF IInv, Arrived
<1>3. /\ myReadStream' = [myReadStream EXCEPT ![x] = @ \o part]
      /\ inbox' = [inbox EXCEPT ![x] = rest]
      /\ amount > 0 /\ readData' = [readData EXCEPT ![x] = TRUE]
      /\ UNCHANGED <<mySocket, myWriteStream, myWriteQueue, pc, told, written, wire, sk>>
  BY DEF IInv, Types, RecvSome, AppendReceived
<1>4. amount \in 1..m
  <2>1. CHUNK_SIZE \in Nat
    BY ChunkSize
  <2>2. QED
    BY <1>2, <1>3, <2>1 DEF Lesser
<1>5. /\ myReadStream[x] \in Seq(Nat) /\ inbox[x] \in Seq(Nat) /\ written[p] \in Nat
      /\ inbox[x] # <<>>
  BY <1>1, <1>2, <1>4 DEF IInv, Types
<1>6. /\ \A k \in 1..n : myReadStream[x][k] = k /\ k <= written[p]
      /\ RunFrom(inbox[x], n) /\ n + m <= written[p]
  BY <1>1, <1>2, <1>5 DEF Direction, Received, Waiting
<1> HIDE DEF p, amount
<1>7. /\ Bytes(Join(myReadStream[x], part), n + amount) /\ RunFrom(Join(myReadStream[x], part), 0)
      /\ Bytes(rest, m - amount) /\ RunFrom(rest, n + amount)
  <2>1. Bytes(myReadStream[x], n) /\ Bytes(inbox[x], m)
    BY <1>2, <1>5 DEF Bytes
  <2>2. RunFrom(myReadStream[x], 0) /\ RunFrom(inbox[x], n)
    BY <1>2, <1>6 DEF RunFrom
  <2>3. rest = SubSeq(inbox[x], amount + 1, m)
    BY <1>2
  <2>4. QED
    BY <1>4, <2>1, <2>2, <2>3, Moved
<1> HIDE DEF part, rest
<1>8. /\ myReadStream'[x] = Join(myReadStream[x], part) /\ inbox'[x] = rest
      /\ myReadStream'[p] = myReadStream[p] /\ inbox'[p] = inbox[p]
  BY <1>1, <1>3 DEF IInv, Types, Join
<1>9. Types'
  <2>1. myReadStream' \in [Ends -> Seq(Nat)] /\ inbox' \in [Ends -> Seq(Nat)]
    BY <1>3, <1>7 DEF IInv, Types, Bytes, Join
  <2>2. QED
    BY <1>3, <2>1 DEF IInv, Types
<1>10. /\ Alive(x)' = Alive(x) /\ Alive(p)' = Alive(p) /\ OnlyEnds(x) /\ OnlyEnds(p)
       /\ Arrived(x)' = Arrived(x)
  <2>1. (n + amount) + (m - amount) = n + m
    BY <1>4
  <2>2. Arrived(x)' = Arrived(x)
    BY <1>2, <1>7, <1>8, <2>1 DEF Arrived, Bytes
  <2>3. QED
    BY <1>3, <2>2 DEF Alive, OnlyEnds
<1>11. Direction(p, x)'
  BY <1>1, <1>3, <1>8, <1>10, Untouched
<1>12. Direction(x, p)'
  <2>1. Received(x, p)'
    <3>1. ASSUME NEW k \in 1..(n + amount)
          PROVE  myReadStream'[x][k] = k /\ k <= written'[p]
      <4>1. PICK w \in Nat : w = written[p] /\ n + m <= w
        BY <1>5, <1>6
      <4>2. amount \in Nat /\ amount <= m /\ k \in Nat /\ k <= n + amount
        BY <1>4
      <4>3. k <= w
        BY <4>1, <4>2
      <4>4. Join(myReadStream[x], part)[k] = k
        BY <1>7, <4>2 DEF RunFrom, Bytes
      <4>5. written'[p] = w
        BY <1>3, <4>1
      <4>6. QED
        BY <1>8, <4>3, <4>4, <4>5
    <3>2. QED
      BY <1>7, <1>8, <3>1 DEF Received, Bytes
  <2>2. Waiting(x, p)'
    BY <1>2, <1>3, <1>6, <1>7, <1>8, <1>10 DEF Waiting, Bytes
  <2>3. Coming(x, p)' /\ Following(x, p)'
    BY <1>1, <1>3, <1>10 DEF Direction, Coming, Following
  <2>4. QED
    BY <2>1, <2>2, <2>3 DEF Direction
<1>13. QED
  BY <1>9, <1>11, <1>12, BothDirections DEF IInv, p

LEMMA Appended ==
  ASSUME NEW s, NEW n \in Nat, Bytes(s, n), NEW byte \in Nat
  PROVE  /\ Bytes(Append(s, byte), n + 1)
         /\ \A k \in 1..n : Append(s, byte)[k] = s[k]
         /\ Append(s, byte)[n + 1] = byte
BY DEF Bytes

LEMMA Beheaded ==
  ASSUME NEW s, NEW n \in Nat \ {0}, Bytes(s, n)
  PROVE  /\ Bytes(Tail(s), n - 1) /\ Head(s) = s[1] /\ Head(s) \in Nat
         /\ \A k \in 1..(n - 1) : Tail(s)[k] = s[k + 1]
BY DEF Bytes

\* The first byte of w goes behind those of s.
LEMMA Passed ==
  ASSUME NEW s, NEW w, NEW n \in Nat, NEW m \in Nat \ {0}, Bytes(s, n), Bytes(w, m),
         NEW r \in Nat, RunFrom(s, r), RunFrom(w, r + n)
  PROVE  /\ Bytes(Append(s, Head(w)), n + 1) /\ RunFrom(Append(s, Head(w)), r)
         /\ Bytes(Tail(w), m - 1) /\ RunFrom(Tail(w), r + (n + 1))
<1> DEFINE longer == Append(s, Head(w))
           rest == Tail(w)
<1>1. (\A k \in 1..n : s[k] = r + k) /\ (\A k \in 1..m : w[k] = (r + n) + k)
  BY DEF RunFrom, Bytes
<1>2. Bytes(rest, m - 1) /\ Head(w) = w[1] /\ Head(w) \in Nat
      /\ \A k \in 1..(m - 1) : rest[k] = w[k + 1]
  BY Beheaded
<1>3. /\ Bytes(longer, n + 1) /\ \A k \in 1..n : longer[k] = s[k]
      /\ longer[n + 1] = Head(w)
  <2>1. PICK byte \in Nat : byte = Head(w)
    BY <1>2
  <2>2. /\ Bytes(Append(s, byte), n + 1) /\ Append(s, byte)[n + 1] = byte
        /\ \A k \in 1..n : Append(s, byte)[k] = s[k]
    BY ZenonT(40), Appended
  <2>3. QED
    BY <2>1, <2>2
<1> HIDE DEF longer, rest
<1>4. RunFrom(longer, r)
  <2>1. longer[n + 1] = r + (n + 1)
    <3>1. w[1] = (r + n) + 1
      BY <1>1
    <3>2. QED
      BY <1>2, <1>3, <3>1
  <2>2. ASSUME NEW k \in 1..(n + 1) PROVE longer[k] = r + k
    <3>1. k \in 1..n \/ k = n + 1
      OBVIOUS
    <3>2. QED
      BY <1>1, <1>3, <2>1, <3>1
  <2>3. QED
    BY <1>3, <2>2 DEF RunFrom, Bytes
<1>5. RunFrom(rest, r + (n + 1))
  <2>1. ASSUME NEW k \in 1..(m - 1) PROVE rest[k] = (r + (n + 1)) + k
    <3>1. k + 1 \in 1..m /\ (r + n) + (k + 1) = (r + (n + 1)) + k
      OBVIOUS
    <3>2. QED
      BY <1>1, <1>2, <3>1
  <2>2. QED
    BY <1>2, <2>1 DEF RunFrom, Bytes
<1>6. QED
  BY <1>2, <1>3, <1>4, <1>5 DEF longer, rest

LEMMA DeliverKeeps == ASSUME IInv, NEW x \in Ends, Deliver(x) PROVE IInv'
<1> DEFINE p == Peer(x)
           longer == Append(inbox[p], Head(wire[x]))
           rest == Tail(wire[x])
<1>1. p \in Ends /\ p # x /\ Direction(p, x) /\ Direction(x, p)
  BY DirectionsHold
<1>2. /\ wire[x] # <<>> /\ wire' = [wire EXCEPT ![x] = rest]
      /\ \/ Alive(p) /\ inbox' = [inbox EXCEPT ![p] = longer] /\ sk' = sk
         \/ /\ ~Alive(p) /\ inbox' = inbox
            /\ \E error \in {sk[x], "EPIPE", "ECONNRESET"} :
                 sk' = [sk EXCEPT ![x] = error] /\ (sk[x] # "ok" => error = sk[x])
      /\ UNCHANGED <<mySocket, myReadStream, myWriteStream, myWriteQueue, readData, pc, told,
                     written>>
  BY DEF Deliver, Alive, streams
<1>3. PICK r \in Nat, n \in Nat, m \in Nat :
        /\ r = Len(myReadStream[p]) /\ n = Len(inbox[p]) /\ m = Len(wire[x])
        /\ Arrived(p) = r + n
  BY <1>1, Counted DEF IInv, Arrived
<1>4. /\ inbox[p] \in Seq(Nat) /\ wire[x] \in Seq(Nat) /\ written[x] \in Nat
  BY <1>1 DEF IInv, Types
<1>5. m # 0 /\ Bytes(inbox[p], n) /\ Bytes(wire[x], m)
  BY <1>2, <1>3, <1>4 DEF Bytes
<1>6. rest \in Seq(Nat) /\ longer \in Seq(Nat)
  <2>1. Bytes(rest, m - 1) /\ Head(wire[x]) \in Nat
    BY <1>5, Beheaded
  <2>2. Bytes(longer, n + 1)
    BY <1>5, <2>1, Appended
  <2>3. QED
    BY <2>1, <2>2 DEF Bytes
<1> HIDE DEF p, longer, rest
<1>7. Types'
  <2>1. wire' \in [Ends -> Seq(Nat)] /\ inbox' \in [Ends -> Seq(Nat)]
    BY <1>1, <1>2, <1>6 DEF IInv, Types
  <2>2. sk' \in [Ends -> Errors]
    BY <1>2 DEF IInv, Types, Errors
  <2>3. QED
    BY <1>2, <2>1, <2>2 DEF IInv, Types
<1>8. /\ wire'[x] = rest /\ wire'[p] = wire[p] /\ inbox'[x] = inbox[x]
      /\ OnlyEnds(x) /\ OnlyEnds(p) /\ sk'[p] = sk[p]
  <2>1. wire'[x] = rest /\ wire'[p] = wire[p] /\ inbox'[x] = inbox[x] /\ sk'[p] = sk[p]
    BY <1>1, <1>2 DEF IInv, Types
  <2>2. sk[x] # "ok" => sk'[x] = sk[x]
    BY <1>2 DEF IInv, Types
  <2>3. QED
    BY <1>2, <2>1, <2>2 DEF OnlyEnds, Alive
<1>9. Direction(x, p)'
  BY <1>1, <1>2, <1>8, Untouched
<1>10. CASE ~Alive(p)
  <2>1. inbox'[p] = inbox[p] /\ ~Alive(p)' /\ Arrived(p)' = Arrived(p)
    BY <1>2, <1>8, <1>10 DEF OnlyEnds, Arrived
  <2>2. Received(p, x)' /\ Waiting(p, x)'
    BY <1>1, <1>2, <1>8, <2>1 DEF Direction, Received, Waiting
  <2>3. Coming(p, x)' /\ Following(p, x)'
    BY <2>1 DEF Coming, Following
  <2>4. Direction(p, x)'
    BY <2>2, <2>3 DEF Direction
  <2>5. QED
    BY <1>7, <1>9, <2>4, BothDirections DEF IInv, p
<1>11. CASE Alive(p)
  <2>1. inbox'[p] = longer /\ sk' = sk
    BY <1>1, <1>2, <1>11 DEF IInv, Types
  <2>2. RunFrom(inbox[p], r) /\ RunFrom(wire[x], r + n) /\ (r + n) + m <= written[x]
    BY <1>1, <1>3, <1>11 DEF Direction, Waiting, Coming
  <2>3. /\ Bytes(longer, n + 1) /\ RunFrom(longer, r)
        /\ Bytes(rest, m - 1) /\ RunFrom(rest, r + (n + 1))
    BY <1>5, <2>2, Passed DEF longer, rest
  <2>4. Arrived(p)' = r + (n + 1)
    BY <1>2, <1>3, <2>1, <2>3 DEF Arrived, Bytes
  <2>5. (r + (n + 1)) + (m - 1) = (r + n) + m /\ r + (n + 1) <= written[x]
    <3>1. PICK w \in Nat : w = written[x] /\ (r + n) + m <= w
      BY <1>4, <2>2
    <3>2. QED
      BY <1>5, <3>1
  <2>6. Received(p, x)'
    <3>1. sk[p] # "dead"
      BY <1>11 DEF Alive
    <3>2. \A k \in 1..r : myReadStream[p][k] = k /\ k <= written[x]
      BY <1>1, <1>3, <3>1 DEF Direction, Received
    <3>3. QED
      BY <1>2, <1>3, <3>2 DEF Received
  <2>7. Waiting(p, x)'
    BY <1>2, <1>3, <2>1, <2>3, <2>4, <2>5 DEF Waiting
  <2>8. Coming(p, x)'
    <3>1. Len(rest) = m - 1
      BY <2>3 DEF Bytes
    <3>2. QED
      BY <1>2, <1>8, <2>2, <2>3, <2>4, <2>5, <3>1 DEF Coming
  <2>9. Following(p, x)'
    <3>1. Arrived(p)' + Len(wire'[x]) = Arrived(p) + Len(wire[x])
      BY <1>3, <1>8, <2>3, <2>4, <2>5 DEF Bytes
    <3>2. Alive(x)' = Alive(x)
      BY <1>2, <2>1 DEF Alive
    <3>3. QED
      BY <1>1, <1>2, <1>11, <3>1, <3>2 DEF Direction, Following
  <2>10. Direction(p, x)'
    BY <2>6, <2>7, <2>8, <2>9 DEF Direction
  <2>11. QED
    BY <1>7, <1>9, <2>10, BothDirections DEF IInv, p
<1>12. QED
  BY <1>10, <1>11

-----------------------------------------------------------------------------
(* HandleSend *)

\* The iteration fetched what was to be sent and sent nothing of it.
LEMMA NothingSent ==
  ASSUME IInv, Types', NEW x \in Ends, Sending(x), Fetch(x),
         UNCHANGED <<mySocket, myReadStream, inbox, wire, written>>,
         myWriteQueue'[Peer(x)] = myWriteQueue[Peer(x)],
         Alive(x)' => myWriteQueue'[x] = Queue(x),
         sk'[Peer(x)] = sk[Peer(x)], OnlyEnds(x)
  PROVE  IInv'
<1> DEFINE p == Peer(x)
           sent == Arrived(p) + Len(wire[x])
<1>1. p \in Ends /\ p # x /\ Direction(p, x) /\ Direction(x, p)
  BY DirectionsHold
<1>2. myWriteStream'[x] = Left(x) /\ myWriteStream'[p] = myWriteStream[p]
  BY Fetched
<1>3. /\ \A n \in Nat : Unsent(myWriteQueue[x], myWriteStream[x], written[x], n)
                          => Unsent(Queue(x), Left(x), written[x], n)
      /\ sent \in Nat
  <2>1. sent \in Nat
    BY <1>1, Counted DEF IInv
  <2>2. QED
    BY <2>1, Fetched
<1>4. OnlyEnds(p) /\ Alive(p)' = Alive(p)
  BY DEF OnlyEnds, Alive
<1> HIDE DEF p
<1>5. Direction(x, p)'
  <2>1. myWriteQueue'[p] = myWriteQueue[p]
    BY DEF p
  <2>2. QED
    BY <1>1, <1>2, <1>4, <2>1, Untouched
<1>6. Direction(p, x)'
  <2>1. Arrived(p)' = Arrived(p)
    BY DEF Arrived
  <2>2. Received(p, x)' /\ Waiting(p, x)' /\ Coming(p, x)'
    BY <1>1, <1>4, <2>1 DEF Direction, Received, Waiting, Coming, OnlyEnds
  <2>3. Following(p, x)'
    <3>1. SUFFICES ASSUME Alive(p)', Alive(x)'
          PROVE  Unsent(myWriteQueue'[x], myWriteStream'[x], written[x], sent)
      BY <2>1 DEF Following
    <3>2. Unsent(myWriteQueue[x], myWriteStream[x], written[x], sent)
      BY <1>1, <1>4, <3>1 DEF Direction, Following, OnlyEnds
    <3>3. Unsent(Queue(x), Left(x), written[x], sent)
      BY <1>3, <3>2
    <3>4. QED
      BY <1>2, <3>1, <3>3
  <2>4. QED
    BY <2>2, <2>3 DEF Direction
<1>7. QED
  BY <1>5, <1>6, BothDirections DEF IInv, p

LEMMA SendAgainKeeps == ASSUME IInv, NEW x \in Ends, SendAgain(x) PROVE IInv'
<1>1. /\ Sending(x) /\ Fetch(x) /\ myWriteQueue' = [myWriteQueue EXCEPT ![x] = Queue(x)]
      /\ pc' = [pc EXCEPT ![x] = "recv"] /\ pc[x] = "send"
      /\ UNCHANGED <<mySocket, myReadStream, readData, told, written, wire, inbox, sk>>
  BY DEF SendAgain, Sending, kernel
<1>2. /\ Queue(x) \in QueueType /\ myWriteStream' \in [Ends -> Seq(Nat)]
      /\ Peer(x) # x /\ Peer(x) \in Ends
  BY <1>1, Fetched, Peers
<1>3. /\ myWriteQueue' \in [Ends -> QueueType] /\ myWriteQueue'[x] = Queue(x)
      /\ myWriteQueue'[Peer(x)] = myWriteQueue[Peer(x)] /\ OnlyEnds(x)
  BY <1>1, <1>2 DEF IInv, Types, OnlyEnds, Alive
<1>4. Types'
  BY <1>1, <1>2, <1>3 DEF IInv, Types, Busy
<1>5. QED
  BY <1>1, <1>3, <1>4, NothingSent

LEMMA SendFailsKeeps == ASSUME IInv, NEW x \in Ends, SendFails(x) PROVE IInv'
<1>1. /\ Sending(x) /\ Fetch(x) /\ myWriteQueue' = [myWriteQueue EXCEPT ![x] = Queue(x)]
      /\ sk' = [sk EXCEPT ![x] = IF @ = "ok" THEN "ok" ELSE "dead"]
      /\ pc' = [pc EXCEPT ![x] = "idle"]
      /\ UNCHANGED <<mySocket, myReadStream, readData, told, written, wire, inbox>>
  BY DEF SendFails, Return
<1>2. /\ Queue(x) \in QueueType /\ myWriteStream' \in [Ends -> Seq(Nat)]
      /\ Peer(x) # x /\ Peer(x) \in Ends
  BY <1>1, Fetched, Peers
<1>3. /\ myWriteQueue' \in [Ends -> QueueType] /\ myWriteQueue'[x] = Queue(x)
      /\ myWriteQueue'[Peer(x)] = myWriteQueue[Peer(x)]
  BY <1>1, <1>2 DEF IInv, Types
<1>4. sk' \in [Ends -> Errors] /\ sk'[Peer(x)] = sk[Peer(x)] /\ OnlyEnds(x)
  BY <1>1, <1>2 DEF IInv, Types, OnlyEnds, Alive, Errors
<1>5. Types'
  BY <1>1, <1>2, <1>3, <1>4 DEF IInv, Types, Busy
<1>6. QED
  BY <1>1, <1>3, <1>4, <1>5, NothingSent

LEMMA SendTimedOutKeeps == ASSUME IInv, NEW x \in Ends, SendTimedOut(x) PROVE IInv'
<1>1. /\ Sending(x) /\ Fetch(x) /\ myWriteQueue' = [myWriteQueue EXCEPT ![x] = Queue(x)]
      /\ sk' = [sk EXCEPT ![x] = "dead"] /\ pc' = [pc EXCEPT ![x] = "idle"]
      /\ UNCHANGED <<mySocket, myReadStream, readData, told, written, wire, inbox>>
  BY DEF SendTimedOut, Return
<1>2. /\ Queue(x) \in QueueType /\ myWriteStream' \in [Ends -> Seq(Nat)]
      /\ Peer(x) # x /\ Peer(x) \in Ends
  BY <1>1, Fetched, Peers
<1>3. /\ myWriteQueue' \in [Ends -> QueueType] /\ myWriteQueue'[x] = Queue(x)
      /\ myWriteQueue'[Peer(x)] = myWriteQueue[Peer(x)]
  BY <1>1, <1>2 DEF IInv, Types
<1>4. sk' \in [Ends -> Errors] /\ sk'[Peer(x)] = sk[Peer(x)] /\ OnlyEnds(x)
  BY <1>1, <1>2 DEF IInv, Types, OnlyEnds, Alive, Errors
<1>5. Types'
  BY <1>1, <1>2, <1>3, <1>4 DEF IInv, Types, Busy
<1>6. QED
  BY <1>1, <1>3, <1>4, <1>5, NothingSent

\* The offset is wrong from here on, but nothing is sent any more.
LEMMA SendUnlistedKeeps == ASSUME IInv, NEW x \in Ends, SendUnlisted(x) PROVE IInv'
<1>1. /\ Sending(x) /\ Fetch(x)
      /\ myWriteQueue' = [myWriteQueue EXCEPT ![x] = Advance(Queue(x), -1)]
      /\ sk' = [sk EXCEPT ![x] = "dead"] /\ pc' = [pc EXCEPT ![x] = "recv"] /\ pc[x] = "send"
      /\ UNCHANGED <<mySocket, myReadStream, readData, told, written, wire, inbox>>
  BY DEF SendUnlisted, Sending
<1>2. /\ Queue(x) \in QueueType /\ Queue(x).segments # <<>>
      /\ myWriteStream' \in [Ends -> Seq(Nat)] /\ Peer(x) # x /\ Peer(x) \in Ends
  BY <1>1, Fetched, Peers
<1>3. Advance(Queue(x), -1) \in QueueType
  <2>1. PICK queue \in QueueType : queue = Queue(x) /\ queue.segments # <<>>
    BY <1>2
  <2>2. Tail(queue.segments) \in Seq(Segment)
    BY <2>1 DEF QueueType
  <2>3. AddInt(queue.offset, -1) \in Nat
    <3>1. SizeMax + 1 \in Nat \ {0} /\ queue.offset + -1 \in Int
      BY DEF SizeMax, QueueType
    <3>2. QED
      BY <3>1 DEF AddInt
  <2>4. QED
    BY <2>1, <2>2, <2>3 DEF Advance, QueueType
<1>4. /\ myWriteQueue' \in [Ends -> QueueType]
      /\ myWriteQueue'[Peer(x)] = myWriteQueue[Peer(x)]
  BY <1>1, <1>2, <1>3 DEF IInv, Types
<1>5. sk' \in [Ends -> Errors] /\ sk'[Peer(x)] = sk[Peer(x)] /\ ~Alive(x)' /\ OnlyEnds(x)
  BY <1>1, <1>2 DEF IInv, Types, OnlyEnds, Alive, Errors
<1>6. Types'
  BY <1>1, <1>2, <1>4, <1>5 DEF IInv, Types, Busy
<1>7. QED
  BY <1>1, <1>4, <1>5, <1>6, NothingSent

\* What is taken from the queue are bytes, and the queue remains one.
LEMMA AdvanceTyped ==
  ASSUME NEW queue \in QueueType, queue.segments # <<>>, NEW amount \in 1..CHUNK_SIZE,
         queue.offset + amount <= Len(Head(queue.segments))
  PROVE  /\ SubSeq(Head(queue.segments), queue.offset + 1, queue.offset + amount) \in Seq(Nat)
         /\ Advance(queue, amount) \in QueueType
<1>1. PICK front \in Segment, a \in Nat : front = Head(queue.segments) /\ a = queue.offset
  BY DEF QueueType
<1>2. amount \in Nat
  BY ChunkSize
<1>3. SubSeq(front, a + 1, a + amount) \in Seq(Nat)
  <2>1. a + amount \in Nat /\ a <= a + amount /\ a + amount <= Len(front) /\ front \in Seq(Nat)
    BY <1>1, <1>2 DEF Segment
  <2>2. QED
    BY <2>1, CutOut
<1>4. Tail(queue.segments) \in Seq(Segment)
  BY DEF QueueType
<1>5. AddInt(a, amount) \in Nat
  <2>1. SizeMax + 1 \in Nat \ {0} /\ a + amount \in Int
    BY <1>2 DEF SizeMax
  <2>2. QED
    BY <2>1 DEF AddInt
<1>6. Advance(queue, amount) \in QueueType
  BY <1>1, <1>4, <1>5 DEF Advance, QueueType
<1>7. QED
  BY <1>1, <1>3, <1>6

\* A run and the run behind it.
LEMMA RunJoined ==
  ASSUME NEW s, NEW t, NEW n \in Nat, NEW m \in Nat, Bytes(s, n), Bytes(t, m),
         NEW r \in Nat, RunFrom(s, r), RunFrom(t, r + n)
  PROVE  Bytes(Join(s, t), n + m) /\ RunFrom(Join(s, t), r)
<1>1. /\ Bytes(Join(s, t), n + m)
      /\ \A k \in 1..n : Join(s, t)[k] = s[k]
      /\ \A k \in 1..m : Join(s, t)[n + k] = t[k]
  BY Joined
<1>2. (\A k \in 1..n : s[k] = r + k) /\ (\A k \in 1..m : t[k] = (r + n) + k)
  BY DEF RunFrom, Bytes
<1>3. ASSUME NEW k \in 1..(n + m) PROVE Join(s, t)[k] = r + k
  <2>1. CASE k \in 1..n
    BY <1>1, <1>2, <2>1
  <2>2. CASE ~(k \in 1..n)
    <3>1. PICK j \in 1..m : n + j = k
      <4>1. k - n \in 1..m /\ n + (k - n) = k
        BY <2>2
      <4>2. QED
        BY <4>1
    <3>2. Join(s, t)[n + j] = t[j] /\ t[j] = (r + n) + j
      BY <1>1, <1>2
    <3>3. QED
      BY <3>1, <3>2
  <2>3. QED
    BY <2>1, <2>2
<1>4. QED
  BY <1>1, <1>3 DEF RunFrom, Bytes

LEMMA SendSomeKeeps ==
  ASSUME IInv, NEW x \in Ends, NEW amount \in 1..CHUNK_SIZE, SendSome(x, amount)
  PROVE  IInv'
<1> DEFINE p == Peer(x)
           queue == Queue(x)
           taken == SubSeq(Head(queue.segments), queue.offset + 1, queue.offset + amount)
           advanced == Advance(queue, amount)
<1>1. p \in Ends /\ p # x /\ Direction(p, x) /\ Direction(x, p)
  BY DirectionsHold
<1>2. /\ Sending(x) /\ Fetch(x) /\ sk[x] = "ok"
      /\ queue.offset + amount <= Len(Head(queue.segments))
      /\ wire' = [wire EXCEPT ![x] = @ \o taken]
      /\ myWriteQueue' = [myWriteQueue EXCEPT ![x] = advanced]
      /\ pc' = pc \/ pc' = [pc EXCEPT ![x] = "recv"]
      /\ pc[x] = "send"
      /\ UNCHANGED <<mySocket, myReadStream, readData, told, written, inbox, sk>>
  BY DEF SendSome, Sending
<1>3. /\ queue \in QueueType /\ queue.segments # <<>>
      /\ myWriteStream' \in [Ends -> Seq(Nat)] /\ Left(x) \in Seq(Nat)
      /\ myWriteStream'[x] = Left(x) /\ myWriteStream'[p] = myWriteStream[p]
      /\ \A n \in Nat : Unsent(myWriteQueue[x], myWriteStream[x], written[x], n)
                          => Unsent(queue, Left(x), written[x], n)
  BY <1>2, Fetched
<1>4. taken \in Seq(Nat) /\ advanced \in QueueType
  BY <1>2, <1>3, AdvanceTyped
<1>5. PICK r \in Nat, m \in Nat :
        /\ r = Arrived(p) /\ m = Len(wire[x]) /\ Arrived(p) + Len(wire[x]) = r + m
  BY <1>1, Counted DEF IInv
<1>6. Bytes(wire[x], m) /\ written[x] \in Nat /\ amount \in Nat
  BY <1>5, ChunkSize DEF IInv, Types, Bytes
<1>7. mySocket[x]
  BY <1>2 DEF IInv, Types, Busy
<1>8. Alive(p) => /\ Bytes(taken, amount) /\ RunFrom(taken, r + m)
                  /\ (r + m) + amount <= written[x]
                  /\ Unsent(advanced, Left(x), written[x], (r + m) + amount)
  <2>1. SUFFICES ASSUME Alive(p)
                 PROVE  /\ Bytes(taken, amount) /\ RunFrom(taken, r + m)
                        /\ (r + m) + amount <= written[x]
                        /\ Unsent(advanced, Left(x), written[x], (r + m) + amount)
    OBVIOUS
  <2>2. Unsent(myWriteQueue[x], myWriteStream[x], written[x], r + m)
    BY <1>1, <1>2, <1>5, <1>7, <2>1 DEF Direction, Following, Alive
  <2>3. PICK sent \in Nat : sent = r + m
    OBVIOUS
  <2>4. Unsent(queue, Left(x), written[x], sent)
    BY <1>3, <2>2, <2>3
  <2>5. /\ taken \in Seq(Nat) /\ Len(taken) = amount /\ RunFrom(taken, sent)
        /\ sent + amount <= written[x]
        /\ Unsent(advanced, Left(x), written[x], sent + amount)
    BY SMTT(30), <1>2, <1>3, <1>6, <2>4, AdvanceUnsent
  <2>6. QED
    BY <2>3, <2>5 DEF Bytes
<1> HIDE DEF p, queue, taken, advanced
<1>9. Types'
  <2>1. wire' \in [Ends -> Seq(Nat)] /\ myWriteQueue' \in [Ends -> QueueType]
    BY <1>2, <1>4 DEF IInv, Types
  <2>2. pc' \in [Ends -> Busy \cup {"idle", "killed"}]
        /\ \A e \in Ends : pc'[e] \in Busy => mySocket'[e]
    BY <1>2 DEF IInv, Types, Busy
  <2>3. QED
    BY <1>2, <1>3, <2>1, <2>2 DEF IInv, Types
<1>10. /\ wire'[x] = Join(wire[x], taken) /\ wire'[p] = wire[p]
       /\ myWriteQueue'[x] = advanced /\ myWriteQueue'[p] = myWriteQueue[p]
  BY <1>1, <1>2 DEF IInv, Types, Join
<1>11. OnlyEnds(x) /\ OnlyEnds(p) /\ Alive(p)' = Alive(p) /\ Arrived(p)' = r
  BY <1>2, <1>5 DEF OnlyEnds, Alive, Arrived
<1>12. Direction(x, p)'
  BY <1>1, <1>2, <1>3, <1>10, <1>11, Untouched
<1>13. Direction(p, x)'
  <2>1. Received(p, x)' /\ Waiting(p, x)'
    BY <1>1, <1>2, <1>5, <1>11 DEF Direction, Received, Waiting
  <2>2. CASE ~Alive(p)
    BY <1>11, <2>1, <2>2 DEF Direction, Coming, Following
  <2>3. CASE Alive(p)
    <3>1. RunFrom(wire[x], r)
      BY <1>1, <1>5, <2>3 DEF Direction, Coming
    <3>2. Bytes(Join(wire[x], taken), m + amount) /\ RunFrom(Join(wire[x], taken), r)
      BY <1>6, <1>8, <2>3, <3>1, RunJoined
    <3>3. Arrived(p)' + Len(wire'[x]) = (r + m) + amount
      <4>1. Len(wire'[x]) = m + amount
        BY <1>10, <3>2 DEF Bytes
      <4>2. r + (m + amount) = (r + m) + amount
        BY <1>6
      <4>3. QED
        BY <1>11, <4>1, <4>2
    <3>4. Coming(p, x)'
      BY <1>2, <1>8, <1>10, <1>11, <2>3, <3>2, <3>3 DEF Coming
    <3>5. Following(p, x)'
      BY <1>2, <1>3, <1>8, <1>10, <2>3, <3>3 DEF Following
    <3>6. QED
      BY <2>1, <3>4, <3>5 DEF Direction
  <2>4. QED
    BY <2>2, <2>3
<1>14. QED
  BY <1>9, <1>12, <1>13, BothDirections DEF IInv, p

-----------------------------------------------------------------------------
(* The theorems *)

LEMMA Keeps == IInv /\ [Next]_vars => IInv'
<1> SUFFICES ASSUME IInv, [Next]_vars PROVE IInv'
  OBVIOUS
<1>1. CASE UNCHANGED vars
  <2>1. Types'
    BY <1>1 DEF IInv, Types, vars, streams, kernel
  <2>2. QED
    BY <1>1, <2>1, Quiet DEF vars, streams, kernel, OnlyEnds, Alive
<1>2. ASSUME NEW x \in Ends, Owner(x) PROVE IInv'
  <2>1. \A n \in 1..MaxWritten[x] : n \in Nat
    BY TCPSocketAssumption DEF TCPSocketAssumption
  <2>2. QED
    BY <1>2, <2>1, WriteKeeps, CloseKeeps DEF Owner
<1>3. ASSUME NEW x \in Ends, Continue(x) PROVE IInv'
  <2>1. \A n \in 0..MaxWritten[x] : n \in Nat
    BY TCPSocketAssumption DEF TCPSocketAssumption
  <2>2. CASE \E amount \in 1..CHUNK_SIZE : SendSome(x, amount)
    BY <2>2, SendSomeKeeps
  <2>3. CASE \E n \in 0..MaxWritten[x] : Fire(x, n)
    BY <2>1, <2>3, FireKeeps
  <2>4. CASE \/ SendAgain(x) \/ SendFails(x) \/ SendKilled(x) \/ SendTimedOut(x)
             \/ SendUnlisted(x) \/ SendDone(x)
    BY <2>4, SendAgainKeeps, SendFailsKeeps, SendKilledKeeps, SendTimedOutKeeps,
       SendUnlistedKeeps, SendDoneKeeps
  <2>5. CASE \/ RecvSome(x) \/ RecvUnlisted(x) \/ RecvBroken(x) \/ RecvFails(x)
             \/ RecvAgain(x) \/ FireAndClose(x)
    BY <2>5, RecvSomeKeeps, RecvUnlistedKeeps, RecvBrokenKeeps, RecvFailsKeeps,
       RecvAgainKeeps, FireAndCloseKeeps
  <2>6. QED
    BY <1>3, <2>2, <2>3, <2>4, <2>5 DEF Continue
<1>4. ASSUME NEW x \in Ends, Network(x) PROVE IInv'
  BY <1>4, DeliverKeeps, DeliverFinKeeps DEF Network
<1>5. QED
  BY <1>1, <1>2, <1>3, <1>4, UpdateKeeps, TimeOutKeeps DEF Next

\* Whatever is closed, lost, refused or interrupted, what has been received is the
\* beginning of what was written, with at most one bogus segment behind it, and
\* on Windows none (HandleSend and HandleRecv of both TCPSockets).
THEOREM BeginningArrives == Spec => []PrefixThenGarbage
<1>1. IInv => PrefixThenGarbage
  <2>1. SUFFICES ASSUME IInv, NEW e \in Ends PROVE Received(e, Peer(e))
    BY DEF PrefixThenGarbage, Received
  <2>2. QED
    BY <2>1, DirectionsHold DEF Direction
<1>2. QED
  BY Begins, Keeps, <1>1, PTL DEF Spec

-----------------------------------------------------------------------------
(* Without the errors that end a connection from outside *)

\* The kernel's error is never one that recv reports, all that is written fits,
\* and there is news whenever OnDataAvailable is about to be fired.
News(e) ==
  /\ sk[e] = "ok" /\ written[e] <= MaxWritten[e]
  /\ told[e] <= Len(myReadStream[e])
  /\ readData[e] \/ pc[e] = "fire" => told[e] < Len(myReadStream[e])
  /\ readData[e] => pc[e] = "recv"

LinkInv == IInv /\ \A e \in Ends : News(e)

OnlyTemporary == Faults \cap {"ECONNRESET", "ETIMEDOUT"} = {}

\* What changes neither the streams nor what was told.
LEMMA NoNews ==
  ASSUME LinkInv, IInv', UNCHANGED <<written, told, myReadStream, sk>>,
         \A e \in Ends : /\ readData'[e] \/ pc'[e] = "fire" => readData[e] \/ pc[e] = "fire"
                         /\ readData'[e] => pc'[e] = "recv"
  PROVE  LinkInv'
<1>1. ASSUME NEW e \in Ends PROVE News(e)'
  <2>1. /\ written'[e] = written[e] /\ told'[e] = told[e] /\ sk'[e] = sk[e]
        /\ myReadStream'[e] = myReadStream[e]
    OBVIOUS
  <2>2. News(e)
    BY DEF LinkInv
  <2>3. CASE readData'[e] \/ pc'[e] = "fire"
    <3>1. readData[e] \/ pc[e] = "fire"
      BY <2>3
    <3>2. told[e] < Len(myReadStream[e])
      BY <2>2, <3>1 DEF News
    <3>3. QED
      BY <2>1, <2>2, <3>2 DEF News
  <2>4. CASE ~(readData'[e] \/ pc'[e] = "fire")
    BY <2>1, <2>2, <2>4 DEF News
  <2>5. QED
    BY <2>3, <2>4
<1>2. QED
  BY <1>1 DEF LinkInv

LEMMA CloseIsQuiet ==
  ASSUME OnlyTemporary, NEW x \in Ends, CloseSocket(x)
  PROVE  sk' = sk
BY DEF OnlyTemporary, CloseSocket

LEMMA QuietSteps ==
  ASSUME LinkInv, IInv', OnlyTemporary, NEW x \in Ends,
         \/ Update(x) \/ SendDone(x) \/ SendAgain(x) \/ SendFails(x) \/ RecvFails(x)
         \/ RecvAgain(x) \/ Deliver(x) \/ DeliverFin(x) \/ Close(x)
         \/ \E amount \in 1..CHUNK_SIZE : SendSome(x, amount)
  PROVE  LinkInv' /\ UNCHANGED <<written, told, myReadStream>>
<1>1. /\ pc \in [Ends -> Busy \cup {"idle", "killed"}] /\ readData \in [Ends -> BOOLEAN]
      /\ sk \in [Ends -> Errors]
      /\ \A e \in Ends : sk[e] = "ok" /\ (readData[e] => pc[e] = "recv")
  BY DEF LinkInv, News, IInv, Types
<1>2. CASE Update(x) \/ SendDone(x) \/ DeliverFin(x)
  <2>1. /\ UNCHANGED <<written, told, myReadStream, sk>>
        /\ \A e \in Ends : /\ readData'[e] \/ pc'[e] = "fire" => readData[e] \/ pc[e] = "fire"
                           /\ readData'[e] => pc'[e] = "recv"
    BY <1>1, <1>2 DEF Update, SendDone, DeliverFin, streams, kernel
  <2>2. QED
    BY <2>1, NoNews
<1>3. CASE SendAgain(x) \/ SendFails(x) \/ \E amount \in 1..CHUNK_SIZE : SendSome(x, amount)
  <2>1. sk' = sk
    <3>1. CASE SendFails(x)
      BY <1>1, <3>1 DEF SendFails
    <3>2. QED
      BY <1>3, <3>1 DEF SendAgain, SendSome, kernel
  <2>2. /\ UNCHANGED <<written, told, myReadStream>>
        /\ \A e \in Ends : /\ readData'[e] \/ pc'[e] = "fire" => readData[e] \/ pc[e] = "fire"
                           /\ readData'[e] => pc'[e] = "recv"
    <3>1. /\ pc[x] = "send"
          /\ pc' = pc \/ \E to \in {"recv", "idle"} : pc' = [pc EXCEPT ![x] = to]
          /\ UNCHANGED <<written, told, myReadStream, readData>>
      BY <1>3 DEF SendAgain, SendFails, SendSome, Sending, Return
    <3>2. readData[x] = FALSE
      BY <1>1, <3>1
    <3>3. QED
      BY <1>1, <3>1, <3>2
  <2>3. QED
    BY <2>1, <2>2, NoNews
<1>4. CASE RecvFails(x) \/ RecvAgain(x)
  <2>1. /\ UNCHANGED <<written, told, myReadStream, sk>>
        /\ \A e \in Ends : /\ readData'[e] \/ pc'[e] = "fire" => readData[e] \/ pc[e] = "fire"
                           /\ readData'[e] => pc'[e] = "recv"
    BY <1>1, <1>4 DEF RecvFails, RecvAgain, Return, streams, kernel
  <2>2. QED
    BY <2>1, NoNews
<1>5. CASE Deliver(x)
  <2>1. sk' = sk
    BY <1>1, <1>5 DEF Deliver, OnlyTemporary
  <2>2. /\ UNCHANGED <<written, told, myReadStream>>
        /\ \A e \in Ends : /\ readData'[e] \/ pc'[e] = "fire" => readData[e] \/ pc[e] = "fire"
                           /\ readData'[e] => pc'[e] = "recv"
    BY <1>1, <1>5 DEF Deliver, streams
  <2>3. QED
    BY <2>1, <2>2, NoNews
<1>6. CASE Close(x)
  <2>1. sk' = sk /\ UNCHANGED <<written, told, myReadStream, readData, pc>>
    BY <1>6, CloseIsQuiet DEF Close, streams
  <2>2. QED
    BY <1>1, <2>1, NoNews
<1>7. QED
  BY <1>2, <1>3, <1>4, <1>5, <1>6

\* These are steps of errors that do not happen.
LEMMA NoErrors ==
  ASSUME LinkInv, OnlyTemporary, NEW x \in Ends
  PROVE  /\ ~SendKilled(x) /\ ~SendTimedOut(x) /\ ~SendUnlisted(x) /\ ~RecvUnlisted(x)
         /\ ~RecvBroken(x) /\ ~TimeOut(x)
<1>1. sk[x] = "ok"
  BY DEF LinkInv, News
<1>2. QED
  BY <1>1 DEF SendKilled, SendTimedOut, SendUnlisted, RecvUnlisted, RecvBroken, TimeOut,
              Gone, OnlyTemporary

\* A run is the sequence that ByteLink writes down.
LEMMA RunIs ==
  ASSUME NEW s, NEW n \in Nat, Bytes(s, n), NEW r \in Nat, RunFrom(s, r)
  PROVE  s = [k \in 1..n |-> r + k]
<1>1. s \in Seq(Nat) /\ DOMAIN s = 1..n /\ \A k \in 1..n : s[k] = r + k
  BY DEF Bytes, RunFrom
<1>2. s = [k \in DOMAIN s |-> s[k]]
  BY <1>1
<1>3. QED
  BY <1>1, <1>2

LEMMA RecvSomeReceives ==
  ASSUME LinkInv, IInv', NEW x \in Ends, RecvSome(x)
  PROVE  LinkInv' /\ Link!Next
<1> DEFINE p == Peer(x)
           amount == Lesser(CHUNK_SIZE, Len(inbox[x]))
           part == SubSeq(inbox[x], 1, amount)
<1>1. p \in Ends /\ p # x /\ Direction(x, p)
  BY DirectionsHold DEF LinkInv
<1>2. PICK n \in Nat, m \in Nat : /\ n = Len(myReadStream[x]) /\ m = Len(inbox[x])
                                  /\ Arrived(x) = n + m
  BY Counted DEF LinkInv, IInv, Arrived
<1>3. /\ myReadStream' = [myReadStream EXCEPT ![x] = @ \o part]
      /\ amount > 0 /\ readData' = [readData EXCEPT ![x] = TRUE] /\ pc[x] = "recv"
      /\ UNCHANGED <<pc, told, written, sk>>
  BY DEF RecvSome, AppendReceived
<1>4. amount \in 1..m
  <2>1. CHUNK_SIZE \in Nat
    BY ChunkSize
  <2>2. QED
    BY <1>2, <1>3, <2>1 DEF Lesser
<1>5. /\ myReadStream[x] \in Seq(Nat) /\ inbox[x] \in Seq(Nat) /\ written[p] \in Nat
      /\ inbox[x] # <<>> /\ \A e \in Ends : told[e] \in Nat /\ written[e] \in Nat
  <2>1. /\ myReadStream[x] \in Seq(Nat) /\ inbox[x] \in Seq(Nat)
        /\ \A e \in Ends : told[e] \in Nat /\ written[e] \in Nat
    BY DEF LinkInv, IInv, Types
  <2>2. Len(inbox[x]) # 0
    BY <1>2, <1>4
  <2>3. QED
    BY <1>1, <2>1, <2>2
<1>6. RunFrom(inbox[x], n) /\ n + m <= written[p]
  BY <1>1, <1>2, <1>5 DEF Direction, Waiting
<1> HIDE DEF p, amount
<1>7. Bytes(part, amount) /\ \A k \in 1..amount : part[k] = inbox[x][k]
  <2>1. PICK z \in Nat : z = 0
    OBVIOUS
  <2>2. Bytes(inbox[x], m)
    BY <1>2, <1>5 DEF Bytes
  <2>3. amount \in Nat /\ z <= amount /\ amount <= m
    BY <1>4, <2>1
  <2>4. /\ Bytes(SubSeq(inbox[x], z + 1, amount), amount - z)
        /\ \A k \in 1..(amount - z) : SubSeq(inbox[x], z + 1, amount)[k] = inbox[x][z + k]
    BY <2>2, <2>3, Part
  <2>5. amount - z = amount /\ z + 1 = 1 /\ \A k \in 1..amount : z + k = k
    BY <2>1, <2>3
  <2>6. QED
    BY <2>4, <2>5
<1> HIDE DEF part
<1>8. part = [k \in 1..amount |-> n + k]
  <2>1. RunFrom(part, n)
    <3>1. ASSUME NEW k \in 1..amount PROVE part[k] = n + k
      <4>1. inbox[x][k] = n + k
        BY SMTT(30), <1>2, <1>4, <1>6 DEF RunFrom
      <4>2. QED
        BY <1>7, <4>1
    <3>2. QED
      BY <1>7, <3>1 DEF RunFrom, Bytes
  <2>2. amount \in Nat
    BY <1>4
  <2>3. QED
    BY <1>7, <2>1, <2>2, RunIs
<1>9. Link!Receive(x, amount)
  <2>1. n + amount <= written[p]
    <3>1. PICK w \in Nat : w = written[p] /\ n + m <= w
      BY <1>5, <1>6
    <3>2. QED
      BY <1>4, <3>1
  <2>2. Len(myReadStream[x]) + amount <= written[Peer(x)]
    BY <1>2, <2>1 DEF p
  <2>3. myReadStream' =
          [myReadStream EXCEPT ![x] = @ \o [k \in 1..amount |-> Len(@) + k]]
    BY <1>2, <1>3, <1>8
  <2>4. QED
    BY <1>3, <2>2, <2>3 DEF Link!Receive
<1>10. amount \in 0..(MaxWritten["client"] + MaxWritten["server"])
  <2>1. written[p] <= MaxWritten[p] /\ MaxWritten[p] \in Nat
        /\ MaxWritten["client"] \in Nat /\ MaxWritten["server"] \in Nat
    BY <1>1, TCPSocketAssumption DEF TCPSocketAssumption, LinkInv, News, Ends
  <2>2. MaxWritten[p] <= MaxWritten["client"] + MaxWritten["server"]
    BY <1>1, <2>1 DEF Ends
  <2>3. QED
    BY <1>4, <1>5, <1>6, <2>1, <2>2
<1>11. LinkInv'
  <2>1. Len(myReadStream'[x]) = n + amount
    <3>1. Bytes(myReadStream[x], n)
      BY <1>2, <1>5 DEF Bytes
    <3>2. Bytes(Join(myReadStream[x], part), n + amount)
      BY <1>4, <1>7, <3>1, Joined
    <3>3. myReadStream'[x] = Join(myReadStream[x], part)
      BY <1>3 DEF LinkInv, IInv, Types, Join
    <3>4. QED
      BY <3>2, <3>3 DEF Bytes
  <2>2. News(x)'
    <3>1. told[x] <= n /\ told[x] \in Nat /\ sk[x] = "ok" /\ written[x] <= MaxWritten[x]
      BY <1>2, <1>5 DEF LinkInv, News
    <3>2. told[x] < n + amount /\ told[x] <= n + amount
      BY <1>4, <3>1
    <3>3. QED
      BY <1>3, <2>1, <3>1, <3>2 DEF News
  <2>3. News(p)'
    <3>1. myReadStream'[p] = myReadStream[p] /\ readData'[p] = readData[p]
      BY <1>1, <1>3 DEF LinkInv, IInv, Types
    <3>2. QED
      BY <1>1, <1>3, <3>1 DEF LinkInv, News
  <2>4. QED
    BY <2>2, <2>3, Peers DEF LinkInv, p
<1>12. QED
  BY <1>9, <1>10, <1>11 DEF Link!Next

\* The news has been told.
LEMMA ToldAll ==
  ASSUME LinkInv, IInv', NEW x \in Ends, told' = [told EXCEPT ![x] = Len(myReadStream[x])],
         readData[x] = FALSE, pc'[x] = "idle", pc'[Peer(x)] = pc[Peer(x)],
         UNCHANGED <<myReadStream, readData, sk>>, \A e \in Ends : written'[e] <= MaxWritten[e]
  PROVE  LinkInv'
<1>1. Peer(x) \in Ends /\ Peer(x) # x /\ told \in [Ends -> Nat] /\ Len(myReadStream[x]) \in Nat
  BY Peers, Counted DEF LinkInv, IInv, Types
<1>2. told'[x] = Len(myReadStream[x]) /\ told'[Peer(x)] = told[Peer(x)]
  BY <1>1
<1>3. News(x)' /\ News(Peer(x))'
  BY <1>1, <1>2 DEF LinkInv, News
<1>4. QED
  BY <1>3, Peers DEF LinkInv

\* n bytes are written, by the owner or by the callback.
LEMMA Writes ==
  ASSUME NEW x \in Ends, NEW n \in 0..MaxWritten[x], LinkInv, WriteBytes(x, n)
  PROVE  /\ n \in 0..(MaxWritten["client"] + MaxWritten["server"])
         /\ written' = [written EXCEPT ![x] = @ + n]
         /\ \A e \in Ends : written'[e] <= MaxWritten[e]
<1>1. /\ MaxWritten["client"] \in Nat /\ MaxWritten["server"] \in Nat
      /\ MaxWritten[x] = MaxWritten["client"] \/ MaxWritten[x] = MaxWritten["server"]
  BY TCPSocketAssumption DEF TCPSocketAssumption, Ends
<1>2. n \in 0..(MaxWritten["client"] + MaxWritten["server"])
  <2>1. PICK c \in Nat, s \in Nat : c = MaxWritten["client"] /\ s = MaxWritten["server"]
    BY <1>1
  <2>2. n \in 0..c \/ n \in 0..s
    BY <1>1, <2>1
  <2>3. n \in 0..(c + s)
    BY <2>2
  <2>4. QED
    BY <2>1, <2>3
<1>3. written \in [Ends -> Nat] /\ \A e \in Ends : written[e] <= MaxWritten[e]
  BY DEF LinkInv, News, IInv, Types
<1>4. QED
  BY <1>2, <1>3 DEF WriteBytes

LEMMA WriteWrites ==
  ASSUME LinkInv, IInv', NEW x \in Ends, NEW n \in 1..MaxWritten[x], Write(x, n)
  PROVE  LinkInv' /\ Link!Next
<1>1. n \in 0..MaxWritten[x] /\ WriteBytes(x, n)
  BY DEF Write
<1>2. /\ n \in 0..(MaxWritten["client"] + MaxWritten["server"])
      /\ written' = [written EXCEPT ![x] = @ + n]
      /\ \A e \in Ends : written'[e] <= MaxWritten[e]
  BY <1>1, Writes
<1>3. UNCHANGED <<myReadStream, readData, pc, told, sk>>
  BY DEF Write, kernel
<1>4. LinkInv'
  BY <1>2, <1>3 DEF LinkInv, News
<1>5. Link!Write(x, n)
  BY <1>2, <1>3 DEF Link!Write
<1>6. QED
  BY <1>2, <1>4, <1>5 DEF Link!Next

LEMMA FireAnnounces ==
  ASSUME LinkInv, IInv', NEW x \in Ends, NEW n \in 0..MaxWritten[x], Fire(x, n)
  PROVE  LinkInv' /\ Link!Next
<1>1. /\ n \in 0..(MaxWritten["client"] + MaxWritten["server"])
      /\ written' = [written EXCEPT ![x] = @ + n]
      /\ \A e \in Ends : written'[e] <= MaxWritten[e]
  BY Writes DEF Fire
<1>2. /\ pc[x] = "fire" /\ told' = [told EXCEPT ![x] = Len(myReadStream[x])]
      /\ pc' = [pc EXCEPT ![x] = "idle"] /\ UNCHANGED <<myReadStream, readData, sk>>
  BY DEF Fire, Return, kernel
<1>3. told[x] < Len(myReadStream[x]) /\ readData[x] = FALSE
  BY <1>2 DEF LinkInv, News, IInv, Types
<1>4. pc'[x] = "idle" /\ pc'[Peer(x)] = pc[Peer(x)]
  BY <1>2, Peers DEF LinkInv, IInv, Types
<1>5. LinkInv'
  BY <1>1, <1>2, <1>3, <1>4, ToldAll
<1>6. Link!Announce(x, n)
  BY <1>1, <1>2, <1>3 DEF Link!Announce
<1>7. QED
  BY <1>1, <1>5, <1>6 DEF Link!Next

LEMMA FireAndCloseAnnounces ==
  ASSUME LinkInv, IInv', OnlyTemporary, NEW x \in Ends, FireAndClose(x)
  PROVE  LinkInv' /\ Link!Next
<1>1. /\ pc[x] = "fire" /\ told' = [told EXCEPT ![x] = Len(myReadStream[x])]
      /\ pc' = [pc EXCEPT ![x] = "idle"] /\ UNCHANGED <<myReadStream, readData, written, sk>>
  BY CloseIsQuiet DEF FireAndClose, Return, streams
<1>2. told[x] < Len(myReadStream[x]) /\ readData[x] = FALSE
  BY <1>1 DEF LinkInv, News, IInv, Types
<1>3. pc'[x] = "idle" /\ pc'[Peer(x)] = pc[Peer(x)]
  BY <1>1, Peers DEF LinkInv, IInv, Types
<1>4. \A e \in Ends : written'[e] <= MaxWritten[e]
  BY <1>1 DEF LinkInv, News
<1>5. LinkInv'
  BY <1>1, <1>2, <1>3, <1>4, ToldAll
<1>6. PICK n \in Nat : n = 0
  OBVIOUS
<1>7. Link!Announce(x, n)
  <2>1. written' = [written EXCEPT ![x] = @ + n]
    BY <1>1, <1>6 DEF LinkInv, IInv, Types
  <2>2. QED
    BY <1>1, <1>2, <2>1 DEF Link!Announce
<1>8. n \in 0..(MaxWritten["client"] + MaxWritten["server"])
  <2>1. MaxWritten["client"] \in Nat /\ MaxWritten["server"] \in Nat
    BY TCPSocketAssumption DEF TCPSocketAssumption, Ends
  <2>2. QED
    BY <1>6, <2>1
<1>9. QED
  BY <1>5, <1>7, <1>8 DEF Link!Next

LEMMA LinkSteps ==
  ASSUME LinkInv, OnlyTemporary, [Next]_vars
  PROVE  LinkInv' /\ [Link!Next]_(Link!vars)
<1>1. IInv'
  BY Keeps DEF LinkInv
<1>2. CASE UNCHANGED vars
  BY <1>1, <1>2 DEF LinkInv, News, vars, streams, kernel, Link!vars
<1>3. ASSUME NEW x \in Ends, Owner(x) PROVE LinkInv' /\ [Link!Next]_(Link!vars)
  <2>1. CASE \E n \in 1..MaxWritten[x] : Write(x, n)
    BY <1>1, <2>1, WriteWrites
  <2>2. CASE Close(x)
    BY <1>1, <2>2, QuietSteps DEF Link!vars
  <2>3. QED
    BY <1>3, <2>1, <2>2 DEF Owner
<1>4. ASSUME NEW x \in Ends, Continue(x) PROVE LinkInv' /\ [Link!Next]_(Link!vars)
  <2>1. CASE \/ SendAgain(x) \/ SendFails(x) \/ SendDone(x) \/ RecvFails(x) \/ RecvAgain(x)
             \/ \E amount \in 1..CHUNK_SIZE : SendSome(x, amount)
    BY <1>1, <2>1, QuietSteps DEF Link!vars
  <2>2. CASE RecvSome(x)
    BY <1>1, <2>2, RecvSomeReceives
  <2>3. CASE \E n \in 0..MaxWritten[x] : Fire(x, n)
    BY <1>1, <2>3, FireAnnounces
  <2>4. CASE FireAndClose(x)
    BY <1>1, <2>4, FireAndCloseAnnounces
  <2>5. QED
    BY <1>4, <2>1, <2>2, <2>3, <2>4, NoErrors DEF Continue
<1>5. ASSUME NEW x \in Ends, Update(x) \/ Network(x) PROVE LinkInv' /\ [Link!Next]_(Link!vars)
  BY <1>1, <1>5, QuietSteps DEF Network, Link!vars
<1>6. QED
  BY <1>2, <1>3, <1>4, <1>5, NoErrors DEF Next

\* As long as the kernel reports no error that ends the connection, the two ends
\* are a ByteLink: what is written arrives once and in order, and is announced when
\* there is news, for every way in which the kernel splits, refuses or interrupts
\* the calls.
THEOREM IsByteLink ==
  ASSUME OnlyTemporary
  PROVE  Spec => ImplementsByteLink
<1>1. Init => LinkInv /\ Link!Init
  <2>1. SUFFICES ASSUME Init PROVE LinkInv /\ Link!Init
    OBVIOUS
  <2>2. IInv
    BY <2>1, Begins
  <2>3. ASSUME NEW e \in Ends PROVE News(e)
    <3>1. MaxWritten[e] \in Nat
      BY TCPSocketAssumption DEF TCPSocketAssumption
    <3>2. /\ sk[e] = "ok" /\ written[e] = 0 /\ told[e] = 0 /\ myReadStream[e] = <<>>
          /\ readData[e] = FALSE /\ pc[e] = "idle"
      BY <2>1 DEF Init
    <3>3. QED
      BY <3>1, <3>2 DEF News
  <2>4. Link!Init
    BY <2>1 DEF Init, Link!Init
  <2>5. QED
    BY <2>2, <2>3, <2>4 DEF LinkInv
<1>2. LinkInv /\ [Next]_vars => LinkInv' /\ [Link!Next]_(Link!vars)
  BY LinkSteps
<1>3. QED
  BY <1>1, <1>2, PTL DEF Spec, ImplementsByteLink, Link!Spec

-----------------------------------------------------------------------------
(* The types, with the bounds of what is counted *)

Flags ==
  /\ useful \in [Ends -> BOOLEAN]
  /\ finSent \in [Ends -> BOOLEAN] /\ finArrived \in [Ends -> BOOLEAN]

\* What is written fits, and the kernel holds no more than its capacity.
Fits(e) ==
  /\ written[e] <= MaxWritten[e]
  /\ told[e] <= Len(myReadStream[e])
  /\ myWriteQueue[e].offset <= SizeMax
  /\ Len(wire[e]) + Len(inbox[Peer(e)]) <= Capacity

TypeInv == IInv /\ Flags /\ \A e \in Ends : Fits(e)

LEMMA FlagSteps ==
  ASSUME Flags, [Next]_vars
  PROVE  Flags'
<1>1. CASE UNCHANGED vars
  BY <1>1 DEF Flags, vars, kernel
<1>2. ASSUME NEW x \in Ends, Owner(x) \/ Update(x) \/ Network(x) \/ TimeOut(x) PROVE Flags'
  BY <1>2 DEF Flags, Owner, Write, Close, CloseSocket, Update, Network, Deliver, DeliverFin,
     TimeOut, kernel
<1>3. ASSUME NEW x \in Ends,
             \/ SendAgain(x) \/ SendFails(x) \/ SendKilled(x) \/ SendTimedOut(x)
             \/ SendUnlisted(x) \/ SendDone(x) \/ \E amount \in 1..CHUNK_SIZE : SendSome(x, amount)
      PROVE  Flags'
  BY <1>3 DEF Flags, SendAgain, SendFails, SendKilled, SendTimedOut, SendUnlisted, SendDone,
     SendSome, Return, CloseSocket, kernel
<1>4. ASSUME NEW x \in Ends,
             RecvSome(x) \/ RecvUnlisted(x) \/ RecvBroken(x) \/ RecvFails(x) \/ RecvAgain(x)
      PROVE  Flags'
  BY <1>4 DEF Flags, RecvSome, RecvUnlisted, RecvBroken, RecvFails, RecvAgain, Return, kernel
<1>5. ASSUME NEW x \in Ends, FireAndClose(x) \/ \E n \in 0..MaxWritten[x] : Fire(x, n)
      PROVE  Flags'
  BY <1>5 DEF Flags, Fire, FireAndClose, Return, CloseSocket, kernel
<1>6. QED
  BY <1>1, <1>2, <1>3, <1>4, <1>5 DEF Next, Continue

LEMMA SizeT == SizeMax \in Nat
BY DEF SizeMax

LEMMA Smaller ==
  ASSUME NEW a \in Nat, NEW b \in Nat, NEW c \in Nat, NEW d \in Nat, c <= a, d <= b
  PROVE  c + d <= a + b
OBVIOUS

LEMMA Modulo ==
  ASSUME NEW m \in Nat \ {0}, NEW a \in Int
  PROVE  a % m \in 0..(m - 1)
OBVIOUS

\* The offset is a size_t, whatever is added to it.
LEMMA OffsetFits ==
  ASSUME NEW queue \in QueueType, NEW amount \in Int
  PROVE  Advance(queue, amount).offset <= SizeMax
<1>1. PICK m \in Nat \ {0} : m = SizeMax + 1 /\ m - 1 = SizeMax
  BY DEF SizeMax
<1>2. queue.offset \in Nat /\ queue.offset + amount \in Int /\ 0 <= SizeMax
  BY DEF QueueType, SizeMax
<1>3. AddInt(queue.offset, amount) \in 0..SizeMax
  BY <1>1, <1>2, Modulo DEF AddInt
<1>4. AddInt(queue.offset, amount) <= SizeMax
  BY <1>1, <1>3
<1>5. CASE AddInt(queue.offset, amount) = Len(Head(queue.segments))
  BY <1>2, <1>5 DEF Advance
<1>6. CASE AddInt(queue.offset, amount) # Len(Head(queue.segments))
  BY <1>4, <1>6 DEF Advance, QueueType
<1>7. QED
  BY <1>5, <1>6

\* The queue that an iteration works on.
LEMMA QueueFits ==
  ASSUME TypeInv, NEW x \in Ends
  PROVE  Queue(x).offset <= SizeMax
<1>1. CASE myWriteQueue[x].segments # <<>>
  BY <1>1 DEF TypeInv, Fits, Queue
<1>2. CASE myWriteQueue[x].segments = <<>>
  <2>1. Queue(x).offset = 0
    BY <1>2 DEF Queue
  <2>2. QED
    BY <2>1, SizeT
<1>3. QED
  BY <1>1, <1>2

\* A step that leaves what is counted as it is.
LEMMA StillFits ==
  ASSUME TypeInv, IInv', Flags', UNCHANGED <<written, told, myReadStream>>,
         \A e \in Ends : myWriteQueue'[e].offset <= SizeMax,
         \A e \in Ends : Len(wire'[e]) + Len(inbox'[Peer(e)]) <= Capacity
  PROVE  TypeInv'
BY DEF TypeInv, Fits

\* The kernel holds no more when both parts are no longer.
LEMMA NoMore ==
  ASSUME TypeInv, IInv', NEW e \in Ends, NEW p \in Ends, p = Peer(e),
         NEW a \in Nat, NEW b \in Nat, Len(wire'[e]) = a, Len(inbox'[p]) = b,
         \E c, d \in Nat : /\ c + d <= Capacity /\ a + b <= c + d
  PROVE  Len(wire'[e]) + Len(inbox'[Peer(e)]) <= Capacity
<1>1. Capacity \in Nat
  BY TCPSocketAssumption DEF TCPSocketAssumption
<1>2. a + b <= Capacity
  BY <1>1
<1>3. QED
  BY <1>2

\* The kernel drops what it held.
LEMMA Dropped ==
  ASSUME TypeInv, IInv',
         \A e \in Ends : /\ wire'[e] = wire[e] \/ wire'[e] = <<>>
                         /\ inbox'[e] = inbox[e] \/ inbox'[e] = <<>>
  PROVE  \A e \in Ends : Len(wire'[e]) + Len(inbox'[Peer(e)]) <= Capacity
<1>1. SUFFICES ASSUME NEW e \in Ends PROVE Len(wire'[e]) + Len(inbox'[Peer(e)]) <= Capacity
  OBVIOUS
<1>2. Peer(e) \in Ends
  BY Peers
<1>3. PICK a \in Nat, b \in Nat : a = Len(wire[e]) /\ b = Len(inbox[Peer(e)]) /\ a + b <= Capacity
  BY <1>2, Counted DEF TypeInv, IInv, Fits
<1>4. PICK c \in Nat, d \in Nat : /\ c = Len(wire'[e]) /\ d = Len(inbox'[Peer(e)])
                                  /\ c <= a /\ d <= b
  <2>1. Len(wire'[e]) \in Nat /\ Len(wire'[e]) <= a
    BY <1>3
  <2>2. Len(inbox'[Peer(e)]) \in Nat /\ Len(inbox'[Peer(e)]) <= b
    BY <1>2, <1>3
  <2>3. QED
    BY <2>1, <2>2
<1>5. c + d <= a + b
  BY <1>4, Smaller
<1>6. QED
  BY <1>2, <1>3, <1>4, <1>5, NoMore

LEMMA ClosedFits ==
  ASSUME TypeInv, IInv', NEW x \in Ends, CloseSocket(x)
  PROVE  \A e \in Ends : Len(wire'[e]) + Len(inbox'[Peer(e)]) <= Capacity
<1>1. DOMAIN wire = Ends /\ DOMAIN inbox = Ends
  BY DEF TypeInv, IInv, Types
<1>2. \A e \in Ends : inbox'[e] = inbox[e] \/ inbox'[e] = <<>>
  BY <1>1 DEF CloseSocket
<1>3. \A e \in Ends : wire'[e] = wire[e] \/ wire'[e] = <<>>
  <2>1. wire' = [wire EXCEPT ![x] = <<>>] \/ wire' = wire
    BY DEF CloseSocket
  <2>2. QED
    BY <1>1, <2>1
<1>4. QED
  BY <1>2, <1>3, Dropped

\* A send moves no more than there is room for.
LEMMA SendSomeFits ==
  ASSUME TypeInv, IInv', NEW x \in Ends, NEW amount \in 1..CHUNK_SIZE, SendSome(x, amount)
  PROVE  \A e \in Ends : Len(wire'[e]) + Len(inbox'[Peer(e)]) <= Capacity
<1> DEFINE front == Head(Queue(x).segments)
           offset == Queue(x).offset
<1>1. front \in Seq(Nat) /\ offset \in Nat /\ amount \in Nat /\ offset + amount <= Len(front)
  <2>1. Queue(x) \in QueueType /\ Queue(x).segments # <<>>
    BY Fetched DEF SendSome, TypeInv
  <2>2. amount \in Nat
    BY ChunkSize
  <2>3. QED
    BY <2>1, <2>2 DEF SendSome, QueueType, Segment
<1> HIDE DEF front, offset
<1>2. Len(SubSeq(front, offset + 1, offset + amount)) = amount
      /\ SubSeq(front, offset + 1, offset + amount) \in Seq(Nat)
  BY <1>1, CutOut
<1>3. /\ wire' = [wire EXCEPT ![x] = @ \o SubSeq(front, offset + 1, offset + amount)]
      /\ inbox' = inbox /\ Len(wire[x]) + Len(inbox[Peer(x)]) + amount <= Capacity
  BY DEF SendSome, front, offset
<1>4. wire \in [Ends -> Seq(Nat)]
  BY DEF TypeInv, IInv, Types
<1>5. Len(wire'[x]) = Len(wire[x]) + amount
  BY <1>1, <1>2, <1>3, <1>4
<1>6. PICK a \in Nat, b \in Nat : a = Len(wire[x]) /\ b = Len(inbox[Peer(x)])
  BY Peers, Counted DEF TypeInv, IInv
<1>7. Len(wire'[x]) + Len(inbox'[Peer(x)]) <= Capacity
  <2>1. PICK n \in Nat : n = amount
    BY <1>1
  <2>2. Len(wire'[x]) = a + n /\ Len(inbox'[Peer(x)]) = b /\ a + b + n <= Capacity
    BY <1>3, <1>5, <1>6, <2>1
  <2>3. Capacity \in Nat
    BY TCPSocketAssumption DEF TCPSocketAssumption
  <2>4. QED
    BY <2>2, <2>3
<1>8. \A e \in Ends \ {x} : wire'[e] = wire[e]
  BY <1>3, <1>4
<1>9. QED
  BY <1>3, <1>7, <1>8 DEF TypeInv, Fits

\* A byte that arrives was on its way.
LEMMA DeliverFits ==
  ASSUME TypeInv, IInv', NEW x \in Ends, Deliver(x)
  PROVE  \A e \in Ends : Len(wire'[e]) + Len(inbox'[Peer(e)]) <= Capacity
<1> DEFINE p == Peer(x)
<1>1. p \in Ends /\ p # x /\ Peer(p) = x
  BY Peers
<1>2. /\ wire \in [Ends -> Seq(Nat)] /\ inbox \in [Ends -> Seq(Nat)] /\ wire[x] # <<>>
      /\ wire' = [wire EXCEPT ![x] = Tail(@)]
      /\ inbox' = inbox \/ inbox' = [inbox EXCEPT ![p] = Append(@, Head(wire[x]))]
  BY DEF TypeInv, IInv, Types, Deliver
<1>3. PICK a \in Nat, b \in Nat : a = Len(wire[x]) /\ b = Len(inbox[p]) /\ a + b <= Capacity
  BY <1>1, Counted DEF TypeInv, IInv, Fits
<1>4. Len(wire'[x]) = a - 1 /\ a # 0
  BY <1>2, <1>3
<1>5. Len(inbox'[p]) \in {b, b + 1}
  BY <1>1, <1>2, <1>3
<1>6. PICK c \in Nat, d \in Nat : c = a - 1 /\ d \in {b, b + 1} /\ d = Len(inbox'[p])
  <2>1. a - 1 \in Nat
    BY <1>3, <1>4
  <2>2. Len(inbox'[p]) \in Nat
    BY <1>3, <1>5
  <2>3. QED
    BY <1>5, <2>1, <2>2
<1>7. Len(wire'[x]) + Len(inbox'[p]) <= Capacity
  <2>1. c + d <= a + b /\ Len(wire'[x]) = c
    BY <1>4, <1>6
  <2>2. QED
    BY <1>1, <1>3, <1>6, <2>1, NoMore
<1>8. wire'[p] = wire[p] /\ inbox'[x] = inbox[x]
  BY <1>1, <1>2
<1>9. Len(wire'[p]) + Len(inbox'[x]) <= Capacity
  BY <1>1, <1>8 DEF TypeInv, Fits
<1>10. QED
  BY <1>1, <1>7, <1>9, Peers

\* What is appended makes the read stream longer, and what is received leaves
\* the kernel.
LEMMA Longer ==
  ASSUME TypeInv, IInv', Flags', NEW x \in Ends, NEW more \in Seq(Nat),
         myReadStream' = [myReadStream EXCEPT ![x] = @ \o more],
         UNCHANGED <<written, told, myWriteQueue>>,
         \A e \in Ends : Len(wire'[e]) + Len(inbox'[Peer(e)]) <= Capacity
  PROVE  TypeInv'
<1>1. ASSUME NEW e \in Ends PROVE told'[e] <= Len(myReadStream'[e])
  <2>1. told[e] <= Len(myReadStream[e]) /\ told[e] \in Nat /\ myReadStream[e] \in Seq(Nat)
    BY DEF TypeInv, Fits, IInv, Types
  <2>2. Len(myReadStream'[e]) = Len(myReadStream[e]) \/
        Len(myReadStream'[e]) = Len(myReadStream[e]) + Len(more)
    BY <2>1 DEF TypeInv, IInv, Types
  <2>3. Len(more) \in Nat /\ Len(myReadStream[e]) \in Nat
    BY <2>1
  <2>4. QED
    BY <2>1, <2>2, <2>3
<1>2. QED
  BY <1>1 DEF TypeInv, Fits

LEMMA RecvSomeFits ==
  ASSUME TypeInv, IInv', Flags', NEW x \in Ends, RecvSome(x)
  PROVE  TypeInv'
<1> DEFINE m == Len(inbox[x])
           amount == Lesser(CHUNK_SIZE, m)
<1>1. inbox \in [Ends -> Seq(Nat)] /\ m \in Nat
  BY DEF TypeInv, IInv, Types
<1>2. amount \in 1..m
  BY <1>1, ChunkSize DEF RecvSome, Lesser
<1>3. SubSeq(inbox[x], 1, amount) \in Seq(Nat)
  <2>1. PICK z \in Nat : z = 0
    OBVIOUS
  <2>2. z <= amount /\ amount <= m /\ amount \in Nat /\ z + 1 = 1 /\ inbox[x] \in Seq(Nat)
    BY <1>1, <1>2, <2>1
  <2>3. QED
    BY <1>1, <2>1, <2>2, CutOut
<1>4. /\ myReadStream' = [myReadStream EXCEPT ![x] = @ \o SubSeq(inbox[x], 1, amount)]
      /\ inbox' = [inbox EXCEPT ![x] = SubSeq(@, amount + 1, Len(@))]
      /\ UNCHANGED <<written, told, myWriteQueue, wire>>
  BY DEF RecvSome, AppendReceived
<1> HIDE DEF amount
<1>5. Len(inbox'[x]) <= m
  <2>1. Len(SubSeq(inbox[x], amount + 1, m)) = m - amount
    BY <1>1, <1>2, CutOut
  <2>2. QED
    BY <1>1, <1>2, <1>4, <2>1
<1>6. ASSUME NEW e \in Ends PROVE Len(wire'[e]) + Len(inbox'[Peer(e)]) <= Capacity
  <2>1. Peer(e) \in Ends
    BY Peers
  <2>2. PICK a \in Nat, b \in Nat : /\ a = Len(wire[e]) /\ b = Len(inbox[Peer(e)])
                                    /\ a + b <= Capacity
    BY <2>1, Counted DEF TypeInv, IInv, Fits
  <2>3. PICK d \in Nat : d = Len(inbox'[Peer(e)])
    BY <2>1 DEF IInv, Types
  <2>4. d <= b
    <3>1. CASE Peer(e) = x
      BY <1>5, <2>2, <2>3, <3>1
    <3>2. CASE Peer(e) # x
      BY <1>1, <1>4, <2>1, <2>2, <2>3, <3>2
    <3>3. QED
      BY <3>1, <3>2
  <2>5. wire'[e] = wire[e] /\ a + d <= a + b
    <3>1. a <= a
      OBVIOUS
    <3>2. a + d <= a + b
      BY <2>4, <3>1, Smaller
    <3>3. QED
      BY <1>4, <3>2
  <2>6. QED
    BY <2>1, <2>2, <2>3, <2>5, NoMore
<1>7. QED
  BY <1>3, <1>4, <1>6, Longer

\* Everything has been told.
LEMMA ToldFits ==
  ASSUME TypeInv, IInv', Flags', NEW x \in Ends,
         told' = [told EXCEPT ![x] = Len(myReadStream[x])],
         UNCHANGED <<myReadStream, myWriteQueue>>, \A e \in Ends : written'[e] <= MaxWritten[e],
         \A e \in Ends : Len(wire'[e]) + Len(inbox'[Peer(e)]) <= Capacity
  PROVE  TypeInv'
<1>1. ASSUME NEW e \in Ends PROVE told'[e] <= Len(myReadStream'[e])
  BY Counted DEF TypeInv, Fits, IInv, Types
<1>2. QED
  BY <1>1 DEF TypeInv, Fits

LEMMA WriteFits ==
  ASSUME TypeInv, NEW x \in Ends, NEW n \in Nat, WriteBytes(x, n)
  PROVE  \A e \in Ends : written'[e] <= MaxWritten[e]
BY DEF TypeInv, Fits, IInv, Types, WriteBytes

LEMMA TypeSteps ==
  ASSUME TypeInv, [Next]_vars
  PROVE  TypeInv'
<1>1. IInv' /\ Flags'
  BY Keeps, FlagSteps DEF TypeInv
<1>2. \A x \in Ends : \A n \in 0..MaxWritten[x] : n \in Nat
  BY TCPSocketAssumption DEF TCPSocketAssumption
<1>3. CASE UNCHANGED vars
  BY <1>1, <1>3, StillFits DEF TypeInv, Fits, vars, streams, kernel
<1>4. ASSUME NEW x \in Ends,
             \/ Update(x) \/ SendDone(x) \/ RecvFails(x) \/ RecvAgain(x) \/ RecvBroken(x)
             \/ DeliverFin(x)
      PROVE  TypeInv'
  <2>1. UNCHANGED <<written, told, streams, wire, inbox>>
    BY <1>4 DEF Update, SendDone, RecvFails, RecvAgain, RecvBroken, DeliverFin, kernel
  <2>2. QED
    BY <1>1, <2>1, StillFits DEF TypeInv, Fits, streams
<1>5. ASSUME NEW x \in Ends, Close(x) \/ SendKilled(x) PROVE TypeInv'
  <2>1. UNCHANGED <<written, told, streams>> /\ CloseSocket(x)
    BY <1>5 DEF Close, SendKilled
  <2>2. QED
    BY <1>1, <2>1, ClosedFits, StillFits DEF TypeInv, Fits, streams
<1>6. ASSUME NEW x \in Ends, TimeOut(x) PROVE TypeInv'
  <2>1. UNCHANGED <<written, told, streams, inbox>> /\ wire' = [wire EXCEPT ![x] = <<>>]
    BY <1>6 DEF TimeOut
  <2>2. \A e \in Ends : wire'[e] = wire[e] \/ wire'[e] = <<>>
    BY <2>1 DEF TypeInv, IInv, Types
  <2>3. QED
    BY <1>1, <2>1, <2>2, Dropped, StillFits DEF TypeInv, Fits, streams
<1>7. ASSUME NEW x \in Ends, SendAgain(x) \/ SendFails(x) \/ SendTimedOut(x) \/ SendUnlisted(x)
      PROVE  TypeInv'
  <2>1. Queue(x).offset <= SizeMax /\ Queue(x) \in QueueType
    BY <1>7, QueueFits, Fetched DEF TypeInv, SendAgain, SendFails, SendTimedOut, SendUnlisted
  <2>2. \E queue : /\ queue.offset <= SizeMax
                   /\ myWriteQueue' = [myWriteQueue EXCEPT ![x] = queue]
    <3>1. Advance(Queue(x), -1).offset <= SizeMax
      BY <2>1, OffsetFits
    <3>2. QED
      BY <1>7, <2>1, <3>1 DEF SendAgain, SendFails, SendTimedOut, SendUnlisted
  <2>3. \A e \in Ends : myWriteQueue'[e].offset <= SizeMax
    BY <2>2 DEF TypeInv, Fits, IInv, Types
  <2>4. UNCHANGED <<written, told, myReadStream, wire, inbox>>
    BY <1>7 DEF SendAgain, SendFails, SendTimedOut, SendUnlisted, kernel
  <2>5. QED
    BY <1>1, <2>3, <2>4, StillFits DEF TypeInv, Fits
<1>8. ASSUME NEW x \in Ends, NEW amount \in 1..CHUNK_SIZE, SendSome(x, amount)
      PROVE  TypeInv'
  <2>1. Queue(x) \in QueueType /\ amount \in Int
    BY <1>8, Fetched DEF TypeInv, SendSome
  <2>2. /\ myWriteQueue' = [myWriteQueue EXCEPT ![x] = Advance(Queue(x), amount)]
        /\ UNCHANGED <<written, told, myReadStream>>
    BY <1>8 DEF SendSome
  <2>3. \A e \in Ends : myWriteQueue'[e].offset <= SizeMax
    BY <2>1, <2>2, OffsetFits DEF TypeInv, Fits, IInv, Types
  <2>4. QED
    BY <1>1, <1>8, <2>2, <2>3, SendSomeFits, StillFits
<1>9. ASSUME NEW x \in Ends, Deliver(x) PROVE TypeInv'
  <2>1. UNCHANGED <<written, told, streams>>
    BY <1>9 DEF Deliver
  <2>2. QED
    BY <1>1, <1>9, <2>1, DeliverFits, StillFits DEF TypeInv, Fits, streams
<1>10. ASSUME NEW x \in Ends, RecvUnlisted(x) PROVE TypeInv'
  <2>1. <<Garbage>> \in Seq(Nat)
    BY DEF Garbage
  <2>2. /\ myReadStream' = [myReadStream EXCEPT ![x] = @ \o <<Garbage>>]
        /\ UNCHANGED <<written, told, myWriteQueue, wire, inbox>>
    BY <1>10 DEF RecvUnlisted, AppendReceived
  <2>3. QED
    BY <1>1, <2>1, <2>2, Longer DEF TypeInv, Fits
<1>11. ASSUME NEW x \in Ends, NEW n \in Nat, Write(x, n) PROVE TypeInv'
  <2>1. /\ UNCHANGED <<told, myReadStream, myWriteQueue, wire, inbox>>
        /\ \A e \in Ends : written'[e] <= MaxWritten[e]
    BY <1>11, WriteFits DEF Write, kernel
  <2>2. QED
    BY <1>1, <2>1 DEF TypeInv, Fits
<1>12. ASSUME NEW x \in Ends, NEW n \in Nat, Fire(x, n) PROVE TypeInv'
  <2>1. /\ told' = [told EXCEPT ![x] = Len(myReadStream[x])]
        /\ UNCHANGED <<myReadStream, myWriteQueue, wire, inbox>>
        /\ \A e \in Ends : written'[e] <= MaxWritten[e]
    BY <1>12, WriteFits DEF Fire, kernel
  <2>2. QED
    BY <1>1, <2>1, ToldFits DEF TypeInv, Fits
<1>13. ASSUME NEW x \in Ends, FireAndClose(x) PROVE TypeInv'
  <2>1. /\ told' = [told EXCEPT ![x] = Len(myReadStream[x])]
        /\ UNCHANGED <<streams, written>> /\ CloseSocket(x)
    BY <1>13 DEF FireAndClose
  <2>2. QED
    BY <1>1, <2>1, ClosedFits, ToldFits DEF TypeInv, Fits, streams
<1>14. ASSUME NEW x \in Ends, Owner(x) \/ Continue(x) \/ Network(x) PROVE TypeInv'
  <2>1. ASSUME NEW n \in 1..MaxWritten[x] PROVE n \in Nat
    BY TCPSocketAssumption DEF TCPSocketAssumption
  <2>2. QED
    BY <1>2, <1>4, <1>5, <1>7, <1>8, <1>9, <1>10, <1>11, <1>12, <1>13, <1>14, <1>1, <2>1,
       RecvSomeFits DEF Owner, Continue, Network
<1>15. QED
  BY <1>3, <1>4, <1>6, <1>14 DEF Next

LEMMA TypesBegin == Init => TypeInv
<1>1. SUFFICES ASSUME Init PROVE Flags /\ \A e \in Ends : Fits(e)
  BY Begins DEF TypeInv
<1>2. Flags
  BY <1>1 DEF Init, Flags
<1>3. ASSUME NEW e \in Ends PROVE Fits(e)
  <2>1. MaxWritten[e] \in Nat /\ Capacity \in Nat /\ Peer(e) \in Ends
    BY TCPSocketAssumption, Peers DEF TCPSocketAssumption
  <2>2. /\ written[e] = 0 /\ told[e] = 0 /\ myReadStream[e] = <<>> /\ wire[e] = <<>>
        /\ inbox[Peer(e)] = <<>> /\ myWriteQueue[e].offset = 0
    BY <1>1, <2>1 DEF Init, NoQueue
  <2>3. QED
    BY <2>1, <2>2 DEF Fits, SizeMax
<1>4. QED
  BY <1>2, <1>3

\* The offset of the queue stays a size_t, what is told has been received, the kernel
\* holds no more than it can and takes no more than was written: for every platform,
\* every set of errors and either end closing.
THEOREM TypeCorrect == Spec => []TypeOK
<1>1. Init => TypeInv
  BY TypesBegin
<1>2. TypeInv /\ [Next]_vars => TypeInv'
  BY TypeSteps
<1>3. TypeInv => TypeOK
  <2>1. SUFFICES ASSUME TypeInv PROVE TypeOK
    OBVIOUS
  <2>2. ASSUME NEW e \in Ends
        PROVE  /\ myWriteStream[e] \in Seq(Byte) /\ myReadStream[e] \in Seq(Byte)
               /\ myWriteQueue[e].segments \in Seq(Seq(Byte))
               /\ myWriteQueue[e].offset \in 0..SizeMax
               /\ wire[e] \in Seq(Byte) /\ inbox[e] \in Seq(Byte)
               /\ written[e] \in 0..MaxWritten[e] /\ told[e] \in 0..Len(myReadStream[e])
               /\ Len(wire[e]) + Len(inbox[Peer(e)]) <= Capacity
    <3>1. Types /\ Fits(e)
      BY <2>1 DEF TypeInv, IInv
    <3>2. /\ myWriteStream[e] \in Seq(Byte) /\ myReadStream[e] \in Seq(Byte)
          /\ wire[e] \in Seq(Byte) /\ inbox[e] \in Seq(Byte)
      BY <3>1 DEF Types, Byte
    <3>3. myWriteQueue[e].segments \in Seq(Seq(Byte)) /\ myWriteQueue[e].offset \in Nat
      BY <3>1 DEF Types, Byte, QueueType, Segment
    <3>4. written[e] \in Nat /\ told[e] \in Nat /\ MaxWritten[e] \in Nat
      BY <3>1, TCPSocketAssumption DEF TCPSocketAssumption, Types
    <3>5. written[e] \in 0..MaxWritten[e]
      BY <3>1, <3>4 DEF Fits
    <3>6. told[e] \in 0..Len(myReadStream[e])
      BY <3>1, <3>2, <3>4 DEF Fits
    <3>7. myWriteQueue[e].offset \in 0..SizeMax
      BY <3>1, <3>3, SizeT DEF Fits
    <3>8. QED
      BY <3>1, <3>2, <3>3, <3>5, <3>6, <3>7 DEF Fits
  <2>3. QED
    BY <2>1, <2>2 DEF TypeInv, Flags, IInv, Types, TypeOK, Busy, Errors, Gone
<1>4. QED
  BY <1>1, <1>2, <1>3, PTL DEF Spec

-----------------------------------------------------------------------------
(* What has been announced *)

\* What HandleRecv has appended is announced before Update returns true: outside of
\* HandleRecv nothing is untold, and in it readData says so.
Announced(e) ==
  /\ pc[e] = "idle" /\ useful[e] => told[e] = Len(myReadStream[e])
  /\ pc[e] = "send" => told[e] = Len(myReadStream[e])
  /\ pc[e] = "recv" => readData[e] \/ told[e] = Len(myReadStream[e])

AnnouncedInv == TypeInv /\ \A e \in Ends : Announced(e)

LEMMA AnnouncedSteps ==
  ASSUME AnnouncedInv, TypeInv', [Next]_vars
  PROVE  AnnouncedInv'
<1>1. /\ pc \in [Ends -> Busy \cup {"idle", "killed"}] /\ readData \in [Ends -> BOOLEAN]
      /\ useful \in [Ends -> BOOLEAN]
      /\ myReadStream \in [Ends -> Seq(Nat)] /\ told \in [Ends -> Nat]
      /\ \A e \in Ends : Announced(e)
  BY DEF AnnouncedInv, TypeInv, Flags, IInv, Types
<1>2. CASE UNCHANGED vars
  BY <1>1, <1>2 DEF AnnouncedInv, Announced, vars, streams
<1>3. ASSUME NEW x \in Ends,
             \/ Owner(x) \/ SendDone(x) \/ SendAgain(x) \/ SendKilled(x) \/ SendUnlisted(x)
             \/ Network(x) \/ TimeOut(x) \/ \E amount \in 1..CHUNK_SIZE : SendSome(x, amount)
      PROVE  \A e \in Ends : Announced(e)'
  <2>1. /\ UNCHANGED <<myReadStream, told, readData, useful>>
        /\ \/ UNCHANGED pc
           \/ pc[x] = "send" /\ \E to \in {"recv", "killed"} : pc' = [pc EXCEPT ![x] = to]
    BY <1>3 DEF Owner, Write, Close, SendDone, SendAgain, SendKilled, SendUnlisted, SendSome,
       Sending, Network, Deliver, DeliverFin, TimeOut, streams, kernel
  <2>2. QED
    BY <1>1, <2>1 DEF Announced
<1>4. ASSUME NEW x \in Ends,
             Update(x) \/ SendFails(x) \/ SendTimedOut(x) \/ RecvBroken(x) \/ RecvFails(x)
      PROVE  \A e \in Ends : Announced(e)'
  <2>1. CASE Update(x)
    BY <1>1, <2>1 DEF Announced, Update, streams
  <2>2. CASE SendFails(x) \/ SendTimedOut(x) \/ RecvBroken(x) \/ RecvFails(x)
    <3>1. /\ UNCHANGED <<myReadStream, told>>
          /\ pc' = [pc EXCEPT ![x] = "idle"] /\ useful' = [useful EXCEPT ![x] = FALSE]
          /\ \A e \in Ends \ {x} : readData'[e] = readData[e]
      BY <1>1, <2>2 DEF SendFails, SendTimedOut, RecvBroken, RecvFails, Return, streams
    <3>2. QED
      BY <1>1, <3>1 DEF Announced
  <2>3. QED
    BY <1>4, <2>1, <2>2
<1>5. ASSUME NEW x \in Ends, RecvSome(x) \/ RecvUnlisted(x)
      PROVE  \A e \in Ends : Announced(e)'
  <2>1. /\ pc[x] = "recv" /\ UNCHANGED <<pc, told, useful>>
        /\ readData' = [readData EXCEPT ![x] = TRUE]
        /\ \A e \in Ends \ {x} : myReadStream'[e] = myReadStream[e]
    BY <1>1, <1>5 DEF RecvSome, RecvUnlisted, AppendReceived
  <2>2. QED
    BY <1>1, <2>1 DEF Announced
<1>6. ASSUME NEW x \in Ends, RecvAgain(x)
      PROVE  \A e \in Ends : Announced(e)'
  BY <1>1, <1>6 DEF Announced, RecvAgain, Return, streams
<1>7. ASSUME NEW x \in Ends, FireAndClose(x) \/ \E n \in 0..MaxWritten[x] : Fire(x, n)
      PROVE  \A e \in Ends : Announced(e)'
  <2>1. /\ pc' = [pc EXCEPT ![x] = "idle"] /\ useful' = [useful EXCEPT ![x] = TRUE]
        /\ told' = [told EXCEPT ![x] = Len(myReadStream[x])]
        /\ UNCHANGED <<myReadStream, readData>>
    BY <1>7 DEF Fire, FireAndClose, Return, streams
  <2>2. QED
    BY <1>1, <2>1 DEF Announced
<1>8. QED
  BY <1>2, <1>3, <1>4, <1>5, <1>6, <1>7 DEF AnnouncedInv, Next, Continue

\* As long as Update returns true, OnDataAvailable has been fired for everything in
\* the read stream (LinuxTCPSocket.cpp:184), also with errors that end the
\* connection, that the switch does not list, or that come while a callback writes
\* or closes.
THEOREM AnnouncesAll == Spec => []AnnouncedWhileUseful
<1>1. Init => AnnouncedInv
  <2>1. SUFFICES ASSUME Init PROVE \A e \in Ends : Announced(e)
    BY TypesBegin DEF AnnouncedInv
  <2>2. QED
    BY <2>1 DEF Init, Announced
<1>2. AnnouncedInv /\ [Next]_vars => AnnouncedInv'
  <2>1. AnnouncedInv /\ [Next]_vars => TypeInv'
    BY TypeSteps DEF AnnouncedInv
  <2>2. QED
    BY <2>1, AnnouncedSteps
<1>3. AnnouncedInv => AnnouncedWhileUseful
  BY DEF AnnouncedInv, Announced, AnnouncedWhileUseful
<1>4. QED
  BY <1>1, <1>2, <1>3, PTL DEF Spec

-----------------------------------------------------------------------------
(* When a connection ends in peace *)

OnlyInterrupts == Faults \subseteq {"EINTR"}

\* Who has sent the end of the connection sends nothing more, and so the end arrives
\* behind everything else; a socket that Update called useless has received all of it.
Peaceful(e) ==
  /\ sk[e] = "ok"
  /\ finSent[e] => ~mySocket[e]
  /\ finArrived[Peer(e)] => finSent[e] /\ wire[e] = <<>>
  /\ pc[e] \in Busy => useful[e]
  /\ ~useful[e] /\ mySocket[e] => finArrived[e] /\ inbox[e] = <<>>

DrainedInv == TypeInv /\ \A e \in Ends : Peaceful(e)

\* These are steps of errors that do not happen.
LEMMA NoFaults ==
  ASSUME DrainedInv, OnlyInterrupts, NEW x \in Ends
  PROVE  /\ ~SendKilled(x) /\ ~SendTimedOut(x) /\ ~SendUnlisted(x) /\ ~SendFails(x)
         /\ ~RecvUnlisted(x) /\ ~RecvBroken(x) /\ ~TimeOut(x)
<1>1. sk[x] = "ok"
  BY DEF DrainedInv, Peaceful
<1>2. QED
  BY <1>1 DEF SendKilled, SendTimedOut, SendUnlisted, SendFails, RecvUnlisted, RecvBroken,
     TimeOut, Gone, OnlyInterrupts

\* The functions, typed.
LEMMA DrainedTypes ==
  ASSUME DrainedInv
  PROVE  /\ pc \in [Ends -> Busy \cup {"idle", "killed"}] /\ useful \in [Ends -> BOOLEAN]
         /\ mySocket \in [Ends -> BOOLEAN] /\ sk \in [Ends -> Errors]
         /\ finSent \in [Ends -> BOOLEAN] /\ finArrived \in [Ends -> BOOLEAN]
         /\ wire \in [Ends -> Seq(Nat)] /\ inbox \in [Ends -> Seq(Nat)]
         /\ \A e \in Ends : Peaceful(e) /\ (pc[e] \in Busy => mySocket[e])
BY DEF DrainedInv, TypeInv, Flags, IInv, Types

\* A step inside of Update that leaves the kernel as it is.
LEMMA InUpdate ==
  ASSUME DrainedInv, NEW x \in Ends, UNCHANGED <<mySocket, kernel>>,
         pc[x] \in Busy, NEW to \in Busy, pc' = pc \/ pc' = [pc EXCEPT ![x] = to],
         UNCHANGED useful
  PROVE  \A e \in Ends : Peaceful(e)'
BY DrainedTypes DEF Peaceful, kernel

\* Closing takes nothing from the wire: without errors it only sends the end.
LEMMA Closes ==
  ASSUME DrainedInv, OnlyInterrupts, NEW x \in Ends, CloseSocket(x)
  PROVE  /\ UNCHANGED <<sk, wire, finArrived>>
         /\ mySocket' = [mySocket EXCEPT ![x] = FALSE]
         /\ finSent' = [finSent EXCEPT ![x] = TRUE]
         /\ \A e \in Ends : inbox[e] = <<>> => inbox'[e] = <<>>
BY DrainedTypes DEF CloseSocket, OnlyInterrupts

LEMMA ClosesPeacefully ==
  ASSUME DrainedInv, OnlyInterrupts, NEW x \in Ends, CloseSocket(x), pc'[x] = "idle",
         \A e \in Ends \ {x} : pc'[e] = pc[e] /\ useful'[e] = useful[e]
  PROVE  \A e \in Ends : Peaceful(e)'
<1>1. ASSUME NEW e \in Ends, e = x PROVE Peaceful(e)'
  <2>1. "idle" \notin Busy
    BY DEF Busy
  <2>2. QED
    BY <1>1, <2>1, Peers, Closes, DrainedTypes DEF Peaceful
<1>2. ASSUME NEW e \in Ends, e # x PROVE Peaceful(e)'
  <2>1. /\ mySocket'[e] = mySocket[e] /\ finSent'[e] = finSent[e]
        /\ inbox[e] = <<>> => inbox'[e] = <<>>
    BY <1>2, Closes, DrainedTypes
  <2>2. QED
    BY <1>2, <2>1, Closes, DrainedTypes, Peers DEF Peaceful
<1>3. QED
  BY <1>1, <1>2

LEMMA DrainedSteps ==
  ASSUME DrainedInv, OnlyInterrupts, TypeInv', [Next]_vars
  PROVE  DrainedInv'
<1>1. CASE UNCHANGED vars
  BY <1>1 DEF DrainedInv, Peaceful, vars, kernel
<1>2. ASSUME NEW x \in Ends, Update(x) PROVE \A e \in Ends : Peaceful(e)'
  <2>1. CASE mySocket[x]
    <3>1. pc' = [pc EXCEPT ![x] = "send"] /\ useful[x] /\ UNCHANGED <<mySocket, kernel, useful>>
      BY <1>2, <2>1 DEF Update
    <3>2. \A e \in Ends : pc'[e] \in Busy => useful[e]
      BY <3>1, DrainedTypes DEF Peaceful
    <3>3. QED
      BY <3>1, <3>2, DrainedTypes DEF Peaceful, kernel
  <2>2. CASE ~mySocket[x]
    <3>1. /\ useful' = [useful EXCEPT ![x] = FALSE] /\ pc[x] = "idle"
          /\ UNCHANGED <<mySocket, kernel, pc>>
      BY <1>2, <2>2 DEF Update
    <3>2. QED
      BY <2>2, <3>1, DrainedTypes DEF Peaceful, kernel, Busy
  <2>3. QED
    BY <2>1, <2>2
<1>3. ASSUME NEW x \in Ends, SendDone(x) \/ SendAgain(x) PROVE \A e \in Ends : Peaceful(e)'
  <2>1. /\ UNCHANGED <<mySocket, kernel, useful>> /\ pc[x] \in Busy
        /\ pc' = [pc EXCEPT ![x] = "recv"]
    BY <1>3 DEF SendDone, SendAgain, Sending, Busy
  <2>2. "recv" \in Busy
    BY DEF Busy
  <2>3. QED
    BY <2>1, <2>2, InUpdate
<1>4. ASSUME NEW x \in Ends, NEW amount \in 1..CHUNK_SIZE, SendSome(x, amount)
      PROVE  \A e \in Ends : Peaceful(e)'
  <2>1. /\ pc[x] \in Busy /\ UNCHANGED <<mySocket, useful, inbox, finSent, finArrived, sk>>
        /\ pc' = pc \/ pc' = [pc EXCEPT ![x] = "recv"]
        /\ \A e \in Ends \ {x} : wire'[e] = wire[e]
    BY <1>4, DrainedTypes DEF SendSome, Sending, Busy
  <2>2. ~finSent[x] /\ ~finArrived[Peer(x)]
    BY <2>1, DrainedTypes DEF Peaceful
  <2>3. ASSUME NEW e \in Ends PROVE Peaceful(e)'
    <3>1. pc'[e] \in Busy => pc[e] \in Busy
      BY <2>1, DrainedTypes
    <3>2. finArrived[Peer(e)] => wire'[e] = wire[e]
      BY <2>1, <2>2
    <3>3. QED
      BY <2>1, <3>1, <3>2, DrainedTypes DEF Peaceful
  <2>4. QED
    BY <2>3
<1>5. ASSUME NEW x \in Ends, RecvSome(x) PROVE \A e \in Ends : Peaceful(e)'
  <2>1. /\ pc[x] = "recv"
        /\ UNCHANGED <<mySocket, pc, useful, wire, finSent, finArrived, sk>>
        /\ \A e \in Ends \ {x} : inbox'[e] = inbox[e]
    BY <1>5, DrainedTypes DEF RecvSome
  <2>2. useful[x]
    BY <2>1, DrainedTypes DEF Peaceful, Busy
  <2>3. QED
    BY <2>1, <2>2, DrainedTypes DEF Peaceful
<1>6. ASSUME NEW x \in Ends, RecvFails(x) PROVE \A e \in Ends : Peaceful(e)'
  <2>1. inbox[x] = <<>> /\ finArrived[x]
    BY <1>6, DrainedTypes DEF RecvFails, AtEnd, Gone, OnlyInterrupts, Peaceful
  <2>2. QED
    BY <1>6, <2>1, DrainedTypes DEF RecvFails, Return, Peaceful, kernel, Busy
<1>7. ASSUME NEW x \in Ends, RecvAgain(x) PROVE \A e \in Ends : Peaceful(e)'
  <2>1. useful[x] /\ pc[x] \in Busy /\ useful' = useful
    <3>1. pc[x] \in Busy
      BY <1>7 DEF RecvAgain, Busy
    <3>2. useful[x]
      BY <3>1, DrainedTypes DEF Peaceful
    <3>3. useful' = useful
      BY ZenonT(40), <1>7, <3>2, DrainedTypes DEF RecvAgain, Return
    <3>4. QED
      BY <3>1, <3>2, <3>3
  <2>2. \A e \in Ends : pc'[e] \in Busy => pc[e] \in Busy
    BY <1>7, <2>1, DrainedTypes DEF RecvAgain, Return
  <2>3. QED
    BY <1>7, <2>1, <2>2, DrainedTypes DEF RecvAgain, Peaceful, kernel
<1>8. ASSUME NEW x \in Ends, NEW n \in Nat, Fire(x, n) PROVE \A e \in Ends : Peaceful(e)'
  BY <1>8, DrainedTypes DEF Fire, Return, Peaceful, kernel, Busy
<1>9. ASSUME NEW x \in Ends, FireAndClose(x) PROVE \A e \in Ends : Peaceful(e)'
  <2>1. /\ CloseSocket(x) /\ pc' = [pc EXCEPT ![x] = "idle"]
        /\ useful' = [useful EXCEPT ![x] = TRUE]
    BY <1>9 DEF FireAndClose, Return
  <2>2. \A e \in Ends \ {x} : pc'[e] = pc[e] /\ useful'[e] = useful[e]
    BY <2>1, DrainedTypes
  <2>3. pc'[x] = "idle"
    BY <2>1, DrainedTypes
  <2>4. QED
    BY <2>1, <2>2, <2>3, ClosesPeacefully
<1>10. ASSUME NEW x \in Ends, Close(x) PROVE \A e \in Ends : Peaceful(e)'
  <2>1. CloseSocket(x) /\ UNCHANGED <<pc, useful>> /\ pc[x] = "idle"
    BY <1>10 DEF Close
  <2>2. QED
    BY <2>1, ClosesPeacefully
<1>11. ASSUME NEW x \in Ends, NEW n \in Nat, Write(x, n) PROVE \A e \in Ends : Peaceful(e)'
  BY <1>11, DrainedTypes DEF Write, Peaceful, kernel
<1>12. ASSUME NEW x \in Ends, DeliverFin(x) PROVE \A e \in Ends : Peaceful(e)'
  BY <1>12, Peers, DrainedTypes DEF DeliverFin, Peaceful
<1>13. ASSUME NEW x \in Ends, Deliver(x) PROVE \A e \in Ends : Peaceful(e)'
  <2>1. /\ wire[x] # <<>> /\ UNCHANGED <<mySocket, pc, useful, finSent, finArrived>>
        /\ \A e \in Ends \ {x} : wire'[e] = wire[e]
        /\ \A e \in Ends \ {Peer(x)} : inbox'[e] = inbox[e]
    BY <1>13, DrainedTypes DEF Deliver
  <2>2. sk' = sk
    BY <1>13, DrainedTypes DEF Deliver, OnlyInterrupts
  <2>3. ~finArrived[Peer(x)]
    BY <2>1, DrainedTypes DEF Peaceful
  <2>4. ASSUME NEW e \in Ends PROVE Peaceful(e)'
    <3>1. e = x \/ e = Peer(x)
      BY Peers
    <3>2. QED
      BY SMTT(30), <2>1, <2>2, <2>3, <3>1, Peers, DrainedTypes DEF Peaceful
  <2>5. QED
    BY <2>4
<1>14. ASSUME NEW x \in Ends, Owner(x) \/ Continue(x) \/ Network(x)
       PROVE  \A e \in Ends : Peaceful(e)'
  <2>1. (\A n \in 1..MaxWritten[x] : n \in Nat) /\ (\A n \in 0..MaxWritten[x] : n \in Nat)
    BY TCPSocketAssumption DEF TCPSocketAssumption
  <2>2. QED
    BY <1>3, <1>4, <1>5, <1>6, <1>7, <1>8, <1>9, <1>10, <1>11, <1>12, <1>13, <1>14, <2>1,
       NoFaults DEF Owner, Continue, Network
<1>15. QED
  BY <1>1, <1>2, <1>14, NoFaults DEF Next, DrainedInv

\* When Update calls a socket useless because its peer has closed, nothing that
\* arrived is left unread in the kernel: HandleRecv takes the end of the connection
\* for what it is only behind everything that was sent before it.
THEOREM EndsDrained ==
  ASSUME OnlyInterrupts
  PROVE  Spec => []UselessOnlyWhenDrained
<1>1. Init => DrainedInv
  <2>1. SUFFICES ASSUME Init PROVE \A e \in Ends : Peaceful(e)
    BY TypesBegin DEF DrainedInv
  <2>2. QED
    BY <2>1, Peers DEF Init, Peaceful
<1>2. DrainedInv /\ [Next]_vars => DrainedInv'
  <2>1. DrainedInv /\ [Next]_vars => TypeInv'
    BY TypeSteps DEF DrainedInv
  <2>2. QED
    BY <2>1, DrainedSteps
<1>3. DrainedInv => \A e \in Ends : pc[e] = "idle" /\ ~useful[e] /\ mySocket[e] => inbox[e] = <<>>
  BY DEF DrainedInv, Peaceful
<1>4. Spec => [](\A e \in Ends : pc[e] = "idle" /\ ~useful[e] /\ mySocket[e] => inbox[e] = <<>>)
  BY <1>1, <1>2, <1>3, PTL DEF Spec
<1>5. QED
  BY <1>4, TypeCorrect, PTL DEF UselessOnlyWhenDrained
================================================================================
