---------------------------- MODULE StreamsProofs ----------------------------
(***************************************************************************)
(* Proofs about Streams, for every size of a segment and every number of   *)
(* bytes: first about ReadStream, then about WriteStream, then about the   *)
(* two of them.                                                            *)
(***************************************************************************)
EXTENDS Streams, SequenceTheorems, TLAPS

-----------------------------------------------------------------------------
(* What Attach does to the list *)

\* Products of naturals are naturals and grow with their factors.
LEMMA Products ==
  ASSUME NEW c \in Nat
  PROVE  /\ \A a \in Nat : a * c \in Nat
         /\ \A a \in Nat : (a + 1) * c = a * c + c
         /\ \A a, b \in Nat : a <= b => a * c <= b * c
<1>1. \A a \in Nat : a * c \in Nat
  OBVIOUS
<1>2. \A a \in Nat : (a + 1) * c = a * c + c
  OBVIOUS
<1>3. \A a, b \in Nat : a <= b => a * c <= b * c
  <2> SUFFICES ASSUME NEW a \in Nat, NEW b \in Nat, a <= b
               PROVE  a * c <= b * c
    OBVIOUS
  <2>1. (b - a) * c \in Nat
    OBVIOUS
  <2>2. b * c = a * c + (b - a) * c
    OBVIOUS
  <2> QED BY <2>1, <2>2
<1> QED BY <1>1, <1>2, <1>3

\* The segments of NewList are segments.
LEMMA NewListType ==
  ASSUME TypeOK, NEW k \in Nat, NEW n \in 1..CHUNK_SIZE
  PROVE  /\ Total \in Nat
         /\ NewList(k, n) \in Seq(Segment)
         /\ Len(NewList(k, n)) = k + 1
         /\ \A j \in 1..(k + 1) : NewList(k, n)[j] =
              [first  |-> Total + (j - 1) * CHUNK_SIZE,
               mySize |-> IF j = k + 1 THEN n ELSE CHUNK_SIZE,
               myNext |-> IF j = k + 1 THEN NULL ELSE Len(segments) + j + 1]
<1>1. Total \in Nat
  <2>1. segments \in Seq(Segment)
    BY DEF TypeOK
  <2>2. CASE segments # <<>>
    <3>1. Len(segments) \in 1..Len(segments)
      BY <2>1, <2>2
    <3>2. segments[Len(segments)] \in Segment
      BY <2>1, <3>1
    <3> QED BY <2>2, <3>2 DEF Segment, Total
  <2> QED BY <2>2 DEF Total
<1>2. \A j \in 1..(k + 1) : (j - 1) * CHUNK_SIZE \in Nat
  BY ReadStreamAssumption, Products
<1>3. \A j \in 1..(k + 1) :
        [first  |-> Total + (j - 1) * CHUNK_SIZE,
         mySize |-> IF j = k + 1 THEN n ELSE CHUNK_SIZE,
         myNext |-> IF j = k + 1 THEN NULL ELSE Len(segments) + j + 1] \in Segment
  <2> TAKE j \in 1..(k + 1)
  <2>1. Total + (j - 1) * CHUNK_SIZE \in Nat
    BY <1>1, <1>2
  <2>2. Len(segments) + j + 1 \in Nat
    BY DEF TypeOK
  <2>3. CHUNK_SIZE \in 1..CHUNK_SIZE
    BY ReadStreamAssumption
  <2> QED BY <2>1, <2>2, <2>3 DEF Segment, NULL
<1>4. NewList(k, n) \in [1..(k + 1) -> Segment]
  BY <1>3 DEF NewList
<1>5. NewList(k, n) \in Seq(Segment) /\ Len(NewList(k, n)) = k + 1
  BY <1>4
<1> QED BY <1>1, <1>5 DEF NewList

\* The list after Attach, segment by segment.
LEMMA AttachSegments ==
  ASSUME TypeOK, Pointers, myTail = Len(segments), NEW k \in Nat, NEW n \in 1..CHUNK_SIZE,
         Attach(k, n)
  PROVE  /\ segments' \in Seq(Segment)
         /\ Len(segments') = Len(segments) + k + 1
         /\ \A i \in 1..Len(segments) :
              /\ segments'[i].first = segments[i].first
              /\ segments'[i].mySize = segments[i].mySize
              /\ segments'[i].myNext = IF i < Len(segments) THEN segments[i].myNext
                                       ELSE Len(segments) + 1
         /\ \A j \in 1..(k + 1) :
              segments'[Len(segments) + j] =
                [first  |-> Total + (j - 1) * CHUNK_SIZE,
                 mySize |-> IF j = k + 1 THEN n ELSE CHUNK_SIZE,
                 myNext |-> IF j = k + 1 THEN NULL ELSE Len(segments) + j + 1]
<1> DEFINE old == IF myTail = NULL THEN segments
                  ELSE [segments EXCEPT ![myTail].myNext = Len(segments) + 1]
           new == NewList(k, n)
<1>1. /\ old \in Seq(Segment)
      /\ Len(old) = Len(segments)
      /\ \A i \in 1..Len(segments) :
           /\ old[i].first = segments[i].first
           /\ old[i].mySize = segments[i].mySize
           /\ old[i].myNext = IF i < Len(segments) THEN segments[i].myNext
                              ELSE Len(segments) + 1
  <2>1. CASE myTail = NULL
    <3>1. segments \in Seq(Segment) /\ Len(segments) = 0
      BY <2>1, myTail = Len(segments) DEF TypeOK, NULL
    <3>2. old = segments
      BY <2>1
    <3> HIDE DEF old
    <3> QED BY <3>1, <3>2
  <2>2. CASE myTail # NULL
    <3>1. myTail \in 1..Len(segments) /\ segments \in Seq(Segment)
      BY <2>2 DEF TypeOK, Segment, NULL, Pointer
    <3>2. old = [segments EXCEPT ![myTail] = [@ EXCEPT !.myNext = Len(segments) + 1]]
      BY <2>2
    <3>3. [segments[myTail] EXCEPT !.myNext = Len(segments) + 1] \in Segment
      <4>1. segments[myTail] \in Segment /\ Len(segments) + 1 \in Nat
        BY <3>1
      <4> QED BY <4>1 DEF Segment
    <3>4. old \in Seq(Segment) /\ Len(old) = Len(segments)
      BY <3>1, <3>2, <3>3
    <3>5. \A i \in 1..Len(segments) :
           old[i] = IF i = myTail THEN [segments[i] EXCEPT !.myNext = Len(segments) + 1]
                    ELSE segments[i]
      BY <3>1, <3>2
    <3>6. \A i \in 1..Len(segments) : segments[i] \in Segment
      BY <3>1
    <3>7. \A i \in 1..Len(segments) :
           /\ old[i].first = segments[i].first
           /\ old[i].mySize = segments[i].mySize
           /\ old[i].myNext = IF i = myTail THEN Len(segments) + 1 ELSE segments[i].myNext
      BY <3>5, <3>6 DEF Segment
    <3>8. \A i \in 1..Len(segments) : i = myTail <=> ~(i < Len(segments))
      BY <3>1, myTail = Len(segments)
    <3> HIDE DEF old
    <3> QED BY <3>4, <3>7, <3>8
  <2> QED BY <2>1, <2>2
<1>2. /\ new \in Seq(Segment)
      /\ Len(new) = k + 1
      /\ \A j \in 1..(k + 1) : new[j] =
              [first  |-> Total + (j - 1) * CHUNK_SIZE,
               mySize |-> IF j = k + 1 THEN n ELSE CHUNK_SIZE,
               myNext |-> IF j = k + 1 THEN NULL ELSE Len(segments) + j + 1]
  BY NewListType
<1>3. segments' = old \o new
  BY DEF Attach
<1> HIDE DEF old, new
<1>4. /\ segments' \in Seq(Segment)
      /\ Len(segments') = Len(old) + Len(new)
      /\ \A i \in 1..Len(old) : segments'[i] = old[i]
      /\ \A j \in 1..Len(new) : segments'[Len(old) + j] = new[j]
  <2> SUFFICES ASSUME NEW a \in Seq(Segment), NEW b \in Seq(Segment)
               PROVE  /\ a \o b \in Seq(Segment)
                      /\ Len(a \o b) = Len(a) + Len(b)
                      /\ \A i \in 1..Len(a) : (a \o b)[i] = a[i]
                      /\ \A j \in 1..Len(b) : (a \o b)[Len(a) + j] = b[j]
    BY <1>1, <1>2, <1>3
  <2> QED BY ConcatProperties
<1>5. Len(segments) \in Nat
  BY DEF TypeOK
<1>6. /\ segments' \in Seq(Segment)
      /\ Len(segments') = Len(segments) + k + 1
      /\ \A i \in 1..Len(segments) : segments'[i] = old[i]
      /\ \A j \in 1..(k + 1) : segments'[Len(segments) + j] = new[j]
  BY <1>1, <1>2, <1>4, <1>5
<1> QED BY <1>1, <1>2, <1>6

\* Where the list ends.
LEMMA TotalIsEnd ==
  ASSUME TypeOK, Chain
  PROVE  /\ Total \in Nat
         /\ segments = <<>> => Total = 0
         /\ segments # <<>> => /\ Len(segments) \in 1..Len(segments)
                              /\ Total = segments[Len(segments)].first
                                          + segments[Len(segments)].mySize
         /\ \A i \in 1..Len(segments) : /\ segments[i] \in Segment
                                       /\ segments[i].first + segments[i].mySize <= Total
<1>1. segments \in Seq(Segment)
  BY DEF TypeOK
<1>2. \A i \in 1..Len(segments) : segments[i] \in Segment
  BY <1>1
<1>3. segments # <<>> => Len(segments) \in 1..Len(segments)
  BY <1>1
<1>4. \A i \in 1..Len(segments) : segments[i].first + segments[i].mySize <= Total
  <2> TAKE i \in 1..Len(segments)
  <2>1. segments # <<>> /\ Total = segments[Len(segments)].first + segments[Len(segments)].mySize
    BY <1>1 DEF Total
  <2>2. CASE i = Len(segments)
    BY <2>1, <2>2, <1>2, <1>3 DEF Segment
  <2>3. CASE i < Len(segments)
    <3>1. segments[i].first + segments[i].mySize <= segments[Len(segments)].first
      BY <2>1, <2>3, <1>3 DEF Chain
    <3>2. segments[i] \in Segment /\ segments[Len(segments)] \in Segment
      BY <1>2, <1>3, <2>1
    <3> QED BY <3>1, <3>2, <2>1 DEF Segment
  <2> QED BY <2>2, <2>3, <1>1
<1>5. Total \in Nat
  BY <1>2, <1>3 DEF Total, Segment
<1> QED BY <1>2, <1>3, <1>4, <1>5 DEF Total

\* Attach keeps the chain and adds its bytes at the end.
LEMMA AttachChain ==
  ASSUME TypeOK, Chain, Pointers, myTail = Len(segments),
         NEW k \in Nat, NEW n \in 1..CHUNK_SIZE, Attach(k, n)
  PROVE  /\ Chain'
         /\ segments' # <<>>
         /\ Total' = Total + k * CHUNK_SIZE + n
<1> DEFINE len == Len(segments)
           first(j) == Total + (j - 1) * CHUNK_SIZE
           size(j) == IF j = k + 1 THEN n ELSE CHUNK_SIZE
<1>1. len \in Nat /\ CHUNK_SIZE \in Nat /\ CHUNK_SIZE >= 1 /\ Total \in Nat
  BY ReadStreamAssumption, TotalIsEnd DEF TypeOK
<1>2. /\ segments' \in Seq(Segment)
      /\ Len(segments') = len + k + 1
      /\ \A i \in 1..len :
           /\ segments'[i].first = segments[i].first
           /\ segments'[i].mySize = segments[i].mySize
           /\ segments'[i].myNext = IF i < len THEN segments[i].myNext ELSE len + 1
      /\ \A j \in 1..(k + 1) :
           /\ segments'[len + j].first = first(j)
           /\ segments'[len + j].mySize = size(j)
           /\ segments'[len + j].myNext = IF j = k + 1 THEN NULL ELSE len + j + 1
  <2>1. \A j \in 1..(k + 1) :
          segments'[len + j] = [first  |-> first(j), mySize |-> size(j),
                                myNext |-> IF j = k + 1 THEN NULL ELSE len + j + 1]
    BY AttachSegments
  <2>2. /\ segments' \in Seq(Segment)
        /\ Len(segments') = len + k + 1
        /\ \A i \in 1..len :
             /\ segments'[i].first = segments[i].first
             /\ segments'[i].mySize = segments[i].mySize
             /\ segments'[i].myNext = IF i < len THEN segments[i].myNext ELSE len + 1
    BY AttachSegments
  <2> HIDE DEF first, size, len
  <2>3. \A j \in 1..(k + 1) :
           /\ segments'[len + j].first = first(j)
           /\ segments'[len + j].mySize = size(j)
           /\ segments'[len + j].myNext = IF j = k + 1 THEN NULL ELSE len + j + 1
    <3> TAKE j \in 1..(k + 1)
    <3> DEFINE here == segments'[len + j]
               next == IF j = k + 1 THEN NULL ELSE len + j + 1
    <3>1. here = [first |-> first(j), mySize |-> size(j), myNext |-> next]
      BY <2>1
    <3> HIDE DEF here, next
    <3>2. here.first = first(j) /\ here.mySize = size(j) /\ here.myNext = next
      BY <3>1
    <3> QED BY <3>2 DEF here, next
  <2> QED BY <2>2, <2>3
<1>3. /\ \A j \in 1..(k + 1) : first(j) \in Nat /\ size(j) \in 1..CHUNK_SIZE
      /\ \A j \in 1..k : first(j + 1) = first(j) + CHUNK_SIZE /\ size(j) = CHUNK_SIZE
      /\ \A i, j \in 1..(k + 1) : i < j => first(i) + size(i) <= first(j)
      /\ first(1) = Total
      /\ first(k + 1) + size(k + 1) = Total + k * CHUNK_SIZE + n
  <2>1. /\ \A a \in Nat : a * CHUNK_SIZE \in Nat
        /\ \A a \in Nat : (a + 1) * CHUNK_SIZE = a * CHUNK_SIZE + CHUNK_SIZE
        /\ \A a, b \in Nat : a <= b => a * CHUNK_SIZE <= b * CHUNK_SIZE
    BY <1>1, Products
  <2>2. \A j \in 1..(k + 1) : first(j) \in Nat /\ size(j) \in 1..CHUNK_SIZE
    BY <1>1, <2>1
  <2>3. \A j \in 1..k : first(j + 1) = first(j) + CHUNK_SIZE /\ size(j) = CHUNK_SIZE
    <3> TAKE j \in 1..k
    <3>1. j - 1 \in Nat /\ (j + 1) - 1 = (j - 1) + 1
      OBVIOUS
    <3>2. ((j - 1) + 1) * CHUNK_SIZE = (j - 1) * CHUNK_SIZE + CHUNK_SIZE
      BY <3>1, <2>1
    <3>3. (j - 1) * CHUNK_SIZE \in Nat
      BY <3>1, <2>1
    <3>4. first(j + 1) = Total + ((j - 1) + 1) * CHUNK_SIZE
      BY <3>1
    <3> QED BY <3>1, <3>2, <3>3, <3>4, <1>1
  <2>4. \A i, j \in 1..(k + 1) : i < j => first(i) + size(i) <= first(j)
    <3> SUFFICES ASSUME NEW i \in 1..(k + 1), NEW j \in 1..(k + 1), i < j
                 PROVE  first(i) + size(i) <= first(j)
      OBVIOUS
    <3>1. i \in 1..k /\ i \in Nat /\ j - 1 \in Nat /\ i <= j - 1
      OBVIOUS
    <3>2. i * CHUNK_SIZE <= (j - 1) * CHUNK_SIZE
      BY <3>1, <2>1
    <3>3. first(i + 1) = Total + i * CHUNK_SIZE
      BY <3>1
    <3>4. first(i) + size(i) = first(i + 1)
      BY <3>1, <2>3
    <3>5. i * CHUNK_SIZE \in Nat /\ (j - 1) * CHUNK_SIZE \in Nat
      BY <3>1, <2>1
    <3> QED BY <3>2, <3>3, <3>4, <3>5, <1>1
  <2>5. first(1) = Total
    BY <1>1, 0 * CHUNK_SIZE = 0
  <2>6. first(k + 1) + size(k + 1) = Total + k * CHUNK_SIZE + n
    OBVIOUS
  <2> QED BY <2>2, <2>3, <2>4, <2>5, <2>6
<1> HIDE DEF first, size
<1>4. \A i \in 1..(len + k + 1) : i \in 1..len \/ \E j \in 1..(k + 1) : i = len + j
  <2> TAKE i \in 1..(len + k + 1)
  <2>1. CASE i > len
    <3>1. i - len \in 1..(k + 1) /\ i = len + (i - len)
      BY <2>1, <1>1
    <3> QED BY <3>1
  <2> QED BY <2>1, <1>1
<1>5. /\ segments = <<>> => len = 0 /\ Total = 0
      /\ len > 0 => Total = segments[len].first + segments[len].mySize
      /\ \A i \in 1..len : segments[i] \in Segment /\ segments[i].first + segments[i].mySize <= Total
  BY TotalIsEnd
<1>6. ASSUME NEW i \in 1..Len(segments')
      PROVE  segments'[i].myNext = IF i < Len(segments') THEN i + 1 ELSE NULL
  <2>1. CASE i \in 1..len
    BY <2>1, <1>1, <1>2 DEF Chain
  <2>2. CASE \E j \in 1..(k + 1) : i = len + j
    <3>1. PICK j \in 1..(k + 1) : i = len + j
      BY <2>2
    <3>2. segments'[i].myNext = IF j = k + 1 THEN NULL ELSE len + j + 1
      BY <3>1, <1>2
    <3>3. (i < Len(segments') <=> j # k + 1) /\ i + 1 = len + j + 1
      BY <3>1, <1>1, <1>2
    <3> QED BY <3>2, <3>3
  <2> QED BY <1>2, <1>4, <2>1, <2>2
<1>7. segments'[1].first = 0
  <2>1. CASE len = 0
    <3>1. segments = <<>> /\ Total = 0
      BY <2>1, <1>5 DEF TypeOK
    <3>2. segments'[len + 1].first = first(1)
      BY <1>2, 1 \in 1..(k + 1)
    <3> QED BY <2>1, <3>1, <3>2, <1>3
  <2>2. CASE len > 0
    <3>1. segments # <<>> /\ 1 \in 1..len
      BY <2>2, <1>1
    <3> QED BY <3>1, <1>2 DEF Chain
  <2> QED BY <2>1, <2>2, <1>1
<1>8. ASSUME NEW i \in 1..(Len(segments') - 1)
      PROVE  segments'[i + 1].first = segments'[i].first + segments'[i].mySize
  <2>1. CASE i \in 1..len /\ i # len
    <3>1. i \in 1..(len - 1) /\ i + 1 \in 1..len
      BY <2>1, <1>1
    <3> QED BY <3>1, <2>1, <1>2 DEF Chain
  <2>2. CASE i = len /\ len > 0
    <3>1. segments'[len + 1].first = Total
      BY <1>2, <1>3, 1 \in 1..(k + 1)
    <3>2. len \in 1..len
      BY <2>2, <1>1
    <3> QED BY <3>1, <3>2, <2>2, <1>2, <1>5
  <2>3. CASE i > len
    <3>1. PICK j \in 1..k : i = len + j
      <4>1. i - len \in 1..k /\ i = len + (i - len)
        BY <2>3, <1>1, <1>2
      <4> QED BY <4>1
    <3>2. j \in 1..(k + 1) /\ j + 1 \in 1..(k + 1) /\ i + 1 = len + (j + 1)
      BY <3>1, <1>1
    <3>3. segments'[i + 1].first = first(j + 1)
      BY <3>2, <1>2
    <3>4. segments'[i].first = first(j) /\ segments'[i].mySize = size(j)
      BY <3>1, <3>2, <1>2
    <3> QED BY <3>1, <3>3, <3>4, <1>3
  <2> QED BY <2>1, <2>2, <2>3, <1>1, <1>2
<1>9. ASSUME NEW i \in 1..Len(segments'), NEW j \in 1..Len(segments'), i < j
      PROVE  segments'[i].first + segments'[i].mySize <= segments'[j].first
  <2>1. CASE j \in 1..len
    <3>1. i \in 1..len
      BY <2>1, <1>1, <1>9
    <3> QED BY <3>1, <2>1, <1>2, <1>9 DEF Chain
  <2>2. CASE i \in 1..len /\ \E q \in 1..(k + 1) : j = len + q
    <3>1. PICK q \in 1..(k + 1) : j = len + q
      BY <2>2
    <3>2. Total <= first(q)
      <4>1. 1 \in 1..(k + 1) /\ first(1) = Total /\ first(1) \in Nat /\ size(1) \in Nat
        BY <1>3
      <4>2. CASE q = 1
        BY <4>1, <4>2
      <4>3. CASE q # 1
        <5>0. 1 < q
          BY <4>3
        <5>1. first(1) + size(1) <= first(q) /\ first(q) \in Nat
          BY <5>0, <4>1, <1>3
        <5> QED BY <5>1, <4>1
      <4> QED BY <4>2, <4>3
    <3>3. segments[i].first + segments[i].mySize <= Total /\ segments[i] \in Segment
      BY <2>2, <1>5
    <3>4. first(q) \in Nat
      BY <1>3
    <3>5. /\ segments'[j].first = first(q)
          /\ segments'[i].first = segments[i].first /\ segments'[i].mySize = segments[i].mySize
      BY <3>1, <2>2, <1>2
    <3> QED BY SMTT(30), <3>2, <3>3, <3>4, <3>5, <1>1 DEF Segment
  <2>3. CASE (\E p \in 1..(k + 1) : i = len + p) /\ (\E q \in 1..(k + 1) : j = len + q)
    <3>1. PICK p \in 1..(k + 1), q \in 1..(k + 1) : i = len + p /\ j = len + q
      BY <2>3
    <3>2. p < q
      BY <3>1, <1>1, <1>9
    <3> QED BY <3>1, <3>2, <1>2, <1>3
  <2>4. CASE j \in 1..len \/ \E q \in 1..(k + 1) : j = len + q
    BY <2>1, <2>2, <2>3, <2>4, <1>2, <1>4
  <2> QED BY <2>4, <1>2, <1>4
<1>10. Chain'
  BY <1>6, <1>7, <1>8, <1>9 DEF Chain
<1>11. segments' # <<>> /\ Total' = Total + k * CHUNK_SIZE + n
  <2>1. segments' # <<>> /\ Len(segments') = len + (k + 1)
    BY <1>1, <1>2
  <2>2. segments'[len + (k + 1)].first = first(k + 1) /\ segments'[len + (k + 1)].mySize = size(k + 1)
    BY <1>2, k + 1 \in 1..(k + 1)
  <2> QED BY <2>1, <2>2, <1>3 DEF Total
<1> QED BY <1>10, <1>11

\* A position in the old list is the same position in the new one.
LEMMA PosKept ==
  ASSUME TypeOK, NEW o \in Offset, o.mySegment \in 1..Len(segments),
         segments'[o.mySegment].first = segments[o.mySegment].first
  PROVE  segments'[o.mySegment].first + o.myOffset = Pos(o)
BY DEF Pos, NULL, Offset, Pointer

\* AppendData and FillSegment: everything Attach disturbs.
LEMMA AttachInvariant ==
  ASSUME IInv, pc \in {"idle", "fill"}, pc' = "walk", op' \in {"Append", "AppendAll"},
         UNCHANGED <<aSize, left, aOutEnd, aData, result, filled>>,
         source' \in [left : 0..MaxBytes, eof : BOOLEAN, bad : BOOLEAN],
         source'.eof => source'.left = 0,
         NEW k \in Nat, NEW n \in 1..CHUNK_SIZE, Attach(k, n),
         op' = "AppendAll" => /\ Total + k * CHUNK_SIZE + n + source'.left <= MaxBytes
                              /\ filled = "none"
  PROVE  /\ IInv'
         /\ Total' = Total + k * CHUNK_SIZE + n
         /\ Pos(myReadHead)' = Pos(myReadHead)
         /\ Pos(myCheckpoint)' = Pos(myCheckpoint)
<1> USE DEF IInv
<1>1. /\ TypeOK /\ Chain /\ Pointers /\ Offsets
      /\ myTail = Len(segments) /\ segments \in Seq(Segment) /\ Len(segments) \in Nat
      /\ k * CHUNK_SIZE \in Nat
  BY Products, ReadStreamAssumption DEF Pointers, TypeOK
<1>2. /\ segments' \in Seq(Segment)
      /\ Len(segments') = Len(segments) + k + 1
      /\ \A i \in 1..Len(segments) : /\ segments'[i].first = segments[i].first
                                    /\ segments'[i].mySize = segments[i].mySize
  BY <1>1, AttachSegments
<1>3. Chain' /\ segments' # <<>> /\ Total' = Total + k * CHUNK_SIZE + n
  BY <1>1, AttachChain
<1>4. ASSUME segments # <<>>
      PROVE  /\ Pointers' /\ Offsets'
             /\ Pos(myReadHead)' = Pos(myReadHead) /\ Pos(myCheckpoint)' = Pos(myCheckpoint)
             /\ myReadHead' \in Offset' /\ myCheckpoint' \in Offset' /\ myTail' \in Pointer'
  <2>1. myTail # NULL /\ myTail \in 1..Len(segments)
    BY <1>1, <1>4 DEF Pointers, NULL
  <2>2. UNCHANGED <<myTail, myReadHead, myCheckpoint>>
    BY <2>1 DEF Attach
  <2>3. myReadHead.mySegment \in 1..Len(segments) /\ myCheckpoint.mySegment \in 1..Len(segments)
    BY <1>1, <1>4 DEF TypeOK, Pointers, Offset, Pointer, NULL
  <2>4. Pointers'
    BY <1>1, <1>2, <1>3, <1>4, <2>1, <2>2, <2>3 DEF Pointers
  <2>5. Offsets'
    BY <1>1, <1>2, <2>2, <2>3 DEF Offsets, Inside, NULL
  <2>6. Pos(myReadHead)' = Pos(myReadHead) /\ Pos(myCheckpoint)' = Pos(myCheckpoint)
    BY <1>1, <1>2, <2>2, <2>3 DEF Pos, NULL
  <2>7. myReadHead' \in Offset' /\ myCheckpoint' \in Offset' /\ myTail' \in Pointer'
    BY SMTT(30), <1>1, <1>2, <2>2 DEF TypeOK, Offset, Pointer
  <2> QED BY <2>4, <2>5, <2>6, <2>7
<1>5. ASSUME segments = <<>>
      PROVE  /\ Pointers' /\ Offsets'
             /\ Pos(myReadHead)' = Pos(myReadHead) /\ Pos(myCheckpoint)' = Pos(myCheckpoint)
             /\ myReadHead' \in Offset' /\ myCheckpoint' \in Offset' /\ myTail' \in Pointer'
  <2>1. myTail = NULL /\ Len(segments) = 0
    BY <1>1, <1>5 DEF Pointers
  <2>2. /\ myTail' = 1
        /\ myReadHead' = [mySegment |-> 1, myOffset |-> 0]
        /\ myCheckpoint' = [mySegment |-> 1, myOffset |-> 0]
    BY <2>1 DEF Attach
  <2>3. Len(segments') \in Nat /\ 1 <= Len(segments') /\ segments'[1] \in Segment
    BY <1>1, <1>2, <2>1
  <2>4. Pointers'
    BY <1>3, <2>2, <2>3 DEF Pointers, NULL
  <2>5. Offsets'
    BY <2>2, <2>3 DEF Offsets, Inside, Segment, NULL
  <2>6. Pos(myReadHead)' = Pos(myReadHead) /\ Pos(myCheckpoint)' = Pos(myCheckpoint)
    BY <1>1, <1>3, <1>5, <2>2 DEF Pos, Pointers, Chain, NULL
  <2>7. myReadHead' \in Offset' /\ myCheckpoint' \in Offset' /\ myTail' \in Pointer'
    BY <2>2, <2>3, ReadStreamAssumption DEF Offset, Pointer
  <2> QED BY <2>4, <2>5, <2>6, <2>7
<1>6. TypeOK'
  <2>1. myReadHead' \in Offset' /\ myCheckpoint' \in Offset' /\ myTail' \in Pointer'
    BY <1>4, <1>5
  <2>2. \A i \in 1..Len(segments') : segments'[i].myNext \in Pointer'
    BY <1>1, <1>2, <1>3 DEF Chain, Pointer, NULL
  <2>3. aOutEnd' \in Offset'
    BY SMTT(30), <1>1, <1>2 DEF TypeOK, Offset, Pointer
  <2> QED BY <1>1, <1>2, <2>1, <2>2, <2>3 DEF TypeOK
<1>7. PeekProgress' /\ Running'
  BY <1>3 DEF PeekProgress, Running
<1> QED BY <1>3, <1>4, <1>5, <1>6, <1>7

-----------------------------------------------------------------------------
(* PrivPeek *)

\* Two runs of consecutive bytes, one behind the other, are one run.
LEMMA RunConcat ==
  ASSUME NEW p \in Nat, NEW m \in Nat, NEW a \in Nat
  PROVE  [k \in 1..m |-> p + k] \o [k \in 1..a |-> p + m + k] = [k \in 1..(m + a) |-> p + k]
<1> DEFINE s == [k \in 1..m |-> p + k]
           t == [k \in 1..a |-> p + m + k]
           u == [k \in 1..(m + a) |-> p + k]
<1>1. s \in Seq(Nat) /\ Len(s) = m /\ \A k \in 1..m : s[k] = p + k
  OBVIOUS
<1>2. t \in Seq(Nat) /\ Len(t) = a /\ \A k \in 1..a : t[k] = p + m + k
  OBVIOUS
<1>3. u \in Seq(Nat) /\ Len(u) = m + a /\ \A k \in 1..(m + a) : u[k] = p + k
  OBVIOUS
<1> HIDE DEF s, t, u
<1>4. /\ s \o t \in Seq(Nat) /\ Len(s \o t) = m + a
      /\ \A i \in 1..(m + a) : (s \o t)[i] = IF i <= m THEN s[i] ELSE t[i - m]
  BY ZenonT(40), <1>1, <1>2, ConcatProperties
<1>5. \A i \in 1..(m + a) : (s \o t)[i] = u[i]
  <2> TAKE i \in 1..(m + a)
  <2>0. (s \o t)[i] = (IF i <= m THEN s[i] ELSE t[i - m]) /\ u[i] = p + i
    BY <1>3, <1>4
  <2>1. CASE i <= m
    <3>1. i \in 1..m
      BY <2>1
    <3>2. s[i] = p + i
      BY <3>1, <1>1
    <3> QED BY <2>0, <2>1, <3>2
  <2>2. CASE i > m
    <3>1. i - m \in 1..a /\ ~(i <= m) /\ p + m + (i - m) = p + i
      BY <2>2
    <3>2. t[i - m] = p + m + (i - m)
      BY <3>1, <1>2
    <3> QED BY <2>0, <3>1, <3>2
  <2>3. i <= m \/ i > m
    OBVIOUS
  <2> QED BY <2>1, <2>2, <2>3
<1>6. s \o t = u
  BY <1>3, <1>4, <1>5, SeqEqual
<1> QED BY <1>6 DEF s, t, u

\* The place the next iteration copies from is the place the last one ended.
LEMMA CursorPlace ==
  ASSUME IInv, pc = "peek", PeekContinues
  PROVE  /\ segments # <<>>
         /\ Cursor.mySegment \in 1..Len(segments)
         /\ Cursor = [mySegment |-> Cursor.mySegment, myOffset |-> Cursor.myOffset]
         /\ Cursor.myOffset \in 0..segments[Cursor.mySegment].mySize
         /\ segments[Cursor.mySegment] \in Segment
         /\ segments[Cursor.mySegment].first + Cursor.myOffset = Pos(aOutEnd)
         /\ aOutEnd.mySegment <= Cursor.mySegment
         /\ aOutEnd.mySegment = Cursor.mySegment => Cursor.myOffset = aOutEnd.myOffset
<1> USE DEF IInv
<1>1. /\ aOutEnd \in Offset /\ aOutEnd.mySegment \in 1..Len(segments)
      /\ segments # <<>> /\ Len(segments) \in Nat
      /\ segments[aOutEnd.mySegment] \in Segment
      /\ aOutEnd.myOffset <= segments[aOutEnd.mySegment].mySize
  <2>1. aOutEnd \in Offset /\ aOutEnd.mySegment # NULL /\ segments \in Seq(Segment)
    BY DEF TypeOK, PeekContinues
  <2>2. aOutEnd.mySegment \in 1..Len(segments)
    BY <2>1 DEF Offset, Pointer, NULL
  <2> QED BY <2>1, <2>2 DEF PeekProgress, Inside
<1>2. CASE Exhausted(aOutEnd)
  <2>1. /\ aOutEnd.mySegment + 1 \in 1..Len(segments)
        /\ segments[aOutEnd.mySegment].myNext = aOutEnd.mySegment + 1
    BY <1>1, <1>2 DEF Chain, PeekContinues
  <2>2. Cursor = [mySegment |-> aOutEnd.mySegment + 1, myOffset |-> 0]
    BY <1>2, <2>1 DEF Cursor
  <2>3. segments[aOutEnd.mySegment + 1] \in Segment
    BY <2>1 DEF TypeOK
  <2>4. segments[aOutEnd.mySegment + 1].first
          = segments[aOutEnd.mySegment].first + segments[aOutEnd.mySegment].mySize
    <3>1. aOutEnd.mySegment \in 1..(Len(segments) - 1)
      BY <1>1, <2>1
    <3> QED BY <3>1 DEF Chain
  <2>5. Pos(aOutEnd) = segments[aOutEnd.mySegment].first + aOutEnd.myOffset
    BY <1>1 DEF Pos, NULL
  <2> QED BY <1>1, <1>2, <2>1, <2>2, <2>3, <2>4, <2>5 DEF Exhausted, Segment, Offset
<1>3. CASE ~Exhausted(aOutEnd)
  <2>1. Cursor = aOutEnd
    BY <1>3 DEF Cursor
  <2>2. Pos(aOutEnd) = segments[aOutEnd.mySegment].first + aOutEnd.myOffset
    BY <1>1 DEF Pos, NULL
  <2> QED BY <1>1, <2>1, <2>2 DEF Segment, Offset
<1> QED BY <1>2, <1>3

\* The smaller of two numbers is one of them, and above neither (std::min).
LEMMA LesserOfNats ==
  ASSUME NEW a \in Nat, NEW b \in Nat
  PROVE  Lesser(a, b) \in Nat /\ Lesser(a, b) <= a /\ Lesser(a, b) <= b
BY DEF Lesser

\* An iteration of PrivPeek keeps its loop invariant.
LEMMA PeekIterationInvariant ==
  ASSUME IInv, PeekIteration
  PROVE  IInv'
<1> USE DEF IInv
<1> DEFINE c == Cursor
           segment == segments[c.mySegment]
           amount == Lesser(segment.mySize - c.myOffset, left)
           p == Pos(myReadHead)
           m == aSize - left
<1>1. /\ pc = "peek" /\ PeekContinues
      /\ aData' = aData \o [k \in 1..amount |-> segment.first + c.myOffset + k]
      /\ left' = left - amount
      /\ aOutEnd' = [c EXCEPT !.myOffset = @ + amount]
      /\ UNCHANGED <<segments, myReadHead, myCheckpoint, myTail, pc, op, aSize,
                     filling, result>>
  BY DEF PeekIteration
<1>2. /\ segments # <<>>
      /\ c.mySegment \in 1..Len(segments)
      /\ c = [mySegment |-> c.mySegment, myOffset |-> c.myOffset]
      /\ c.myOffset \in 0..segment.mySize
      /\ segment \in Segment
      /\ segment.first + c.myOffset = Pos(aOutEnd)
      /\ aOutEnd.mySegment <= c.mySegment
      /\ aOutEnd.mySegment = c.mySegment => c.myOffset = aOutEnd.myOffset
  BY <1>1, CursorPlace
<1>3. /\ myReadHead \in Offset /\ aOutEnd \in Offset /\ segments \in Seq(Segment)
      /\ left \in Nat /\ aSize \in Nat /\ left <= aSize /\ Len(segments) \in Nat
      /\ aSize \in 0..MaxRequest
  BY ReadStreamAssumption DEF TypeOK
<1>4. /\ Pos(aOutEnd) = p + m
      /\ aData = [k \in 1..m |-> p + k]
      /\ myReadHead.mySegment <= aOutEnd.mySegment
      /\ myReadHead.mySegment = aOutEnd.mySegment => myReadHead.myOffset <= aOutEnd.myOffset
  BY <1>1 DEF PeekProgress
<1>5. p \in Nat /\ m \in Nat
  <2>1. CASE myReadHead.mySegment = NULL
    BY <2>1, <1>3 DEF Pos
  <2>2. CASE myReadHead.mySegment # NULL
    <3>1. segments[myReadHead.mySegment] \in Segment
      BY <2>2, <1>3 DEF Offset, Pointer, NULL
    <3> QED BY <2>2, <3>1, <1>3 DEF Pos, Segment, Offset
  <2> QED BY <2>1, <2>2
<1> HIDE DEF c, p, m
<1>6. amount \in Nat /\ amount <= left /\ amount <= segment.mySize - c.myOffset
  <2>1. segment.mySize - c.myOffset \in Nat
    <3> HIDE DEF IInv
    <3>1. segment.mySize \in Nat /\ c.myOffset \in 0..segment.mySize
      <4> HIDE DEF segment
      <4> QED BY <1>2, ReadStreamAssumption DEF Segment
    <3> HIDE DEF segment
    <3> QED BY <3>1
  <2> HIDE DEF segment, IInv
  <2> QED BY <2>1, <1>3, LesserOfNats
<1> HIDE DEF amount
<1>7. aOutEnd' = [mySegment |-> c.mySegment, myOffset |-> c.myOffset + amount]
  BY <1>1, <1>2
<1>8. Pos(myReadHead)' = p
  BY <1>1 DEF Pos, p
<1>9. Pos(aOutEnd)' = p + m + amount
  <2>1. Pos(aOutEnd)' = segment.first + (c.myOffset + amount)
    BY <1>1, <1>2, <1>7 DEF Pos, NULL
  <2> QED BY <2>1, <1>2, <1>4, <1>5, <1>6 DEF Segment
<1>10. aSize' - left' = m + amount
  BY <1>1, <1>3, <1>6 DEF m
<1>11. aData' = [k \in 1..(m + amount) |-> p + k]
  <2>1. segment.first + c.myOffset = p + m
    BY <1>2, <1>4
  <2>2. aData' = [k \in 1..m |-> p + k] \o [k \in 1..amount |-> p + m + k]
    BY <1>1, <1>4, <2>1
  <2> QED BY <2>2, <1>5, <1>6, RunConcat
<1>12. aOutEnd' \in Offset' /\ Inside(aOutEnd)' /\ aOutEnd'.mySegment # NULL
  <2>1. c.myOffset + amount \in 0..CHUNK_SIZE /\ c.myOffset + amount <= segment.mySize
    BY SMTT(30), <1>2, <1>6, ReadStreamAssumption DEF Segment
  <2>2. c.mySegment \in 0..Len(segments) /\ c.mySegment # 0
    BY <1>2, <1>3
  <2>3. aOutEnd'.mySegment = c.mySegment /\ aOutEnd'.myOffset = c.myOffset + amount
    BY <1>7
  <2>4. aOutEnd' \in Offset' /\ aOutEnd'.mySegment # NULL
    BY <1>1, <1>7, <2>1, <2>2, <2>3 DEF Offset, Pointer, NULL
  <2>5. Inside(aOutEnd)'
    BY <1>1, <2>1, <2>3, <2>4 DEF Inside
  <2> QED BY <2>4, <2>5
<1>13. TypeOK'
  <2>1. aData' \in Seq(Nat)
    BY <1>5, <1>6, <1>11
  <2>2. left' \in 0..aSize'
    BY <1>1, <1>3, <1>6
  <2> QED BY <1>1, <1>12, <2>1, <2>2 DEF TypeOK, Offset, Pointer, filling
<1>14. PeekProgress'
  <2>1. /\ myReadHead'.mySegment <= aOutEnd'.mySegment
        /\ myReadHead'.mySegment = aOutEnd'.mySegment
             => myReadHead'.myOffset <= aOutEnd'.myOffset
    <3>1. myReadHead' = myReadHead
      BY <1>1
    <3>2. aOutEnd'.mySegment = c.mySegment /\ aOutEnd'.myOffset = c.myOffset + amount
      BY <1>7
    <3>3. /\ myReadHead.mySegment \in Nat /\ aOutEnd.mySegment \in Nat /\ c.mySegment \in Nat
          /\ myReadHead.myOffset \in Nat /\ aOutEnd.myOffset \in Nat /\ c.myOffset \in Nat
      BY <1>2, <1>3 DEF Offset, Pointer, Segment
    <3> QED BY <1>2, <1>4, <1>6, <3>1, <3>2, <3>3
  <2>2. aOutEnd'.mySegment = NULL <=> segments' = <<>>
    BY <1>1, <1>2, <1>12
  <2>3. Pos(aOutEnd)' = Pos(myReadHead)' + (aSize' - left')
    BY <1>5, <1>6, <1>8, <1>9, <1>10
  <2>4. aData' = [k \in 1..(aSize' - left') |-> Pos(myReadHead)' + k]
    BY <1>8, <1>10, <1>11
  <2> QED BY <1>12, <2>1, <2>2, <2>3, <2>4 DEF PeekProgress
<1>15. Chain' /\ Pointers' /\ Offsets' /\ Running'
  BY <1>1 DEF Chain, Pointers, Offsets, Inside, Running, Total, filling
<1> QED BY <1>13, <1>14, <1>15

-----------------------------------------------------------------------------
(* The invariant *)

\* When nothing that holds the list changes, its part of IInv survives.
LEMMA ListKept ==
  ASSUME IInv, UNCHANGED <<segments, myReadHead, myCheckpoint, myTail>>
  PROVE  /\ Chain'
         /\ (pc' = "walk" <=> pc = "walk") => Pointers'
         /\ (pc' = "commit" \/ pc # "commit") => Offsets'
         /\ Total' = Total
         /\ Pos(myReadHead)' = Pos(myReadHead)
         /\ Pos(myCheckpoint)' = Pos(myCheckpoint)
BY DEF IInv, Chain, Pointers, Offsets, Inside, Total, Pos

\* A read of the istream: `amount` bytes less, and none left at the end.
LEMMA ReadSourceType ==
  ASSUME IInv, NEW amount \in Nat, ReadSource(amount), ~source.eof
  PROVE  /\ source' \in [left : 0..MaxBytes, eof : BOOLEAN, bad : BOOLEAN]
         /\ source'.eof => source'.left = 0
         /\ source'.left = source.left - amount
         /\ ~source'.bad => amount = Lesser(CHUNK_SIZE, source.left)
<1>1. /\ source \in [left : 0..MaxBytes, eof : BOOLEAN, bad : BOOLEAN]
      /\ MaxBytes \in Nat /\ CHUNK_SIZE \in Nat /\ source.left \in Nat
  BY ReadStreamAssumption DEF IInv, TypeOK
<1>2. amount <= source.left /\ source.left - amount \in 0..MaxBytes
  BY <1>1 DEF ReadSource, Lesser
<1>3. CASE /\ amount = Lesser(CHUNK_SIZE, source.left)
           /\ source' = [source EXCEPT !.left = @ - amount,
                                       !.eof = source.left < CHUNK_SIZE]
  <2>1. /\ source'.left = source.left - amount
        /\ source'.eof = (source.left < CHUNK_SIZE)
        /\ source' = [left |-> source.left - amount, eof |-> (source.left < CHUNK_SIZE), bad |-> source.bad]
    BY <1>1, <1>3
  <2>2. (source.left < CHUNK_SIZE) => source.left - amount = 0
    BY <1>1, <1>3 DEF Lesser
  <2>3. (source.left < CHUNK_SIZE) \in BOOLEAN
    OBVIOUS
  <2> QED BY <1>1, <1>2, <1>3, <2>1, <2>2, <2>3
<1>4. CASE /\ amount < Lesser(CHUNK_SIZE, source.left)
           /\ source' = [source EXCEPT !.left = @ - amount, !.bad = TRUE]
  <2>1. source' = [left |-> source.left - amount, eof |-> source.eof, bad |-> TRUE]
    BY <1>1, <1>4
  <2> QED BY <1>1, <1>2, <2>1
<1> QED BY <1>3, <1>4 DEF ReadSource

\* Every action of Next keeps IInv.
LEMMA StepInvariant == IInv /\ [Next]_vars => IInv'
<1> SUFFICES ASSUME IInv, [Next]_vars
             PROVE  IInv'
  OBVIOUS
<1> USE DEF IInv
<1>1. CASE \E k \in 0..MaxBytes, n \in 1..CHUNK_SIZE : AppendData(k, n)
  <2>1. PICK k \in 0..MaxBytes, n \in 1..CHUNK_SIZE : AppendData(k, n)
    BY <1>1
  <2>2. /\ pc = "idle" /\ pc' = "walk" /\ op' = "Append" /\ Attach(k, n) /\ k \in Nat
        /\ UNCHANGED <<aSize, left, aOutEnd, aData, result, source, filled>>
    BY <2>1 DEF AppendData, peeking, filling
  <2>3. /\ source' \in [left : 0..MaxBytes, eof : BOOLEAN, bad : BOOLEAN]
        /\ source'.eof => source'.left = 0
    BY <2>2 DEF TypeOK, Running
  <2> QED BY <2>2, <2>3, AttachInvariant
<1>2. CASE \E n \in 0..MaxBytes, bad \in BOOLEAN : AppendAllFromStream(n, bad)
  <2>1. PICK n \in 0..MaxBytes, bad \in BOOLEAN : AppendAllFromStream(n, bad)
    BY <1>2
  <2>2. /\ pc = "idle" /\ pc' = "fill" /\ op' = "AppendAll" /\ filled' = "none"
        /\ source' = [left |-> n, eof |-> FALSE, bad |-> bad]
        /\ Total + n <= MaxBytes
        /\ UNCHANGED <<segments, myReadHead, myCheckpoint, myTail, aSize, left, aOutEnd,
                       aData, result>>
    BY <2>1 DEF AppendAllFromStream, peeking
  <2>3. TypeOK'
    BY <2>2 DEF TypeOK, Offset, Pointer
  <2> QED BY <2>2, <2>3, ListKept DEF PeekProgress, Running
<1>3. CASE \E n \in 0..MaxRequest : Read(n) \/ Peek(n)
  <2>1. PICK n \in 0..MaxRequest, name \in {"Read", "Peek"} : Call(name, n)
    BY <1>3 DEF Read, Peek
  <2>2. /\ pc = "idle" /\ pc' = "peek" /\ op' = name
        /\ aSize' = n /\ left' = n /\ aOutEnd' = myReadHead /\ aData' = <<>>
        /\ UNCHANGED <<segments, myReadHead, myCheckpoint, myTail, result, source, filled>>
    BY <2>1 DEF Call, filling
  <2>3. n \in Nat /\ n \in 0..n /\ n - n = 0
    BY ReadStreamAssumption
  <2>4. TypeOK'
    BY <2>2, <2>3 DEF TypeOK, Offset, Pointer
  <2>5. PeekProgress'
    <3>1. Pos(aOutEnd)' = Pos(myReadHead)' /\ Pos(aOutEnd)' \in Nat
      <4>1. CASE myReadHead.mySegment = NULL
        BY <4>1, <2>2 DEF Pos
      <4>2. CASE myReadHead.mySegment # NULL
        <5>1. segments[myReadHead.mySegment] \in Segment /\ myReadHead.myOffset \in Nat
          BY <4>2 DEF TypeOK, Offset, Pointer, NULL
        <5>2. Pos(aOutEnd)' = segments[myReadHead.mySegment].first + myReadHead.myOffset
          BY <4>2, <2>2 DEF Pos
        <5>3. Pos(myReadHead)' = segments[myReadHead.mySegment].first + myReadHead.myOffset
          BY <4>2, <2>2 DEF Pos
        <5> QED BY <5>1, <5>2, <5>3 DEF Segment
      <4> QED BY <4>1, <4>2
    <3>2. Inside(aOutEnd)' /\ (aOutEnd'.mySegment = NULL <=> segments' = <<>>)
      BY <2>2 DEF Inside, Offsets, Pointers
    <3>3. myReadHead'.mySegment <= aOutEnd'.mySegment /\ myReadHead'.myOffset <= aOutEnd'.myOffset
      BY <2>2 DEF TypeOK, Offset, Pointer
    <3>4. aData' = [k \in 1..(aSize' - left') |-> Pos(myReadHead)' + k]
      <4>1. [k \in 1..0 |-> Pos(myReadHead)' + k] = <<>>
        OBVIOUS
      <4> QED BY <2>2, <2>3, <4>1
    <3>5. Pos(aOutEnd)' = Pos(myReadHead)' + (aSize' - left')
      BY <2>2, <2>3, <3>1
    <3> QED BY <3>2, <3>3, <3>4, <3>5 DEF PeekProgress
  <2>6. Running'
    BY <2>2, ListKept DEF Running
  <2> QED BY <2>2, <2>4, <2>5, <2>6, ListKept
<1>4. CASE CommitRead
  <2>1. /\ pc = "idle" /\ pc' = "commit" /\ op' = "Commit"
        /\ UNCHANGED <<segments, myReadHead, myCheckpoint, myTail, aSize, left, aOutEnd,
                       aData, result, source, filled>>
    BY <1>4 DEF CommitRead, peeking, filling
  <2>2. TypeOK'
    BY <2>1 DEF TypeOK, Offset, Pointer
  <2> QED BY <2>1, <2>2, ListKept DEF PeekProgress, Running
<1>5. CASE RestoreRead
  <2>1. /\ pc = "idle" /\ myReadHead' = myCheckpoint
        /\ UNCHANGED <<segments, myCheckpoint, myTail, pc, op, aSize, left, aOutEnd,
                       aData, result, source, filled>>
    BY <1>5 DEF RestoreRead, peeking, filling
  <2>2. TypeOK'
    BY <2>1 DEF TypeOK, Offset, Pointer
  <2>3. Chain' /\ Running' /\ PeekProgress'
    BY <2>1 DEF Chain, Running, PeekProgress, Total
  <2>4. Pointers' /\ Offsets'
    BY <2>1 DEF Pointers, Offsets, Inside, TypeOK, Offset, Pointer
  <2> QED BY <2>2, <2>3, <2>4
<1>6. CASE WalkTail
  <2>1. /\ pc = "walk" /\ ~TailIsLast /\ myTail' = segments[myTail].myNext
        /\ UNCHANGED <<segments, myReadHead, myCheckpoint, pc, op, aSize, left, aOutEnd,
                       aData, result, source, filled>>
    BY <1>6 DEF WalkTail, peeking, filling
  <2>2. myTail' \in Pointer /\ myTail' # NULL
    BY <2>1 DEF TypeOK, Pointer, Pointers, TailIsLast, NULL
  <2>3. TypeOK'
    BY <2>1, <2>2 DEF TypeOK, Offset, Pointer
  <2>4. Chain' /\ Running' /\ PeekProgress' /\ Offsets'
    BY <2>1 DEF Chain, Running, PeekProgress, Total, Offsets, Inside
  <2>5. Pointers'
    BY <2>1, <2>2 DEF Pointers
  <2> QED BY <2>3, <2>4, <2>5
<1>7. CASE WalkDone
  <2>1. /\ pc = "walk" /\ TailIsLast
        /\ UNCHANGED <<segments, myReadHead, myCheckpoint, myTail, aSize, left, aOutEnd,
                       aData, result, source>>
        /\ \/ /\ op = "AppendAll" /\ ~source.eof
              /\ pc' = "fill" /\ UNCHANGED <<op, filled>>
           \/ pc' = "idle" /\ op' = "none" /\ filled' \in {"true", filled}
    BY <1>7 DEF WalkDone, peeking
  <2>2. myTail = Len(segments)
    <3>1. myTail \in 1..Len(segments)
      BY <2>1 DEF TypeOK, Pointer, Pointers, NULL
    <3> QED BY <2>1, <3>1 DEF TailIsLast, Chain, NULL
  <2>3. TypeOK'
    BY <2>1 DEF TypeOK, Offset, Pointer
  <2>4. Chain' /\ Running' /\ PeekProgress' /\ Offsets'
    BY <2>1 DEF Chain, Running, PeekProgress, Total, Offsets, Inside
  <2>5. Pointers'
    BY <2>1, <2>2 DEF Pointers
  <2> QED BY <2>3, <2>4, <2>5
<1>8. CASE FillRefused \/ FillEmpty
  <2>1. /\ pc = "fill" /\ pc' = "idle" /\ op' = "none" /\ filled' \in {"true", "false"}
        /\ UNCHANGED <<segments, myReadHead, myCheckpoint, myTail, aSize, left, aOutEnd,
                       aData, result>>
        /\ source' = source \/ ReadSource(0)
    BY <1>8 DEF FillRefused, FillEmpty, peeking
  <2>2. /\ source' \in [left : 0..MaxBytes, eof : BOOLEAN, bad : BOOLEAN]
        /\ source'.eof => source'.left = 0
    <3>1. CASE source' = source
      BY <3>1 DEF TypeOK, Running
    <3>2. CASE ReadSource(0)
      BY <2>1, <3>2, ReadSourceType DEF Running
    <3> QED BY <2>1, <3>1, <3>2
  <2>3. TypeOK'
    BY <2>1, <2>2 DEF TypeOK, Offset, Pointer
  <2> QED BY <2>1, <2>2, <2>3, ListKept DEF PeekProgress, Running
<1>9. CASE \E amount \in 1..CHUNK_SIZE : FillSegment(amount)
  <2>1. PICK amount \in 1..CHUNK_SIZE : FillSegment(amount)
    BY <1>9
  <2>2. /\ pc = "fill" /\ pc' = "walk" /\ op = "AppendAll" /\ op' = op /\ filled = "none"
        /\ ReadSource(amount) /\ Attach(0, amount)
        /\ UNCHANGED <<aSize, left, aOutEnd, aData, result, filled>>
    BY <2>1 DEF FillSegment, peeking, Running
  <2>3. /\ source' \in [left : 0..MaxBytes, eof : BOOLEAN, bad : BOOLEAN]
        /\ source'.eof => source'.left = 0
        /\ source'.left = source.left - amount
    BY <2>2, ReadSourceType DEF Running
  <2>4. Total + 0 * CHUNK_SIZE + amount + source'.left <= MaxBytes
    <3>1. Total \in Nat /\ Total + source.left <= MaxBytes /\ source.left \in Nat
      BY <2>2, TotalIsEnd DEF Running, TypeOK
    <3>2. 0 * CHUNK_SIZE = 0
      BY ReadStreamAssumption
    <3> QED BY <2>3, <3>1, <3>2
  <2> QED BY <2>2, <2>3, <2>4, AttachInvariant
<1>10. CASE PeekIteration
  BY <1>10, PeekIterationInvariant
<1>11. CASE PeekReturn
  <2>1. /\ pc = "peek" /\ pc' = "idle" /\ op' = "none" /\ myReadHead' \in {aOutEnd, myReadHead}
        /\ aSize' = 0 /\ left' = 0 /\ aOutEnd' = NullOffset /\ aData' = <<>>
        /\ result' = [bytes |-> aData, full |-> left = 0]
        /\ UNCHANGED <<segments, myCheckpoint, myTail, source, filled>>
    BY <1>11 DEF PeekReturn, NewReadHead, filling
  <2>2. TypeOK'
    <3>1. NullOffset \in Offset' /\ myReadHead' \in Offset'
      BY <2>1, ReadStreamAssumption DEF TypeOK, Offset, Pointer, NullOffset, NULL
    <3>2. result' \in [bytes : Seq(Nat), full : BOOLEAN]
      BY <2>1 DEF TypeOK
    <3> QED BY <2>1, <3>1, <3>2, ReadStreamAssumption DEF TypeOK, Offset, Pointer
  <2>3. Chain' /\ Running' /\ PeekProgress'
    BY <2>1 DEF Chain, Running, PeekProgress, Total
  <2>4. /\ myReadHead.mySegment \in Nat /\ aOutEnd.mySegment \in Nat /\ myCheckpoint.mySegment \in Nat
        /\ myReadHead.myOffset \in Nat /\ aOutEnd.myOffset \in Nat /\ myCheckpoint.myOffset \in Nat
    BY DEF TypeOK, Offset, Pointer
  <2>5. Pointers'
    BY <2>1, <2>4 DEF Pointers, PeekProgress
  <2>6. Offsets'
    BY <2>1, <2>4 DEF Offsets, Inside, PeekProgress, Pointers
  <2> QED BY <2>2, <2>3, <2>5, <2>6
<1>12. CASE CommitIteration
  <2>1. /\ pc = "commit" /\ myCheckpoint.mySegment # myReadHead.mySegment
        /\ myCheckpoint' = [myCheckpoint EXCEPT !.mySegment = segments[myCheckpoint.mySegment].myNext]
        /\ UNCHANGED <<segments, myReadHead, myTail, pc, op, aSize, left, aOutEnd,
                       aData, result, source, filled>>
    BY <1>12 DEF CommitIteration, peeking, filling
  <2>2. /\ segments # <<>> /\ myCheckpoint.mySegment \in 1..(Len(segments) - 1)
        /\ myReadHead.mySegment \in 1..Len(segments)
        /\ myCheckpoint.mySegment < myReadHead.mySegment
    BY SMTT(30), <2>1 DEF TypeOK, Pointers, Offset, Pointer, NULL
  <2>3. myCheckpoint' = [mySegment |-> myCheckpoint.mySegment + 1, myOffset |-> myCheckpoint.myOffset]
    <3>1. segments[myCheckpoint.mySegment].myNext = myCheckpoint.mySegment + 1
      BY <2>2 DEF Chain, NULL
    <3>2. myCheckpoint = [mySegment |-> myCheckpoint.mySegment, myOffset |-> myCheckpoint.myOffset]
      BY DEF TypeOK, Offset
    <3> QED BY <2>1, <3>1, <3>2
  <2>4. TypeOK'
    <3>1. myCheckpoint.mySegment + 1 \in Pointer /\ myCheckpoint.myOffset \in 0..CHUNK_SIZE
      BY <2>2 DEF TypeOK, Offset, Pointer
    <3>2. myCheckpoint' \in Offset
      BY <2>3, <3>1 DEF Offset
    <3> QED BY <2>1, <3>2 DEF TypeOK, Offset, Pointer
  <2>5. Chain' /\ Running' /\ PeekProgress'
    BY <2>1 DEF Chain, Running, PeekProgress, Total
  <2>6. Pointers' /\ Offsets'
    BY <2>1, <2>2, <2>3 DEF Pointers, Offsets, Inside, NULL
  <2> QED BY <2>4, <2>5, <2>6
<1>13. CASE CommitReturn
  <2>1. /\ pc = "commit" /\ pc' = "idle" /\ op' = "none"
        /\ myCheckpoint.mySegment = myReadHead.mySegment
        /\ myCheckpoint' = myReadHead
        /\ UNCHANGED <<segments, myReadHead, myTail, aSize, left, aOutEnd,
                       aData, result, source, filled>>
    BY <1>13 DEF CommitReturn, CommittedOffset, peeking, filling, TypeOK, Offset
  <2>2. TypeOK'
    BY <2>1 DEF TypeOK, Offset, Pointer
  <2>3. Chain' /\ Running' /\ PeekProgress'
    BY <2>1 DEF Chain, Running, PeekProgress, Total
  <2>4. Pointers' /\ Offsets'
    BY <2>1 DEF Pointers, Offsets, Inside, TypeOK, Offset, Pointer
  <2> QED BY <2>2, <2>3, <2>4
<1>14. CASE UNCHANGED vars
  BY <1>14 DEF vars, peeking, filling, TypeOK, Offset, Pointer, Chain, Pointers, Offsets,
               Inside, PeekProgress, Pos, Running, Total
<1> QED BY <1>1, <1>2, <1>3, <1>4, <1>5, <1>6, <1>7, <1>8, <1>9, <1>10, <1>11, <1>12,
           <1>13, <1>14 DEF Next, Begin, Continue

LEMMA InitInvariant == Init => IInv
<1> SUFFICES ASSUME Init PROVE IInv
  OBVIOUS
<1>1. TypeOK
  <2>1. NullOffset \in Offset
    BY ReadStreamAssumption DEF Init, NullOffset, Offset, Pointer, NULL
  <2>2. <<>> \in Seq(Segment) /\ <<>> \in Seq(Nat) /\ Len(segments) = 0
    BY DEF Init
  <2> QED BY <2>1, <2>2, ReadStreamAssumption DEF Init, TypeOK, Pointer, NULL, NoSource
<1>2. Chain /\ PeekProgress /\ Running
  BY ReadStreamAssumption DEF Init, Chain, PeekProgress, Running, NoSource, Total
<1>3. Pointers /\ Offsets
  BY DEF Init, Pointers, Offsets, Inside, NullOffset, NULL
<1> QED BY <1>1, <1>2, <1>3 DEF IInv

\* The inductive invariant holds in every state: the list is in order and
\* without gaps, and the pointers into it are where the code relies on them.
LEMMA InvarianceAlone == Spec => []IInv
<1>1. Init => IInv
  BY InitInvariant
<1>2. IInv /\ [Next]_vars => IInv'
  BY StepInvariant
<1> QED BY <1>1, <1>2, PTL DEF Spec

\* Every variable keeps its type, whatever the constants.
LEMMA TypeCorrectAlone == Spec => []TypeOK
<1>1. IInv => TypeOK
  BY DEF IInv
<1> QED BY <1>1, InvarianceAlone, PTL

\* The loops of AppendData, CommitRead and PrivPeek never follow nullptr, and
\* StreamSegment::Read never computes a negative size.
LEMMA NoLoopLeavesTheListAlone == Spec => []LoopsStayOnTheList
<1>1. IInv => LoopsStayOnTheList
  <2> SUFFICES ASSUME IInv PROVE LoopsStayOnTheList
    OBVIOUS
  <2>1. pc = "walk" => myTail # NULL
    BY DEF IInv, Pointers
  <2>2. ASSUME pc = "commit", myCheckpoint.mySegment # myReadHead.mySegment
        PROVE  myCheckpoint.mySegment # NULL /\ segments[myCheckpoint.mySegment].myNext # NULL
    <3>1. myCheckpoint.mySegment \in 0..Len(segments) /\ myReadHead.mySegment \in 0..Len(segments)
      BY DEF IInv, TypeOK, Offset, Pointer
    <3> QED BY <2>2, <3>1 DEF IInv, Pointers, Chain, NULL
  <2>3. ASSUME pc = "peek", PeekContinues
        PROVE  Cursor.mySegment # NULL /\ Cursor.myOffset <= segments[Cursor.mySegment].mySize
    BY <2>3, CursorPlace DEF NULL
  <2> QED BY <2>1, <2>2, <2>3 DEF LoopsStayOnTheList
<1> QED BY <1>1, InvarianceAlone, PTL

\* Of two places in the list the one in the earlier segment is first.
LEMMA PosOrder ==
  ASSUME TypeOK, Chain, NEW a \in Offset, NEW b \in Offset,
         a.mySegment # NULL, a.mySegment < b.mySegment,
         a.myOffset <= segments[a.mySegment].mySize
  PROVE  Pos(a) <= Pos(b)
<1>1. a.mySegment \in 1..Len(segments) /\ b.mySegment \in 1..Len(segments)
      /\ a.myOffset \in Nat /\ b.myOffset \in Nat
  BY SMTT(30) DEF Offset, Pointer, NULL, TypeOK
<1>2. segments[a.mySegment] \in Segment /\ segments[b.mySegment] \in Segment
  BY <1>1 DEF TypeOK
<1>3. segments[a.mySegment].first + segments[a.mySegment].mySize <= segments[b.mySegment].first
  BY <1>1 DEF Chain
<1>4. /\ Pos(a) = segments[a.mySegment].first + a.myOffset
      /\ Pos(b) = segments[b.mySegment].first + b.myOffset
  BY <1>1 DEF Pos, NULL
<1>5. /\ segments[a.mySegment].first \in Nat /\ segments[b.mySegment].first \in Nat
      /\ segments[a.mySegment].mySize \in Nat
  BY <1>2 DEF Segment
<1>6. segments[a.mySegment].first + a.myOffset <= segments[b.mySegment].first
  BY <1>1, <1>3, <1>5
<1> QED BY <1>1, <1>4, <1>5, <1>6

\* Between calls the checkpoint is at or before the read head.
LEMMA CheckpointBehindAlone == Spec => []CheckpointBehindReadHead
<1>1. IInv => CheckpointBehindReadHead
  <2> SUFFICES ASSUME IInv, pc = "idle" PROVE Pos(myCheckpoint) <= Pos(myReadHead)
    BY DEF CheckpointBehindReadHead
  <2>1. /\ TypeOK /\ Chain
        /\ myCheckpoint \in Offset /\ myReadHead \in Offset
        /\ myCheckpoint.mySegment \in Nat /\ myReadHead.mySegment \in Nat
        /\ myCheckpoint.myOffset \in Nat /\ myReadHead.myOffset \in Nat
        /\ myCheckpoint.mySegment <= myReadHead.mySegment
        /\ Inside(myCheckpoint)
        /\ myCheckpoint.mySegment = myReadHead.mySegment
             => myCheckpoint.myOffset <= myReadHead.myOffset
        /\ myCheckpoint.mySegment = NULL <=> myReadHead.mySegment = NULL
    BY DEF IInv, TypeOK, Offset, Pointer, Pointers, Offsets
  <2>2. CASE myCheckpoint.mySegment = NULL
    BY <2>1, <2>2 DEF Pos
  <2>3. CASE myCheckpoint.mySegment # NULL /\ myCheckpoint.mySegment < myReadHead.mySegment
    BY <2>1, <2>3, PosOrder DEF Inside
  <2>4. CASE myCheckpoint.mySegment # NULL /\ myCheckpoint.mySegment = myReadHead.mySegment
    <3>1. segments[myCheckpoint.mySegment] \in Segment
      BY <2>1, <2>4 DEF TypeOK, Offset, Pointer, NULL
    <3> QED BY <2>1, <2>4, <3>1 DEF Pos, Segment
  <2> QED BY <2>1, <2>2, <2>3, <2>4
<1> QED BY <1>1, InvarianceAlone, PTL

\* AppendAllFromStream says true only for an istream it has drained or that
\* failed under it, and false only for one that had failed.
LEMMA FillReportCorrectAlone == Spec => []FillReport
<1>1. Init => FillReport
  BY DEF Init, FillReport
<1>2. IInv /\ FillReport /\ [Next]_vars => FillReport'
  <2> SUFFICES ASSUME IInv, FillReport, [Next]_vars PROVE FillReport'
    OBVIOUS
  <2>1. CASE FillEmpty
    <3>1. /\ source \in [left : 0..MaxBytes, eof : BOOLEAN, bad : BOOLEAN]
          /\ pc = "fill" /\ ~source.bad /\ ReadSource(0) /\ filled' = "true"
      BY <2>1 DEF FillEmpty, IInv, TypeOK
    <3>2. ASSUME ~source'.bad PROVE source'.left = 0
      <4>1. 0 = Lesser(CHUNK_SIZE, source.left) /\ source'.left = source.left - 0
        BY <3>1, <3>2, ReadSourceType DEF IInv, Running
      <4> QED BY <3>1, <4>1, ReadStreamAssumption DEF Lesser
    <3> QED BY <3>1, <3>2 DEF FillReport
  <2>2. CASE FillRefused
    BY <2>2 DEF FillRefused, FillReport
  <2>3. CASE WalkDone
    BY <2>3 DEF WalkDone, FillReport, IInv, Running
  <2>4. CASE \E amount \in 1..CHUNK_SIZE : FillSegment(amount)
    BY <2>4 DEF FillSegment, FillReport, IInv, Running
  <2>5. CASE \E n \in 0..MaxBytes, bad \in BOOLEAN : AppendAllFromStream(n, bad)
    BY <2>5 DEF AppendAllFromStream, FillReport
  <2>6. CASE UNCHANGED filling
    BY <2>6 DEF filling, FillReport
  <2> QED BY <2>1, <2>2, <2>3, <2>4, <2>5, <2>6
          DEF Next, Begin, Continue, AppendData, Read, Peek, Call, CommitRead, RestoreRead,
              WalkTail, PeekIteration, PeekReturn, CommitIteration, CommitReturn, vars, filling
<1> QED BY <1>1, <1>2, InvarianceAlone, PTL DEF Spec

-----------------------------------------------------------------------------
(* ReadStream implements ByteStream *)

\* No place inside the list is behind its end.
LEMMA PosBound ==
  ASSUME IInv, NEW o \in Offset, Inside(o)
  PROVE  Pos(o) \in Nat /\ Pos(o) <= Total
<1>1. CASE o.mySegment = NULL
  BY <1>1, TotalIsEnd DEF IInv, Pos
<1>2. CASE o.mySegment # NULL
  <2>1. /\ o.mySegment \in 1..Len(segments) /\ o.myOffset \in Nat
        /\ o.myOffset <= segments[o.mySegment].mySize
    BY <1>2 DEF Offset, Pointer, NULL, Inside
  <2>2. /\ segments[o.mySegment] \in Segment /\ Total \in Nat
        /\ segments[o.mySegment].first + segments[o.mySegment].mySize <= Total
    BY <2>1, TotalIsEnd DEF IInv
  <2> QED BY <1>2, <2>1, <2>2 DEF Pos, Segment
<1> QED BY <1>1, <1>2

\* A PrivPeek that stops has copied all it was asked for or all there is.
LEMMA PeekResult ==
  ASSUME IInv, pc = "peek", ~PeekContinues
  PROVE  /\ aSize - left = Abstract!Available(aSize)
         /\ (left = 0) = (Abstract!Available(aSize) = aSize)
         /\ aData = Abstract!Bytes(Pos(myReadHead), Abstract!Available(aSize))
         /\ Pos(aOutEnd) = Pos(myReadHead) + Abstract!Available(aSize)
<1> DEFINE p == Pos(myReadHead)
<1>1. /\ aSize \in Nat /\ left \in Nat /\ left <= aSize
      /\ aOutEnd \in Offset /\ Inside(aOutEnd) /\ p \in Nat /\ Total \in Nat
      /\ Pos(aOutEnd) = p + (aSize - left)
      /\ Pos(aOutEnd) <= Total
      /\ aData = [k \in 1..(aSize - left) |-> p + k]
  <2>1. /\ aSize \in Nat /\ left \in Nat /\ left <= aSize
        /\ aOutEnd \in Offset /\ Inside(aOutEnd)
        /\ myReadHead \in Offset /\ Inside(myReadHead)
        /\ Pos(aOutEnd) = p + (aSize - left)
        /\ aData = [k \in 1..(aSize - left) |-> p + k]
    BY ReadStreamAssumption DEF IInv, TypeOK, PeekProgress, Offsets
  <2>2. p \in Nat /\ Pos(aOutEnd) <= Total
    BY <2>1, PosBound
  <2> QED BY <2>1, <2>2, TotalIsEnd DEF IInv
<1>2. left # 0 => Pos(aOutEnd) = Total
  <2> SUFFICES ASSUME left # 0 PROVE Pos(aOutEnd) = Total
    OBVIOUS
  <2>1. CASE aOutEnd.mySegment = NULL
    BY <2>1, TotalIsEnd DEF IInv, PeekProgress, Pos
  <2>2. CASE aOutEnd.mySegment # NULL
    <3>1. Exhausted(aOutEnd) /\ segments[aOutEnd.mySegment].myNext = NULL
      BY <2>2 DEF PeekContinues
    <3>2. aOutEnd.mySegment \in 1..Len(segments) /\ segments # <<>>
      BY <2>2, <1>1 DEF Offset, Pointer, NULL, IInv, PeekProgress
    <3>3. aOutEnd.mySegment = Len(segments)
      BY <3>1, <3>2 DEF IInv, Chain, NULL
    <3>4. Total = segments[Len(segments)].first + segments[Len(segments)].mySize
      BY <3>2 DEF Total
    <3> QED BY <3>1, <3>3, <3>4, <2>2 DEF Exhausted, Pos
  <2> QED BY <2>1, <2>2
<1> HIDE DEF p
<1>3. Abstract!Available(aSize) = IF aSize <= Total - p THEN aSize ELSE Total - p
  BY DEF Abstract!Available, p
<1>4. aSize - left = Abstract!Available(aSize)
  BY <1>1, <1>2, <1>3
<1> QED BY <1>1, <1>4 DEF Abstract!Bytes, p

\* Every step of ReadStream is a step of ByteStream or none.
LEMMA StepImplements ==
  ASSUME IInv, IInv', [Next]_vars
  PROVE  [Abstract!Next]_(Abstract!vars)
<1>1. CASE \E k \in 0..MaxBytes, n \in 1..CHUNK_SIZE : AppendData(k, n)
  <2>1. PICK k \in 0..MaxBytes, n \in 1..CHUNK_SIZE : AppendData(k, n)
    BY <1>1
  <2>2. /\ pc = "idle" /\ pc' = "walk" /\ op' = "Append" /\ Attach(k, n) /\ k \in Nat
        /\ Total + k * CHUNK_SIZE + n <= MaxBytes
        /\ UNCHANGED <<aSize, left, aOutEnd, aData, result, source, filled>>
    BY <2>1 DEF AppendData, peeking, filling
  <2>3. /\ source' \in [left : 0..MaxBytes, eof : BOOLEAN, bad : BOOLEAN]
        /\ source'.eof => source'.left = 0
    BY <2>2 DEF IInv, TypeOK, Running
  <2>4. /\ Total' = Total + k * CHUNK_SIZE + n
        /\ Pos(myReadHead)' = Pos(myReadHead) /\ Pos(myCheckpoint)' = Pos(myCheckpoint)
    BY <2>2, <2>3, AttachInvariant
  <2>5. /\ k * CHUNK_SIZE \in Nat /\ Total \in Nat /\ MaxBytes \in Nat /\ n \in Nat /\ n >= 1
    BY Products, TotalIsEnd, ReadStreamAssumption DEF IInv
  <2>6. k * CHUNK_SIZE + n \in 1..MaxBytes /\ Total' = Total + (k * CHUNK_SIZE + n)
    BY <2>2, <2>4, <2>5
  <2>7. Mark' = Mark
    BY <2>2, <2>4 DEF Mark
  <2>8. Abstract!Append(k * CHUNK_SIZE + n)
    BY <2>2, <2>4, <2>6, <2>7 DEF Abstract!Append
  <2> QED BY <2>6, <2>8 DEF Abstract!Next
<1>2. CASE \E amount \in 1..CHUNK_SIZE : FillSegment(amount)
  <2>1. PICK amount \in 1..CHUNK_SIZE : FillSegment(amount)
    BY <1>2
  <2>2. /\ pc = "fill" /\ pc' = "walk" /\ op = "AppendAll" /\ op' = op
        /\ ReadSource(amount) /\ Attach(0, amount) /\ amount \in Nat /\ amount >= 1
        /\ ~source.eof /\ filled = "none" /\ Total + source.left <= MaxBytes
        /\ UNCHANGED <<aSize, left, aOutEnd, aData, result, filled>>
    BY <2>1 DEF FillSegment, peeking, IInv, Running
  <2>3. /\ source' \in [left : 0..MaxBytes, eof : BOOLEAN, bad : BOOLEAN]
        /\ source'.eof => source'.left = 0
        /\ source'.left = source.left - amount
    BY <2>2, ReadSourceType
  <2>4. source.left \in Nat /\ source'.left \in Nat /\ Total \in Nat /\ MaxBytes \in Nat
    BY <2>3, TotalIsEnd, ReadStreamAssumption DEF IInv, TypeOK
  <2>5. 0 * CHUNK_SIZE = 0
    BY ReadStreamAssumption
  <2>6. Total + 0 * CHUNK_SIZE + amount + source'.left <= MaxBytes
    BY <2>2, <2>3, <2>4, <2>5
  <2>7. /\ Total' = Total + 0 * CHUNK_SIZE + amount
        /\ Pos(myReadHead)' = Pos(myReadHead) /\ Pos(myCheckpoint)' = Pos(myCheckpoint)
    BY <2>2, <2>3, <2>6, AttachInvariant
  <2>8. amount \in 1..MaxBytes /\ Total' = Total + amount
    BY <2>2, <2>3, <2>4, <2>5, <2>7
  <2>9. Abstract!Append(amount)
    BY <2>2, <2>7, <2>8 DEF Abstract!Append, Mark
  <2> QED BY <2>8, <2>9 DEF Abstract!Next
<1>3. CASE CommitRead
  BY <1>3, ListKept DEF CommitRead, Mark, Abstract!CommitRead, Abstract!Next
<1>4. CASE RestoreRead
  <2>1. /\ pc = "idle" /\ myReadHead' = myCheckpoint
        /\ UNCHANGED <<segments, myCheckpoint, pc, result>>
    BY <1>4 DEF RestoreRead
  <2>2. Pos(myReadHead)' = Pos(myCheckpoint) /\ Mark' = Mark /\ Mark = Pos(myCheckpoint) /\ Total' = Total
    BY <2>1 DEF Pos, Mark, Total
  <2> QED BY <2>1, <2>2 DEF Abstract!RestoreRead, Abstract!Next
<1>5. CASE PeekReturn
  <2>1. /\ pc = "peek" /\ ~PeekContinues /\ op \in {"Read", "Peek"} /\ pc' = "idle"
        /\ result' = [bytes |-> aData, full |-> left = 0]
        /\ myReadHead' = IF op = "Read" THEN aOutEnd ELSE myReadHead
        /\ UNCHANGED <<segments, myCheckpoint>>
    BY <1>5 DEF PeekReturn, NewReadHead, IInv, Running
  <2>2. result' = [bytes |-> Abstract!Bytes(Pos(myReadHead), Abstract!Available(aSize)),
                   full |-> Abstract!Available(aSize) = aSize]
    BY <2>1, PeekResult
  <2>3. Mark' = Mark /\ Total' = Total
    BY <2>1 DEF Mark, Pos, Total
  <2>4. aSize \in 0..MaxRequest
    BY DEF IInv, TypeOK
  <2>5. CASE op = "Read"
    <3>1. Pos(myReadHead)' = Pos(aOutEnd)
      BY <2>1, <2>5 DEF Pos
    <3>2. Pos(myReadHead)' = Pos(myReadHead) + Abstract!Available(aSize)
      BY <3>1, <2>1, PeekResult
    <3>3. Abstract!Read(aSize)
      BY <2>2, <2>3, <3>2 DEF Abstract!Read
    <3> QED BY <2>4, <3>3 DEF Abstract!Next
  <2>6. CASE op = "Peek"
    <3>1. Pos(myReadHead)' = Pos(myReadHead)
      BY <2>1, <2>6 DEF Pos
    <3>2. Abstract!Peek(aSize)
      BY <2>2, <2>3, <3>1 DEF Abstract!Peek
    <3> QED BY <2>4, <3>2 DEF Abstract!Next
  <2> QED BY <2>1, <2>5, <2>6
<1>6. CASE CommitIteration
  BY <1>6 DEF CommitIteration, Abstract!vars, Mark, Pos, Total
<1>7. CASE CommitReturn
  <2>1. myCheckpoint' = myReadHead /\ pc = "commit" /\ pc' = "idle"
        /\ UNCHANGED <<segments, myReadHead, result>>
    BY <1>7 DEF CommitReturn, CommittedOffset, IInv, TypeOK, Offset
  <2> QED BY <2>1 DEF Abstract!vars, Mark, Pos, Total
<1>8. ASSUME UNCHANGED <<segments, myReadHead, myCheckpoint, result>>,
             pc # "commit", pc' # "commit"
      PROVE  UNCHANGED Abstract!vars
  BY <1>8 DEF Abstract!vars, Mark, Pos, Total
<1>9. CASE \/ \E n \in 0..MaxBytes, bad \in BOOLEAN : AppendAllFromStream(n, bad)
           \/ \E n \in 0..MaxRequest : Read(n) \/ Peek(n)
           \/ WalkTail \/ WalkDone \/ FillRefused \/ FillEmpty \/ PeekIteration
  BY <1>8, <1>9 DEF AppendAllFromStream, Read, Peek, Call, WalkTail, WalkDone, FillRefused,
                    FillEmpty, PeekIteration
<1>10. CASE UNCHANGED vars
  BY <1>10 DEF vars, Abstract!vars, Mark, Pos, Total
<1> QED BY <1>1, <1>2, <1>3, <1>4, <1>5, <1>6, <1>7, <1>9, <1>10 DEF Next, Begin, Continue

\* The segmented list behaves as one sequence of bytes: reads see every byte
\* once and in order wherever the segments end, a Peek or a short Read
\* included, and CommitRead and RestoreRead move between the same two places.
LEMMA ImplementationAlone == Spec => ImplementsByteStream
<1>1. Init => Abstract!Init
  BY DEF Init, Abstract!Init, Total, Pos, Mark, NullOffset, NULL
<1>2. IInv /\ IInv' /\ [Next]_vars => [Abstract!Next]_(Abstract!vars)
  BY StepImplements
<1> QED BY <1>1, <1>2, InvarianceAlone, PTL DEF Spec, ImplementsByteStream, Abstract!Spec

-----------------------------------------------------------------------------
(* One iteration of WriteData *)

\* What Fill returns: the segments before h are as they were, h has the bytes,
\* and it has a successor, an empty segment, exactly if it is full.
LEMMA FillResult ==
  ASSUME Write!WriteStreamAssumption, wWritten \in Nat,
         NEW heap \in Seq(Write!Segment), heap # <<>>, NEW h, h = Len(heap),
         NEW amount \in Nat, heap[h].mySize + amount <= CHUNK_SIZE,
         NEW heapAfter, heapAfter = Write!Fill(heap, h, amount)
  PROVE  LET full == heap[h].mySize + amount = CHUNK_SIZE
         IN /\ heapAfter \in Seq(Write!Segment)
            /\ Len(heapAfter) = IF full THEN h + 1 ELSE h
            /\ \A i \in 1..(h - 1) : heapAfter[i] = heap[i]
            /\ heapAfter[h] = [first  |-> heap[h].first,
                            mySize |-> heap[h].mySize + amount,
                            myNext |-> IF full THEN h + 1 ELSE heap[h].myNext]
            /\ full => heapAfter[h + 1] = Write!NewSegment(wWritten + amount)
<1> DEFINE full == heap[h].mySize + amount = CHUNK_SIZE
           grown == [heap EXCEPT ![h].mySize = @ + amount]
           linked == [grown EXCEPT ![h].myNext = Len(heap) + 1]
           fresh == Write!NewSegment(wWritten + amount)
<1>0. heapAfter = IF grown[h].mySize = CHUNK_SIZE THEN Append(linked, fresh) ELSE grown
  BY DEF Write!Fill
<1>1. h \in Nat /\ h \in 1..Len(heap) /\ heap[h] \in Write!Segment /\ CHUNK_SIZE \in Nat \ {0}
  BY DEF Write!WriteStreamAssumption
<1>2. fresh \in Write!Segment
  BY <1>1 DEF Write!NewSegment, Write!Segment, Write!NULL
<1>3. /\ grown[h] = [first |-> heap[h].first, mySize |-> heap[h].mySize + amount,
                     myNext |-> heap[h].myNext]
      /\ grown[h] \in Write!Segment
  <2>1. grown[h] = [heap[h] EXCEPT !.mySize = @ + amount]
    BY <1>1
  <2> HIDE DEF grown
  <2>2. heap[h].mySize + amount \in 0..CHUNK_SIZE
    BY <1>1 DEF Write!Segment
  <2> QED BY <1>1, <2>1, <2>2 DEF Write!Segment
<1>4. /\ grown \in Seq(Write!Segment) /\ Len(grown) = h
      /\ \A i \in 1..(h - 1) : grown[i] = heap[i]
  BY <1>1, <1>3
<1> HIDE DEF grown
<1>5. /\ linked[h] = [first |-> heap[h].first, mySize |-> heap[h].mySize + amount,
                      myNext |-> h + 1]
      /\ linked[h] \in Write!Segment
  <2>1. linked[h] = [grown[h] EXCEPT !.myNext = h + 1]
    BY SMTT(30), <1>1, <1>4
  <2> HIDE DEF linked
  <2>2. linked[h] = [first |-> heap[h].first, mySize |-> heap[h].mySize + amount,
                     myNext |-> h + 1]
    BY <1>3, <2>1
  <2>3. heap[h].first \in Nat /\ h + 1 \in Nat /\ heap[h].mySize + amount \in 0..CHUNK_SIZE
    BY <1>1 DEF Write!Segment
  <2> QED BY <2>2, <2>3 DEF Write!Segment
<1>6. /\ linked \in Seq(Write!Segment) /\ Len(linked) = h
      /\ \A i \in 1..(h - 1) : linked[i] = heap[i]
  BY <1>1, <1>4, <1>5
<1> HIDE DEF linked, fresh
<1>7. heapAfter = IF full THEN Append(linked, fresh) ELSE grown
  <2>1. grown[h].mySize = heap[h].mySize + amount
    BY <1>3
  <2> QED BY <1>0, <2>1
<1>8. CASE full
  <2>1. /\ heapAfter \in Seq(Write!Segment) /\ Len(heapAfter) = h + 1
        /\ \A i \in 1..h : heapAfter[i] = linked[i]
        /\ heapAfter[h + 1] = fresh
    BY <1>1, <1>2, <1>6, <1>7, <1>8
  <2> QED BY <2>1, <1>1, <1>5, <1>6, <1>8 DEF fresh
<1>9. CASE ~full
  BY <1>1, <1>3, <1>4, <1>7, <1>9
<1> QED BY <1>8, <1>9

\* A segment of the heap, or any of its indices, has the type it should have.
LEMMA HeapType ==
  ASSUME Write!TypeOK
  PROVE  /\ wSegments \in Seq(Write!Segment) /\ Len(wSegments) \in Nat
         /\ \A i \in 1..Len(wSegments) :
              /\ wSegments[i] \in Write!Segment /\ wSegments[i].first \in Nat
              /\ wSegments[i].mySize \in 0..CHUNK_SIZE /\ wSegments[i].myNext \in Nat
         /\ wHead \in 0..Len(wSegments) /\ wWriteHead \in 0..Len(wSegments)
         /\ wAt \in 0..Len(wSegments) /\ wLast \in 0..Len(wSegments)
         /\ wQueue \in 0..Len(wSegments)
         /\ wLeft \in Nat /\ wWritten \in Nat /\ wTaken \in Nat
<1>1. wSegments \in Seq(Write!Segment) /\ Len(wSegments) \in Nat
  BY DEF Write!TypeOK
<1>2. \A i \in 1..Len(wSegments) : wSegments[i] \in Write!Segment
  BY <1>1
<1>3. \A i \in 1..Len(wSegments) :
        /\ wSegments[i] \in Write!Segment /\ wSegments[i].first \in Nat
        /\ wSegments[i].mySize \in 0..CHUNK_SIZE /\ wSegments[i].myNext \in Nat
  BY <1>2 DEF Write!Segment
<1> QED BY <1>1, <1>3 DEF Write!TypeOK, Write!Pointer

\* The bytes that have been handed over are not more than were written.
LEMMA GivenIsWritten ==
  ASSUME Write!WriteStreamAssumption, Write!TypeOK, Write!List
  PROVE  Write!Given \in Nat /\ Write!Given <= wWritten
<1>1. CASE wHead = Write!NULL
  BY <1>1, HeapType DEF Write!Given
<1>2. CASE wHead # Write!NULL
  <2>1. wHead \in 1..Len(wSegments) /\ wWriteHead \in 1..Len(wSegments) /\ wHead <= wWriteHead
    BY <1>2, HeapType DEF Write!List, Write!NULL
  <2>2. wSegments[wHead].first <= wSegments[wWriteHead].first
    BY <1>2, <2>1 DEF Write!List
  <2>3. wSegments[wWriteHead].first + wSegments[wWriteHead].mySize = wWritten
    BY <1>2 DEF Write!List
  <2>4. /\ wSegments[wHead].first \in Nat /\ wSegments[wWriteHead].first \in Nat
        /\ wSegments[wWriteHead].mySize \in Nat
    BY <2>1, HeapType DEF Write!WriteStreamAssumption
  <2>5. Write!Given = wSegments[wHead].first
    BY <1>2 DEF Write!Given
  <2> QED BY <2>2, <2>3, <2>4, <2>5
<1> QED BY <1>1, <1>2

\* What an iteration of WriteData does to the variables, put together: it adds
\* `amount` bytes to segment h, which held `old` from position `start` on, and
\* the segments before it stay as they are.
Iteration(h, amount, full, old, start) ==
  /\ h = IF wWriteHead = Write!NULL THEN Len(wSegments) + 1 ELSE wWriteHead
  /\ wWriteHead = Write!NULL \/ h = Len(wSegments)
  /\ start = IF wWriteHead = Write!NULL THEN wWritten ELSE wSegments[h].first
  /\ start + old = wWritten
  /\ old + amount <= CHUNK_SIZE
  /\ full <=> old + amount = CHUNK_SIZE
  /\ wSegments' \in Seq(Write!Segment)
  /\ Len(wSegments') = IF full THEN h + 1 ELSE h
  /\ \A i \in 1..(h - 1) : wSegments'[i] = wSegments[i]
  /\ wSegments'[h] = [first |-> start, mySize |-> old + amount,
                     myNext |-> IF full THEN h + 1 ELSE Write!NULL]
  /\ full => wSegments'[h + 1] = Write!NewSegment(wWritten + amount)
  /\ wHead' = IF wWriteHead = Write!NULL THEN h ELSE wHead
  /\ wWriteHead' = Len(wSegments')
  /\ wLeft' = wLeft - amount
  /\ wWritten' = wWritten + amount

\* Every iteration is of that form.
LEMMA WriteIterationResult ==
  ASSUME Write!WriteStreamAssumption, Write!IInv, Write!WriteIteration
  PROVE  \E h \in Nat, amount \in 1..wLeft, full \in BOOLEAN, old \in 0..(CHUNK_SIZE - 1),
            start \in Nat : Iteration(h, amount, full, old, start)
<1> USE DEF Write!IInv
<1> DEFINE fresh  == wWriteHead = Write!NULL
           heap   == IF fresh THEN Append(wSegments, Write!NewSegment(wWritten)) ELSE wSegments
           h      == IF fresh THEN Len(heap) ELSE wWriteHead
           amount == Write!Lesser(CHUNK_SIZE - heap[h].mySize, wLeft)
           heapAfter == Write!Fill(heap, h, amount)
           full   == heap[h].mySize + amount = CHUNK_SIZE
<1>1. /\ wLeft > 0 /\ wSegments' = heapAfter
      /\ wHead' = IF fresh THEN h ELSE wHead
      /\ wWriteHead' = IF heapAfter[h].myNext # Write!NULL THEN heapAfter[h].myNext ELSE h
      /\ wLeft' = wLeft - amount
      /\ wWritten' = wWritten + amount
  BY DEF Write!WriteIteration
<1>2. /\ heap \in Seq(Write!Segment) /\ heap # <<>> /\ h = Len(heap) /\ h \in Nat \ {0}
      /\ h = IF wWriteHead = Write!NULL THEN Len(wSegments) + 1 ELSE wWriteHead
      /\ heap[h].mySize \in 0..(CHUNK_SIZE - 1)
      /\ heap[h].myNext = Write!NULL
      /\ heap[h].first \in Nat
      /\ heap[h].first = IF fresh THEN wWritten ELSE wSegments[h].first
      /\ heap[h].first + heap[h].mySize = wWritten
      /\ \A i \in 1..(h - 1) : heap[i] = wSegments[i]
  <2>1. CASE fresh
    <3>1. Write!NewSegment(wWritten) \in Write!Segment
      BY HeapType DEF Write!NewSegment, Write!Segment, Write!NULL, Write!WriteStreamAssumption
    <3>2. /\ heap \in Seq(Write!Segment) /\ Len(heap) = Len(wSegments) + 1
          /\ heap[Len(wSegments) + 1] = Write!NewSegment(wWritten)
          /\ \A i \in 1..Len(wSegments) : heap[i] = wSegments[i]
      BY <2>1, <3>1, HeapType
    <3> HIDE DEF heap
    <3> QED BY <2>1, <3>2, HeapType DEF Write!NewSegment, Write!WriteStreamAssumption
  <2>2. CASE ~fresh
    <3>1. wHead # Write!NULL /\ wWriteHead = Len(wSegments) /\ wWriteHead # 0
      BY <2>2 DEF Write!List, Write!NULL
    <3>2. /\ wSegments[wWriteHead].mySize < CHUNK_SIZE
          /\ wSegments[wWriteHead].myNext = Write!NULL
          /\ wSegments[wWriteHead].first + wSegments[wWriteHead].mySize = wWritten
      BY <3>1 DEF Write!List
    <3>3. heap = wSegments /\ h = wWriteHead
      BY <2>2
    <3> HIDE DEF heap, h
    <3> QED BY <2>2, <3>1, <3>2, <3>3, HeapType DEF Write!WriteStreamAssumption
  <2> QED BY <2>1, <2>2
<1> HIDE DEF heap, h
<1>3. amount \in 1..wLeft /\ heap[h].mySize + amount <= CHUNK_SIZE
  <2> HIDE DEF Write!IInv, fresh, full, heapAfter
  <2>1. wLeft \in Nat /\ wLeft > 0
    BY <1>1, HeapType DEF Write!IInv
  <2>2. heap[h].mySize \in 0..(CHUNK_SIZE - 1)
    BY <1>2
  <2>3. CHUNK_SIZE \in Nat
    BY DEF Write!WriteStreamAssumption
  <2> DEFINE space == CHUNK_SIZE - heap[h].mySize
  <2>4. space \in Nat /\ space > 0 /\ heap[h].mySize + space = CHUNK_SIZE
    BY <2>2, <2>3
  <2>5. amount = Write!Lesser(space, wLeft)
    OBVIOUS
  <2> HIDE DEF space, amount
  <2>6. amount \in 1..wLeft /\ amount <= space
    BY <2>1, <2>4, <2>5 DEF Write!Lesser
  <2> QED BY <2>2, <2>3, <2>4, <2>6
<1>4. full \in BOOLEAN /\ wWritten \in Nat /\ amount \in Nat
  BY <1>3, HeapType
<1> HIDE DEF amount
<1>5. /\ heapAfter \in Seq(Write!Segment)
      /\ Len(heapAfter) = IF full THEN h + 1 ELSE h
      /\ \A i \in 1..(h - 1) : heapAfter[i] = heap[i]
      /\ heapAfter[h] = [first  |-> heap[h].first,
                      mySize |-> heap[h].mySize + amount,
                      myNext |-> IF full THEN h + 1 ELSE heap[h].myNext]
      /\ full => heapAfter[h + 1] = Write!NewSegment(wWritten + amount)
  <2>1. heap[h].mySize + amount <= CHUNK_SIZE
    BY <1>3
  <2> QED BY <1>2, <1>4, <2>1, FillResult
<1> HIDE DEF heapAfter
<1>6. wWriteHead' = Len(heapAfter)
  <2>1. heapAfter[h].myNext = IF full THEN h + 1 ELSE Write!NULL
    BY <1>2, <1>5
  <2> QED BY <1>1, <1>2, <1>5, <2>1 DEF Write!NULL
<1>7. wWriteHead = Write!NULL \/ h = Len(wSegments)
  BY <1>2, HeapType DEF Write!List, Write!NULL
<1>8. \A i \in 1..(h - 1) : wSegments'[i] = wSegments[i]
  BY <1>1, <1>2, <1>5
<1> DEFINE old == heap[h].mySize
           start == heap[h].first
<1>9. /\ h \in Nat /\ amount \in 1..wLeft /\ full \in BOOLEAN
      /\ old \in 0..(CHUNK_SIZE - 1) /\ start \in Nat
  BY <1>2, <1>3, <1>4
<1>10. /\ start + old = wWritten /\ old + amount <= CHUNK_SIZE
       /\ full <=> old + amount = CHUNK_SIZE
       /\ start = IF wWriteHead = Write!NULL THEN wWritten ELSE wSegments[h].first
  BY <1>2, <1>3
<1>11. wSegments'[h] = [first |-> start, mySize |-> old + amount,
                       myNext |-> IF full THEN h + 1 ELSE Write!NULL]
  BY <1>1, <1>2, <1>5
<1>12. /\ wSegments' \in Seq(Write!Segment) /\ Len(wSegments') = IF full THEN h + 1 ELSE h
       /\ full => wSegments'[h + 1] = Write!NewSegment(wWritten + amount)
       /\ wHead' = IF wWriteHead = Write!NULL THEN h ELSE wHead
       /\ wWriteHead' = Len(wSegments')
       /\ wLeft' = wLeft - amount /\ wWritten' = wWritten + amount
  BY <1>1, <1>5, <1>6
<1> HIDE DEF full, old, start
<1>13. h = IF wWriteHead = Write!NULL THEN Len(wSegments) + 1 ELSE wWriteHead
  BY <1>2
<1> QED BY <1>7, <1>8, <1>9, <1>10, <1>11, <1>12, <1>13, Zenon DEF Iteration

\* What the list is when there is one, spelled out.
LEMMA ListFacts ==
  ASSUME Write!WriteStreamAssumption, Write!TypeOK, Write!List, wHead # Write!NULL
  PROVE  /\ wHead \in 1..Len(wSegments) /\ wWriteHead = Len(wSegments)
         /\ wHead <= wWriteHead
         /\ wSegments[wWriteHead].mySize < CHUNK_SIZE /\ wSegments[wWriteHead].myNext = Write!NULL
         /\ wSegments[wWriteHead].first + wSegments[wWriteHead].mySize = wWritten
         /\ \A i \in wHead..(wWriteHead - 1) :
              /\ wSegments[i].mySize = CHUNK_SIZE /\ wSegments[i].myNext = i + 1
              /\ wSegments[i + 1].first = wSegments[i].first + CHUNK_SIZE
         /\ \A i, j \in wHead..wWriteHead : i <= j => wSegments[i].first <= wSegments[j].first
BY HeapType DEF Write!List, Write!NULL

\* Writing changes nothing about what has been handed over.
LEMMA WriteIterationGiven ==
  ASSUME Write!WriteStreamAssumption, Write!IInv, Write!WriteIteration
  PROVE  Write!Given' = Write!Given
<1>1. PICK h \in Nat, amount \in 1..wLeft, full \in BOOLEAN, old \in 0..(CHUNK_SIZE - 1),
           start \in Nat : Iteration(h, amount, full, old, start)
  BY WriteIterationResult
<1> USE DEF Iteration
<1>2. Write!TypeOK /\ Write!List
  BY DEF Write!IInv
<1>3. wSegments'[h].first = start
  BY <1>1
<1>4. CASE wHead = Write!NULL
  <2>1. /\ wWriteHead = Write!NULL /\ Write!Given = wWritten
    BY <1>2, <1>4 DEF Write!List, Write!Given
  <2>2. wHead' = h /\ h # Write!NULL /\ start = wWritten
    BY <1>1, <1>2, <2>1, HeapType DEF Write!NULL
  <2> QED BY <1>3, <2>1, <2>2 DEF Write!Given
<1>5. CASE wHead # Write!NULL
  <2>1. /\ wHead \in 1..Len(wSegments) /\ wWriteHead = Len(wSegments) /\ wHead <= wWriteHead
        /\ wWriteHead # Write!NULL
    BY <1>2, <1>5, ListFacts DEF Write!NULL
  <2>2. wHead' = wHead /\ h = Len(wSegments) /\ start = wSegments[h].first
    BY <1>1, <2>1
  <2>3. wSegments'[wHead].first = wSegments[wHead].first
    <3>1. CASE wHead = h
      BY <1>3, <2>2, <3>1
    <3>2. CASE wHead # h
      <4>1. wHead \in 1..(h - 1)
        BY <1>2, <2>1, <2>2, <3>2, HeapType
      <4> QED BY <1>1, <4>1
    <3> QED BY <3>1, <3>2
  <2> QED BY <1>5, <2>2, <2>3 DEF Write!Given
<1> QED BY <1>4, <1>5

\* An iteration of WriteData keeps the list in order, and leaves the segments of
\* a detached list alone, which are all in front of the one it writes to.
LEMMA WriteIterationInvariant ==
  ASSUME Write!WriteStreamAssumption, Write!IInv, Write!WriteIteration
  PROVE  Write!IInv'
<1>1. PICK h \in Nat, amount \in 1..wLeft, full \in BOOLEAN, old \in 0..(CHUNK_SIZE - 1),
           start \in Nat : Iteration(h, amount, full, old, start)
  BY WriteIterationResult
<1> USE DEF Iteration
<1>2. wPc = "write" /\ UNCHANGED <<wPc, wOp, wAt, wLast, wQueue, wStreamGood, wTaken, wSink>>
  BY DEF Write!WriteIteration
<1>3. Write!TypeOK /\ Write!List /\ Write!Queue /\ Write!Running
  BY DEF Write!IInv
<1>4. /\ wSegments \in Seq(Write!Segment) /\ Len(wSegments) \in Nat
      /\ \A i \in 1..Len(wSegments) :
           /\ wSegments[i].first \in Nat /\ wSegments[i].mySize \in 0..CHUNK_SIZE
           /\ wSegments[i].myNext \in Nat
      /\ wHead \in 0..Len(wSegments) /\ wWriteHead \in 0..Len(wSegments)
      /\ wQueue \in 0..Len(wSegments)
      /\ wLeft \in Nat /\ wWritten \in Nat /\ wTaken \in Nat
      /\ CHUNK_SIZE \in Nat /\ CHUNK_SIZE > 0 /\ MaxBytesWritten \in Nat
  BY <1>3, HeapType DEF Write!WriteStreamAssumption
<1>5. /\ h \in 1..(Len(wSegments) + 1) /\ Len(wSegments) <= Len(wSegments')
      /\ Len(wSegments') \in h..(h + 1)
      /\ wHead' \in 1..h
      /\ wHead = Write!NULL => wWriteHead = Write!NULL /\ h = Len(wSegments) + 1 /\ wHead' = h
      /\ wHead # Write!NULL => /\ wWriteHead = h /\ h = Len(wSegments) /\ wHead' = wHead
                          /\ wHead <= h
  BY <1>1, <1>3, <1>4 DEF Write!List, Write!NULL
<1>6. /\ wSegments'[h].first = start /\ wSegments'[h].mySize = old + amount
      /\ wSegments'[h].myNext = IF full THEN h + 1 ELSE Write!NULL
      /\ full => /\ wSegments'[h + 1].first = wWritten + amount
                 /\ wSegments'[h + 1].mySize = 0 /\ wSegments'[h + 1].myNext = Write!NULL
  BY SMTT(30), <1>1 DEF Write!NewSegment
<1> DEFINE length == Len(wSegments')
<1>a. /\ amount \in Nat /\ amount > 0 /\ old \in Nat /\ start \in Nat /\ h \in Nat
      /\ start + old = wWritten /\ wWritten' = wWritten + amount
      /\ old + amount <= CHUNK_SIZE /\ (full <=> old + amount = CHUNK_SIZE)
      /\ length = (IF full THEN h + 1 ELSE h) /\ wWriteHead' = length
  BY <1>1, <1>4
<1>b. \A i \in 1..(h - 1) : wSegments'[i] = wSegments[i]
  BY <1>1
<1>7. Write!TypeOK'
  BY <1>1, <1>2, <1>3, <1>4, <1>5 DEF Write!TypeOK, Write!Pointer
<1>8. Write!List'
  <2>1. (wHead = Write!NULL <=> wWriteHead = Write!NULL)'
    BY <1>1, <1>4, <1>5 DEF Write!NULL
  <2>2. /\ wHead' <= wWriteHead' /\ wWriteHead' = Len(wSegments')
        /\ wSegments'[wWriteHead'].mySize < CHUNK_SIZE
        /\ wSegments'[wWriteHead'].myNext = Write!NULL
        /\ wSegments'[wWriteHead'].first + wSegments'[wWriteHead'].mySize = wWritten'
    <3>1. wHead' <= wWriteHead' /\ wWriteHead' = Len(wSegments')
      BY <1>a, <1>5
    <3>2. CASE full
      BY <3>1, <3>2, <1>a, <1>4, <1>6
    <3>3. CASE ~full
      <4>1. /\ wWriteHead' = h /\ old + amount < CHUNK_SIZE
            /\ start + (old + amount) = wWritten'
        BY <3>3, <1>a, <1>4
      <4>2. wSegments'[h].first = start /\ wSegments'[h].mySize = old + amount /\ wSegments'[h].myNext = Write!NULL
        BY <1>6, <3>3
      <4> QED BY <3>1, <4>1, <4>2
    <3> QED BY <3>2, <3>3
  <2>3. \A i \in wHead'..(h - 1) :
          /\ i \in 1..Len(wSegments) /\ wHead # Write!NULL /\ i \in wHead..(wWriteHead - 1)
          /\ wSegments'[i] = wSegments[i] /\ wSegments[i].mySize = CHUNK_SIZE
          /\ wSegments[i].myNext = i + 1 /\ wSegments[i + 1].first = wSegments[i].first + CHUNK_SIZE
    <3> SUFFICES ASSUME NEW i \in wHead'..(h - 1)
                 PROVE  /\ i \in 1..Len(wSegments) /\ wHead # Write!NULL
                        /\ i \in wHead..(wWriteHead - 1)
                        /\ wSegments'[i] = wSegments[i] /\ wSegments[i].mySize = CHUNK_SIZE
                        /\ wSegments[i].myNext = i + 1
                        /\ wSegments[i + 1].first = wSegments[i].first + CHUNK_SIZE
      OBVIOUS
    <3>1. /\ i \in 1..(h - 1) /\ wHead # Write!NULL /\ i \in 1..Len(wSegments)
          /\ i \in wHead..(wWriteHead - 1)
      BY <1>a, <1>4, <1>5
    <3>2. wSegments'[i] = wSegments[i]
      BY <1>b, <3>1
    <3> QED BY <1>3, <3>1, <3>2 DEF Write!List
  <2>4. \A i \in wHead'..h : wSegments'[i].first = IF i = h THEN start ELSE wSegments[i].first
    <3> TAKE i \in wHead'..h
    <3>1. i = h \/ i \in wHead'..(h - 1)
      BY <1>a, <1>5
    <3> QED BY <1>6, <1>a, <2>3, <3>1
  <2>5. \A i \in wHead'..(wWriteHead' - 1) :
          /\ wSegments'[i].mySize = CHUNK_SIZE /\ wSegments'[i].myNext = i + 1
          /\ wSegments'[i + 1].first = wSegments'[i].first + CHUNK_SIZE
    <3> TAKE i \in wHead'..(wWriteHead' - 1)
    <3>1. CASE i = h
      <4>1. full
        BY <1>a, <1>5, <3>1
      <4>2. old + amount = CHUNK_SIZE /\ wWritten + amount = start + CHUNK_SIZE
        BY <1>a, <1>4, <4>1
      <4>3. /\ wSegments'[h].first = start /\ wSegments'[h].mySize = CHUNK_SIZE
            /\ wSegments'[h].myNext = h + 1 /\ wSegments'[h + 1].first = start + CHUNK_SIZE
        BY <1>6, <4>1, <4>2
      <4> QED BY <3>1, <4>3
    <3>2. CASE i # h
      <4>1. i \in wHead'..(h - 1) /\ i + 1 \in wHead'..h
        BY <1>1, <1>4, <1>5, <3>2
      <4>2. wSegments'[i + 1].first = wSegments[i + 1].first
        <5>1. i + 1 = h => wWriteHead # Write!NULL
          BY <1>4, <1>5, <2>3, <4>1 DEF Write!NULL
        <5> QED BY <1>1, <2>4, <4>1, <5>1
      <4> QED BY <2>3, <4>1, <4>2
    <3> QED BY <3>1, <3>2
  <2>6. \A i, j \in wHead'..wWriteHead' :
          i <= j => wSegments'[i].first <= wSegments'[j].first
    <3>1. \A i, j \in wHead'..h : i <= j => wSegments'[i].first <= wSegments'[j].first
      <4>1. CASE wHead = Write!NULL
        BY <1>1, <1>4, <1>5, <2>4, <4>1
      <4>2. CASE wHead # Write!NULL
        <5>1. start = wSegments[h].first
          BY <1>1, <1>4, <1>5, <4>2 DEF Write!NULL
        <5>2. \A i \in wHead..h : wSegments'[i].first = wSegments[i].first
          BY <2>4, <5>1, <1>5, <4>2
        <5>3. \A i, j \in wHead..h : i <= j => wSegments[i].first <= wSegments[j].first
          BY <1>3, <1>5, <4>2 DEF Write!List
        <5> QED BY <5>2, <5>3, <1>5, <4>2
      <4> QED BY <4>1, <4>2
    <3>2. \A i \in wHead'..h : wSegments'[i].first \in Nat /\ wSegments'[i].first <= start
      <4>1. \A i \in wHead'..h : wSegments'[i].first \in Nat
        <5> TAKE i \in wHead'..h
        <5>1. CASE i = h
          BY <1>6, <1>a, <5>1
        <5>2. CASE i # h
          <6>1. i \in wHead'..(h - 1)
            BY <1>a, <1>5, <5>2
          <6> QED BY <1>4, <2>3, <6>1
        <5> QED BY <5>1, <5>2
      <4>2. h \in wHead'..h /\ wSegments'[h].first = start
        BY <1>5, <1>6
      <4>3. \A i \in wHead'..h : i <= h
        BY <1>5
      <4> QED BY <3>1, <4>1, <4>2, <4>3
    <3>3. CASE full
      <4>1. /\ wWriteHead' = h + 1 /\ wSegments'[h + 1].first = wWritten + amount
            /\ wWritten + amount \in Nat /\ start <= wWritten + amount
        <5>1. wWriteHead' = h + 1 /\ wWritten + amount \in Nat /\ start <= wWritten + amount
          <6>1. wWritten \in Nat
            BY <1>4
          <6> QED BY <1>a, <3>3, <6>1
        <5>2. wSegments'[h + 1].first = wWritten + amount
          BY <1>6, <3>3
        <5> QED BY <5>1, <5>2
      <4>2. \A i \in wHead'..wWriteHead' : i \in wHead'..h \/ i = h + 1
        BY <1>5, <4>1
      <4>3. \A i \in wHead'..h : wSegments'[i].first <= wWritten + amount
        BY <3>2, <4>1
      <4> SUFFICES ASSUME NEW i \in wHead'..wWriteHead', NEW j \in wHead'..wWriteHead', i <= j
                   PROVE  wSegments'[i].first <= wSegments'[j].first
        OBVIOUS
      <4>4. CASE j = h + 1
        BY <4>1, <4>2, <4>3, <4>4
      <4>5. CASE j # h + 1
        <5>1. i \in wHead'..h /\ j \in wHead'..h
          BY <4>2, <4>5, <1>a, <1>5
        <5> QED BY <3>1, <5>1
      <4> QED BY <4>4, <4>5
    <3>4. CASE ~full
      BY <3>1, <3>4, <1>1
    <3> QED BY <3>3, <3>4
  <2> QED BY <2>1, <2>2, <2>5, <2>6 DEF Write!List
<1>9. Write!Given' = Write!Given /\ Write!Given \in Nat
  BY <1>3, WriteIterationGiven, GivenIsWritten
<1>10. Write!Queue'
  <2> SUFFICES ASSUME wQueue' # Write!NULL
               PROVE  Write!Queue'
    BY DEF Write!Queue
  <2>1. wQueue \in 1..(h - 1) /\ wQueue < wHead'
    BY <1>2, <1>3, <1>4, <1>5 DEF Write!Queue, Write!NULL
  <2>2. wSegments'[wQueue] = wSegments[wQueue]
    BY <1>1, <2>1
  <2>3. \A i \in wQueue..Len(wSegments') : i < wHead' =>
          i \in wQueue..Len(wSegments) /\ (wHead # Write!NULL => i < wHead) /\ wSegments'[i] = wSegments[i]
    <3> TAKE i \in wQueue..Len(wSegments')
    <3> HAVE i < wHead'
    <3>1. i \in 1..(h - 1)
      BY <1>a, <1>5, <2>1
    <3>2. i \in wQueue..Len(wSegments)
      <4>1. h - 1 <= Len(wSegments) /\ Len(wSegments) \in Nat
        BY <1>a, <1>4, <1>5
      <4> QED BY <1>a, <2>1, <3>1, <4>1
    <3>3. wHead # Write!NULL => i < wHead
      BY <1>5
    <3> QED BY <1>b, <3>1, <3>2, <3>3
  <2>4. \A i \in wQueue..Len(wSegments) : (wHead # Write!NULL => i < wHead) =>
          /\ wSegments[i].mySize > 0
          /\ IF wSegments[i].first + wSegments[i].mySize = Write!Given
             THEN wSegments[i].myNext = Write!NULL
             ELSE /\ wSegments[i].myNext = i + 1
                  /\ i < Len(wSegments) /\ (wHead # Write!NULL => i + 1 < wHead)
                  /\ wSegments[i + 1].first = wSegments[i].first + wSegments[i].mySize
                  /\ wSegments[i].first + wSegments[i].mySize < Write!Given
    BY <1>2, <1>3 DEF Write!Queue
  <2>5. wSegments[wQueue].first = wTaken /\ wTaken < Write!Given
    BY <1>2, <1>3 DEF Write!Queue
  <2>6. ASSUME NEW i \in wQueue..Len(wSegments'), i < wHead'
        PROVE  /\ wSegments'[i].mySize > 0
               /\ IF wSegments'[i].first + wSegments'[i].mySize = Write!Given
                  THEN wSegments'[i].myNext = Write!NULL
                  ELSE /\ wSegments'[i].myNext = i + 1
                       /\ i < Len(wSegments') /\ i + 1 < wHead'
                       /\ wSegments'[i + 1].first = wSegments'[i].first + wSegments'[i].mySize
                       /\ wSegments'[i].first + wSegments'[i].mySize < Write!Given
    <3>1. i \in wQueue..Len(wSegments) /\ (wHead # Write!NULL => i < wHead) /\ wSegments'[i] = wSegments[i]
      BY <2>3, <2>6
    <3>2. CASE wSegments[i].first + wSegments[i].mySize = Write!Given
      BY <2>4, <3>1, <3>2
    <3>3. CASE wSegments[i].first + wSegments[i].mySize # Write!Given
      <4>1. /\ wSegments[i].mySize > 0 /\ wSegments[i].myNext = i + 1
            /\ i < Len(wSegments) /\ (wHead # Write!NULL => i + 1 < wHead)
            /\ wSegments[i + 1].first = wSegments[i].first + wSegments[i].mySize
            /\ wSegments[i].first + wSegments[i].mySize < Write!Given
        BY <2>4, <3>1, <3>3
      <4>2. i + 1 \in 1..(h - 1) /\ i + 1 < wHead' /\ i < Len(wSegments')
        BY <1>4, <1>5, <2>1, <4>1
      <4>3. wSegments'[i + 1] = wSegments[i + 1]
        BY <1>1, <4>2
      <4> QED BY <3>1, <3>3, <4>1, <4>2, <4>3
    <3> QED BY <3>2, <3>3
  <2>7. wHead' # Write!NULL
    BY <1>5 DEF Write!NULL
  <2>8. wQueue' = wQueue /\ wTaken' = wTaken
    BY <1>2
  <2> QED BY <1>9, <2>1, <2>2, <2>5, <2>6, <2>7, <2>8 DEF Write!Queue
<1>11. Write!Running'
  BY <1>2, <1>3, <1>9 DEF Write!Running
<1> QED BY <1>7, <1>8, <1>10, <1>11 DEF Write!IInv

-----------------------------------------------------------------------------
(* Get, and what becomes of the list it returns *)

\* When the write head holds data, the whole list can be handed over.
LEMMA GetAllInvariant ==
  ASSUME Write!WriteStreamAssumption, Write!IInv, Write!GetAll
  PROVE  Write!IInv'
<1>1. Write!TypeOK /\ Write!List /\ Write!Queue /\ Write!Running
  BY DEF Write!IInv
<1>2. /\ wPc = "get" /\ wWriteHead # Write!NULL /\ wSegments[wWriteHead].mySize # 0
      /\ wQueue' = wHead /\ wHead' = Write!NULL /\ wWriteHead' = Write!NULL /\ Write!Return
      /\ UNCHANGED <<wSegments, wLeft, wAt, wLast, wStreamGood, wWritten, wTaken, wSink>>
  BY DEF Write!GetAll
<1>3. wHead # Write!NULL /\ wQueue = Write!NULL /\ wTaken = Write!Given /\ Write!Given = wSegments[wHead].first
  BY <1>1, <1>2 DEF Write!List, Write!Running, Write!Given
<1>4. wOp \in {"Get", "WriteAll"} /\ wLeft = 0
  BY <1>1, <1>2 DEF Write!Running
<1>5. Write!TypeOK'
  BY <1>1, <1>2, <1>4 DEF Write!TypeOK, Write!Pointer, Write!Return, Write!NULL
<1>6. Write!List'
  BY <1>2 DEF Write!List
<1>7. Write!Given' = wWritten
  BY <1>2 DEF Write!Given
<1>8. Write!Queue'
  <2>1. wTaken < wWritten /\ wHead \in 1..Len(wSegments)
    <3>1. wSegments[wHead].first <= wSegments[wWriteHead].first
      BY <1>1, <1>3, ListFacts
    <3>2. wSegments[wWriteHead].mySize > 0 /\ wWriteHead \in 1..Len(wSegments)
      BY <1>1, <1>2, <1>3, ListFacts, HeapType DEF Write!NULL
    <3>3. wHead \in 1..Len(wSegments) /\ wSegments[wWriteHead].first + wSegments[wWriteHead].mySize = wWritten
      BY <1>1, <1>3, ListFacts
    <3>4. /\ wSegments[wHead].first \in Nat /\ wSegments[wWriteHead].first \in Nat
          /\ wSegments[wWriteHead].mySize \in 0..CHUNK_SIZE
      BY <1>1, <3>2, <3>3, HeapType
    <3> QED BY <1>3, <3>1, <3>2, <3>3, <3>4
  <2>2. ASSUME NEW i \in wHead..Len(wSegments)
        PROVE  /\ wSegments[i].mySize > 0
               /\ IF wSegments[i].first + wSegments[i].mySize = wWritten
                  THEN wSegments[i].myNext = Write!NULL
                  ELSE /\ wSegments[i].myNext = i + 1 /\ i < Len(wSegments)
                       /\ wSegments[i + 1].first = wSegments[i].first + wSegments[i].mySize
                       /\ wSegments[i].first + wSegments[i].mySize < wWritten
    <3>1. /\ i \in wHead..wWriteHead /\ i \in 1..Len(wSegments) /\ wWriteHead = Len(wSegments)
          /\ wHead \in 1..Len(wSegments) /\ Len(wSegments) \in Nat
      BY <1>1, <1>3, ListFacts, HeapType
    <3>2. CASE i = wWriteHead
      BY <1>1, <1>2, <1>3, <3>1, <3>2, ListFacts, HeapType
    <3>3. CASE i # wWriteHead
      <4>1. /\ i \in wHead..(wWriteHead - 1) /\ i + 1 \in wHead..wWriteHead
            /\ i + 1 \in 1..Len(wSegments) /\ wWriteHead \in wHead..wWriteHead
            /\ i + 1 <= wWriteHead
        BY <3>1, <3>3
      <4>2. /\ wSegments[i].mySize = CHUNK_SIZE /\ wSegments[i].myNext = i + 1
            /\ wSegments[i + 1].first = wSegments[i].first + CHUNK_SIZE
            /\ wSegments[i + 1].first <= wSegments[wWriteHead].first
            /\ wSegments[wWriteHead].first + wSegments[wWriteHead].mySize = wWritten
        BY <1>1, <1>3, <4>1, ListFacts
      <4>3. wSegments[wWriteHead].mySize > 0 /\ CHUNK_SIZE > 0 /\ CHUNK_SIZE \in Nat
        BY <1>1, <1>2, <3>1, <4>1, HeapType DEF Write!WriteStreamAssumption
      <4>4. /\ wSegments[i].first \in Nat /\ wSegments[i + 1].first \in Nat
            /\ wSegments[wWriteHead].first \in Nat /\ wSegments[wWriteHead].mySize \in Nat
            /\ wWritten \in Nat
        <5>1. /\ \A j \in 1..Len(wSegments) : wSegments[j].first \in Nat
                                            /\ wSegments[j].mySize \in 0..CHUNK_SIZE
              /\ wWritten \in Nat
          BY <1>1, HeapType
        <5>2. \A n \in 0..CHUNK_SIZE : n \in Nat
          OBVIOUS
        <5>3. wWriteHead \in 1..Len(wSegments)
          BY ONLY <3>1
        <5> QED BY ONLY <3>1, <4>1, <5>1, <5>2, <5>3
      <4>5. wSegments[i].first + CHUNK_SIZE < wWritten
        <5>1. wSegments[wWriteHead].first < wWritten
          BY <4>2, <4>3, <4>4
        <5>2. wSegments[i + 1].first < wWritten
          BY <4>2, <4>4, <5>1
        <5> QED BY <4>2, <5>2
      <4>6. wSegments[i].first + CHUNK_SIZE # wWritten
        BY <4>3, <4>4, <4>5
      <4>7. i < Len(wSegments)
        BY <3>1, <3>3
      <4> QED BY <4>2, <4>3, <4>5, <4>6, <4>7
    <3> QED BY <3>2, <3>3
  <2> QED BY <1>2, <1>3, <1>7, <2>1, <2>2 DEF Write!Queue
<1>9. Write!Running'
  BY <1>1, <1>2, <1>3, <1>4 DEF Write!Running, Write!Return, Write!NULL
<1> QED BY <1>5, <1>6, <1>8, <1>9 DEF Write!IInv

\* Behind Detach everything written has been handed over.
LEMMA DetachGiven ==
  ASSUME Write!WriteStreamAssumption, Write!IInv, Write!Detach
  PROVE  Write!Given' = wWritten
<1>1. Write!TypeOK /\ Write!List /\ Write!Running
  BY DEF Write!IInv
<1>2. /\ wPc = "detach" /\ wLast # Write!NULL /\ wSegments' = Write!Cut /\ wHead' = wWriteHead
  BY DEF Write!Detach
<1>3. wHead # Write!NULL /\ wSegments[wWriteHead].mySize = 0 /\ wLast < wWriteHead
  BY <1>1, <1>2 DEF Write!Running
<1>4. /\ wWriteHead \in 1..Len(wSegments) /\ wLast \in 0..Len(wSegments)
      /\ wSegments[wWriteHead].first + 0 = wWritten /\ wSegments[wWriteHead].first \in Nat
  <2>1. wWriteHead \in 1..Len(wSegments) /\ wLast \in 0..Len(wSegments)
    BY <1>1, <1>3, ListFacts, HeapType
  <2> QED BY <1>1, <1>3, <2>1, ListFacts, HeapType
<1>5. wSegments'[wWriteHead] = wSegments[wWriteHead]
  BY <1>1, <1>2, <1>3, <1>4, HeapType DEF Write!Cut
<1> QED BY <1>2, <1>4, <1>5 DEF Write!Given, Write!NULL

\* When the write head is empty, the list in front of it is cut off: its last
\* segment ends where the write head begins.
LEMMA DetachInvariant ==
  ASSUME Write!WriteStreamAssumption, Write!IInv, Write!Detach
  PROVE  Write!IInv'
<1>1. Write!TypeOK /\ Write!List /\ Write!Queue /\ Write!Running
  BY DEF Write!IInv
<1>2. /\ wPc = "detach" /\ wAt = wWriteHead /\ wLast # Write!NULL
      /\ wSegments' = [wSegments EXCEPT ![wLast].myNext = Write!NULL]
      /\ wQueue' = wHead /\ wHead' = wWriteHead /\ wAt' = Write!NULL /\ wLast' = Write!NULL /\ Write!Return
      /\ UNCHANGED <<wWriteHead, wLeft, wStreamGood, wWritten, wTaken, wSink>>
  BY DEF Write!Detach, Write!Cut
<1>3. /\ wHead # Write!NULL /\ wQueue = Write!NULL /\ wTaken = Write!Given /\ Write!Given = wSegments[wHead].first
      /\ wSegments[wWriteHead].mySize = 0
      /\ wLast >= wHead /\ wLast < wWriteHead /\ wAt = wLast + 1
      /\ wOp \in {"Get", "WriteAll"} /\ wLeft = 0
  BY <1>1, <1>2 DEF Write!Running, Write!Given
<1>4. /\ wHead \in 1..Len(wSegments) /\ wWriteHead = Len(wSegments)
      /\ wLast = wWriteHead - 1 /\ wLast \in wHead..(wWriteHead - 1)
      /\ wLast \in 1..Len(wSegments) /\ Len(wSegments) \in Nat
  BY <1>1, <1>2, <1>3, ListFacts, HeapType
<1>5. CHUNK_SIZE \in Nat /\ CHUNK_SIZE > 0
  BY DEF Write!WriteStreamAssumption
<1>6. /\ wSegments' \in Seq(Write!Segment) /\ Len(wSegments') = Len(wSegments)
      /\ \A i \in 1..Len(wSegments) :
           /\ wSegments'[i].first = wSegments[i].first
           /\ wSegments'[i].mySize = wSegments[i].mySize
           /\ wSegments'[i].myNext = IF i = wLast THEN Write!NULL ELSE wSegments[i].myNext
  <2>1. wSegments[wLast] \in Write!Segment /\ wSegments \in Seq(Write!Segment)
    BY <1>1, <1>4, HeapType
  <2>2. [wSegments[wLast] EXCEPT !.myNext = Write!NULL] \in Write!Segment
    BY <2>1 DEF Write!Segment, Write!NULL
  <2>3. wSegments' = [wSegments EXCEPT ![wLast] = [wSegments[wLast] EXCEPT !.myNext = Write!NULL]]
    BY <1>2
  <2>4. /\ wSegments' \in Seq(Write!Segment) /\ Len(wSegments') = Len(wSegments)
        /\ \A i \in 1..Len(wSegments) :
             wSegments'[i] = IF i = wLast THEN [wSegments[wLast] EXCEPT !.myNext = Write!NULL]
                            ELSE wSegments[i]
    BY <1>4, <2>1, <2>2, <2>3
  <2> QED BY <2>1, <2>4 DEF Write!Segment
<1>7. Write!TypeOK'
  BY <1>1, <1>2, <1>3, <1>4, <1>6 DEF Write!TypeOK, Write!Pointer, Write!Return, Write!NULL
<1>8. Write!Given' = wWritten
  BY DetachGiven
<1>9. Write!List'
  <2>1. /\ wHead' = Len(wSegments) /\ wWriteHead' = Len(wSegments) /\ wHead' # Write!NULL
        /\ Len(wSegments') = Len(wSegments)
    BY <1>2, <1>4, <1>6 DEF Write!NULL
  <2>2. /\ wSegments'[Len(wSegments)].mySize < CHUNK_SIZE
        /\ wSegments'[Len(wSegments)].myNext = Write!NULL
        /\ wSegments'[Len(wSegments)].first + wSegments'[Len(wSegments)].mySize = wWritten'
    BY <1>1, <1>2, <1>3, <1>4, <1>6, ListFacts
  <2>3. wSegments'[Len(wSegments)].first \in Nat
    <3>1. wSegments[Len(wSegments)].first \in Nat /\ Len(wSegments) \in 1..Len(wSegments)
      BY <1>1, <1>4, HeapType
    <3> QED BY <3>1, <1>6
  <2> QED BY <1>4, <2>1, <2>2, <2>3 DEF Write!List
<1>10. Write!Queue'
  <2>1. wTaken < wWritten /\ wSegments'[wHead].first = wTaken
    <3>1. wHead \in wHead..(wWriteHead - 1) /\ wHead + 1 \in wHead..wWriteHead
          /\ wWriteHead \in wHead..wWriteHead /\ wHead + 1 <= wWriteHead
      BY <1>4
    <3>2. /\ wSegments[wHead + 1].first = wSegments[wHead].first + CHUNK_SIZE
          /\ wSegments[wHead + 1].first <= wSegments[wWriteHead].first
          /\ wSegments[wWriteHead].first + 0 = wWritten
      BY <1>1, <1>3, <3>1, ListFacts
    <3>3. /\ wSegments[wHead].first \in Nat /\ wSegments[wHead + 1].first \in Nat
          /\ wSegments[wWriteHead].first \in Nat
      <4>1. {wHead, wHead + 1, wWriteHead} \subseteq 1..Len(wSegments)
        BY <1>4, <3>1
      <4> QED BY <1>1, <4>1, HeapType
    <3>4. wSegments[wHead].first < wWritten
      BY <1>5, <3>2, <3>3
    <3> QED BY <1>3, <1>4, <1>6, <3>4
  <2>2. ASSUME NEW i \in wHead..Len(wSegments), i < wWriteHead
        PROVE  /\ wSegments'[i].mySize > 0
               /\ IF wSegments'[i].first + wSegments'[i].mySize = wWritten
                  THEN wSegments'[i].myNext = Write!NULL
                  ELSE /\ wSegments'[i].myNext = i + 1
                       /\ i < Len(wSegments) /\ i + 1 < wWriteHead
                       /\ wSegments'[i + 1].first = wSegments'[i].first + wSegments'[i].mySize
                       /\ wSegments'[i].first + wSegments'[i].mySize < wWritten
    <3>1. /\ i \in wHead..(wWriteHead - 1) /\ i \in 1..Len(wSegments)
          /\ i + 1 \in 1..Len(wSegments)
      BY <1>4, <2>2
    <3>2. /\ wSegments[i].mySize = CHUNK_SIZE /\ wSegments[i].myNext = i + 1
          /\ wSegments[i + 1].first = wSegments[i].first + CHUNK_SIZE
          /\ wSegments[wWriteHead].first + 0 = wWritten
      BY <1>1, <1>3, <3>1, ListFacts
    <3>a. wSegments[i].first \in Nat
      BY <1>1, <3>1, HeapType
    <3>3. CASE i = wLast
      <4>1. i + 1 = wWriteHead /\ wSegments[i].first + CHUNK_SIZE = wWritten
        <5>1. i + 1 = wWriteHead
          BY <1>4, <3>3
        <5>2. wSegments[wWriteHead].first \in Nat
          BY <1>1, <3>1, <5>1, HeapType
        <5> QED BY <3>2, <5>1, <5>2
      <4> QED BY <1>5, <1>6, <3>1, <3>2, <3>3, <4>1
    <3>4. CASE i # wLast
      <4>1. /\ i + 1 \in wHead..(wWriteHead - 1) /\ i + 2 \in wHead..wWriteHead
            /\ i + 2 <= wWriteHead /\ i + 2 \in 1..Len(wSegments) /\ i + 1 < wWriteHead
            /\ wWriteHead \in wHead..wWriteHead /\ i < Len(wSegments)
        BY <1>4, <3>1, <3>4
      <4>2. /\ wSegments[(i + 1) + 1].first = wSegments[i + 1].first + CHUNK_SIZE
            /\ wSegments[i + 2].first <= wSegments[wWriteHead].first
        BY <1>1, <1>3, <4>1, ListFacts
      <4>3. (i + 1) + 1 = i + 2
        BY <3>1
      <4>4. wSegments[i].first + CHUNK_SIZE < wWritten
        <5>1. /\ wSegments[i + 1].first \in Nat /\ wSegments[i + 2].first \in Nat
              /\ wSegments[wWriteHead].first \in Nat /\ wWritten \in Nat
          BY <1>1, <1>4, <3>1, <4>1, HeapType
        <5>a. wSegments[i + 2].first = wSegments[i + 1].first + CHUNK_SIZE
          BY <4>2, <4>3, Zenon
        <5>2. wSegments[i + 2].first = wSegments[i].first + CHUNK_SIZE + CHUNK_SIZE
          BY <1>5, <3>2, <3>a, <5>a
        <5>3. wSegments[i + 2].first <= wWritten
          BY <3>2, <4>2, <5>1
        <5> QED BY <1>5, <3>a, <5>1, <5>2, <5>3
      <4>5. /\ wSegments'[i].first = wSegments[i].first /\ wSegments'[i].mySize = CHUNK_SIZE
            /\ wSegments'[i].myNext = i + 1 /\ wSegments'[i + 1].first = wSegments[i].first + CHUNK_SIZE
        BY <1>6, <3>1, <3>2, <3>4
      <4> QED BY <1>5, <3>a, <4>1, <4>4, <4>5
    <3> QED BY <3>3, <3>4
  <2>3. /\ wQueue' = wHead /\ wHead' = wWriteHead /\ wTaken' = wTaken
        /\ wHead < wWriteHead /\ Len(wSegments') = Len(wSegments) /\ wWriteHead # Write!NULL
    BY <1>2, <1>3, <1>4, <1>6 DEF Write!NULL
  <2> QED BY <1>8, <2>1, <2>2, <2>3 DEF Write!Queue
<1>11. Write!Running'
  BY <1>1, <1>2, <1>3 DEF Write!Running, Write!Return, Write!NULL
<1> QED BY <1>7, <1>9, <1>10, <1>11 DEF Write!IInv

\* The list that was handed over, when there is one, spelled out for its first
\* segment: there is another behind it, or the list ends with what was given.
LEMMA QueueFront ==
  ASSUME Write!WriteStreamAssumption, Write!TypeOK, Write!List, Write!Queue, wQueue # Write!NULL
  PROVE  /\ wQueue \in 1..Len(wSegments) /\ wSegments[wQueue].first = wTaken
         /\ wSegments[wQueue].mySize \in 1..CHUNK_SIZE
         /\ wTaken + wSegments[wQueue].mySize <= Write!Given /\ Write!Given \in Nat /\ Write!Given <= wWritten
         /\ \/ /\ wSegments[wQueue].myNext = Write!NULL
               /\ wTaken + wSegments[wQueue].mySize = Write!Given
            \/ /\ wSegments[wQueue].myNext = wQueue + 1
               /\ wQueue + 1 \in 1..Len(wSegments) /\ (wHead # Write!NULL => wQueue + 1 < wHead)
               /\ wSegments[wQueue + 1].first = wTaken + wSegments[wQueue].mySize
               /\ wTaken + wSegments[wQueue].mySize < Write!Given
<1>1. /\ wQueue \in 1..Len(wSegments) /\ wQueue \in wQueue..Len(wSegments) /\ Len(wSegments) \in Nat
      /\ (wHead # Write!NULL => wQueue < wHead)
  BY HeapType DEF Write!Queue, Write!NULL
<1>2. /\ wSegments[wQueue].first = wTaken /\ wTaken < Write!Given /\ wSegments[wQueue].mySize > 0
      /\ IF wSegments[wQueue].first + wSegments[wQueue].mySize = Write!Given
         THEN wSegments[wQueue].myNext = Write!NULL
         ELSE /\ wSegments[wQueue].myNext = wQueue + 1
              /\ wQueue < Len(wSegments) /\ (wHead # Write!NULL => wQueue + 1 < wHead)
              /\ wSegments[wQueue + 1].first = wSegments[wQueue].first + wSegments[wQueue].mySize
              /\ wSegments[wQueue].first + wSegments[wQueue].mySize < Write!Given
  BY <1>1 DEF Write!Queue
<1>3. wSegments[wQueue].mySize \in 1..CHUNK_SIZE /\ wTaken \in Nat /\ CHUNK_SIZE \in Nat
  <2>1. wSegments[wQueue].mySize \in 0..CHUNK_SIZE
    BY <1>1, HeapType
  <2> QED BY <1>2, <2>1, HeapType DEF Write!WriteStreamAssumption
<1>4. Write!Given \in Nat /\ Write!Given <= wWritten
  BY GivenIsWritten
<1>5. CASE wSegments[wQueue].first + wSegments[wQueue].mySize = Write!Given
  BY <1>1, <1>2, <1>3, <1>4, <1>5
<1>6. CASE wSegments[wQueue].first + wSegments[wQueue].mySize # Write!Given
  <2>1. wQueue + 1 \in 1..Len(wSegments)
    BY <1>1, <1>2, <1>6
  <2> QED BY <1>1, <1>2, <1>3, <1>4, <1>6, <2>1
<1> QED BY <1>5, <1>6

\* Whoever takes a segment finds the next one, or the end of what was given.
LEMMA TakeSegmentQueue ==
  ASSUME Write!WriteStreamAssumption, Write!TypeOK, Write!List, Write!Queue, wQueue # Write!NULL, wSink \in Seq(Nat),
         NEW k \in 0..wSegments[wQueue].mySize, Write!TakeSegment(k),
         UNCHANGED <<wSegments, wHead, wWriteHead, wWritten>>
  PROVE  /\ Write!Queue' /\ Write!Given' = Write!Given /\ (wQueue' = Write!NULL => wTaken' = Write!Given)
         /\ wQueue' \in 0..Len(wSegments) /\ wTaken' \in Nat /\ wSink' \in Seq(Nat)
<1>1. /\ wSink' = wSink \o Write!Bytes(wSegments[wQueue], k)
      /\ wTaken' = wTaken + wSegments[wQueue].mySize /\ wQueue' = wSegments[wQueue].myNext
  BY DEF Write!TakeSegment
<1>2. Write!Given' = Write!Given
  BY DEF Write!Given
<1>3. wSink' \in Seq(Nat)
  <2>1. k \in Nat /\ wSegments[wQueue].first \in Nat
    <3>1. wSegments[wQueue].mySize \in Nat /\ wSegments[wQueue].first \in Nat
      BY QueueFront, HeapType
    <3> QED BY ONLY <3>1, k \in 0..wSegments[wQueue].mySize
  <2>2. Write!Bytes(wSegments[wQueue], k) \in Seq(Nat)
    BY <2>1 DEF Write!Bytes
  <2> QED BY <1>1, <2>2
<1>4. wQueue' \in 0..Len(wSegments) /\ wTaken' \in Nat /\ (wQueue' = Write!NULL => wTaken' = Write!Given)
  <2>1. wTaken \in Nat /\ wSegments[wQueue].mySize \in Nat /\ Len(wSegments) \in Nat
    BY QueueFront, HeapType
  <2>2. wSegments[wQueue].myNext = Write!NULL \/ wSegments[wQueue].myNext \in 1..Len(wSegments)
    BY QueueFront
  <2>3. wSegments[wQueue].myNext = Write!NULL => wTaken + wSegments[wQueue].mySize = Write!Given
    <3>1. wQueue + 1 # Write!NULL
      BY QueueFront DEF Write!NULL
    <3>2. \/ wTaken + wSegments[wQueue].mySize = Write!Given
          \/ wSegments[wQueue].myNext = wQueue + 1
      BY QueueFront
    <3> QED BY ONLY <3>1, <3>2
  <2> QED BY <1>1, <2>1, <2>2, <2>3 DEF Write!NULL
<1>5. Write!Queue'
  <2> SUFFICES ASSUME wQueue' # Write!NULL PROVE Write!Queue'
    BY DEF Write!Queue
  <2>1. /\ wQueue' = wQueue + 1 /\ wQueue + 1 \in 1..Len(wSegments) /\ wQueue \in 1..Len(wSegments)
        /\ (wHead # Write!NULL => wQueue + 1 < wHead)
        /\ wSegments[wQueue + 1].first = wTaken' /\ wTaken' < Write!Given
    BY <1>1, QueueFront
  <2>2. \A i \in (wQueue + 1)..Len(wSegments) : i \in wQueue..Len(wSegments)
    BY <2>1
  <2> QED BY <1>2, <2>1, <2>2 DEF Write!Queue
<1> QED BY <1>2, <1>3, <1>4, <1>5

-----------------------------------------------------------------------------
(* The invariant *)

\* Every action preserves the invariant.
LEMMA WriteStepInvariant == Write!WriteStreamAssumption /\ Write!IInv /\ [Write!Next]_(Write!vars) => Write!IInv'
<1> SUFFICES ASSUME Write!WriteStreamAssumption, Write!IInv, [Write!Next]_(Write!vars)
             PROVE  Write!IInv'
  OBVIOUS
<1>1. Write!TypeOK /\ Write!List /\ Write!Queue /\ Write!Running
  BY DEF Write!IInv
<1>2. ASSUME UNCHANGED <<wSegments, wHead, wWriteHead, wQueue, wWritten, wTaken>>
      PROVE  Write!List' /\ Write!Queue' /\ Write!Given' = Write!Given
  BY <1>1, <1>2 DEF Write!List, Write!Queue, Write!Given
<1>3. ASSUME NEW n \in 0..MaxBytesWritten, Write!WriteData(n)
      PROVE  Write!IInv'
  <2>1. Write!TypeOK'
    BY <1>1, <1>3 DEF Write!WriteData, Write!TypeOK, Write!Pointer, Write!WriteStreamAssumption
  <2>2. Write!List' /\ Write!Queue' /\ Write!Running'
    BY <1>1, <1>2, <1>3 DEF Write!WriteData, Write!Running
  <2> QED BY <2>1, <2>2 DEF Write!IInv
<1>4. ASSUME NEW name \in {"Get", "WriteAll"}, Write!Call(name)
      PROVE  Write!IInv'
  <2>1. Write!TypeOK'
    BY <1>1, <1>4 DEF Write!Call, Write!TypeOK, Write!Pointer
  <2>2. Write!List' /\ Write!Queue' /\ Write!Running'
    BY <1>1, <1>2, <1>4 DEF Write!Call, Write!Running
  <2> QED BY <2>1, <2>2 DEF Write!IInv
<1>5. CASE Write!WriteIteration
  BY <1>5, WriteIterationInvariant
<1>6. CASE Write!WriteReturn
  <2>1. Write!TypeOK'
    BY <1>1, <1>6 DEF Write!WriteReturn, Write!TypeOK, Write!Pointer
  <2>2. Write!List' /\ Write!Queue' /\ Write!Running'
    BY <1>1, <1>2, <1>6 DEF Write!WriteReturn, Write!Running
  <2> QED BY <2>1, <2>2 DEF Write!IInv
<1>7. CASE Write!GetNothing
  <2>1. wOp \in {"Get", "WriteAll"}
    BY <1>1, <1>7 DEF Write!GetNothing, Write!Running
  <2>2. Write!TypeOK'
    BY <1>1, <1>7, <2>1 DEF Write!GetNothing, Write!Return, Write!TypeOK, Write!Pointer
  <2>3. Write!List' /\ Write!Queue' /\ Write!Running'
    BY <1>1, <1>2, <1>7, <2>1 DEF Write!GetNothing, Write!Return, Write!Running
  <2> QED BY <2>2, <2>3 DEF Write!IInv
<1>8. CASE Write!GetAll
  BY <1>8, GetAllInvariant
<1>9. CASE Write!GetSplit
  <2>1. Write!TypeOK'
    BY <1>1, <1>9 DEF Write!GetSplit, Write!TypeOK, Write!Pointer, Write!NULL
  <2>2. wHead # Write!NULL
    BY <1>1, <1>9 DEF Write!GetSplit, Write!List
  <2>3. Write!List' /\ Write!Queue' /\ Write!Running'
    BY <1>1, <1>2, <1>9, <2>2 DEF Write!GetSplit, Write!Running
  <2> QED BY <2>1, <2>3 DEF Write!IInv
<1>10. CASE Write!FindTail
  <2>1. /\ wPc = "detach" /\ wAt # wWriteHead /\ wLast' = wAt /\ wAt' = wSegments[wAt].myNext
        /\ UNCHANGED <<wSegments, wHead, wWriteHead, wPc, wOp, wLeft, wQueue, wStreamGood,
                       wWritten, wTaken, wSink>>
    BY <1>10 DEF Write!FindTail
  <2>2. wHead # Write!NULL /\ wSegments[wWriteHead].mySize = 0 /\ wQueue = Write!NULL
    BY <1>1, <2>1 DEF Write!Running
  <2>3. /\ wHead \in 1..Len(wSegments) /\ wHead <= wWriteHead /\ wWriteHead = Len(wSegments)
    BY <1>1, <2>2, ListFacts
  <2>4. wAt \in wHead..(wWriteHead - 1)
    <3>1. wAt = wHead \/ (wLast \in wHead..(wWriteHead - 1) /\ wAt = wLast + 1)
      BY <1>1, <2>1, <2>3, HeapType DEF Write!Running
    <3> QED BY <2>1, <2>3, <3>1
  <2>5. wAt' = wAt + 1 /\ wAt' \in 0..Len(wSegments) /\ wAt \in 1..Len(wSegments)
    BY <1>1, <2>1, <2>2, <2>3, <2>4, ListFacts
  <2>6. Write!TypeOK'
    BY <1>1, <2>1, <2>5 DEF Write!TypeOK, Write!Pointer
  <2>7. Write!Running'
    BY <1>1, <2>1, <2>2, <2>3, <2>4, <2>5, <1>2 DEF Write!Running, Write!NULL
  <2> QED BY <1>2, <2>1, <2>6, <2>7 DEF Write!IInv
<1>11. CASE Write!Detach
  BY <1>11, DetachInvariant
<1>12. CASE Write!DetachCrash
  <2>1. Write!TypeOK'
    BY <1>1, <1>12 DEF Write!DetachCrash, Write!TypeOK, Write!Pointer
  <2>2. Write!OnlyEmptySegment'
    BY <1>1, <1>12 DEF Write!DetachCrash, Write!Running, Write!OnlyEmptySegment
  <2>3. Write!List' /\ Write!Queue' /\ Write!Running'
    BY <1>1, <1>2, <1>12, <2>2 DEF Write!DetachCrash, Write!Running
  <2> QED BY <2>1, <2>3 DEF Write!IInv
<1>13. ASSUME NEW k \in 0..CHUNK_SIZE, Write!DrainIteration(k)
       PROVE  Write!IInv'
  <2>1. /\ wPc = "drain" /\ wQueue # Write!NULL /\ Write!TakeSegment(k) /\ wStreamGood' \in BOOLEAN
        /\ UNCHANGED <<wSegments, wHead, wWriteHead, wPc, wOp, wLeft, wAt, wLast, wWritten>>
    BY <1>1, <1>13 DEF Write!DrainIteration, Write!TypeOK
  <2>2. k \in 0..wSegments[wQueue].mySize
    BY <1>1, <1>13, <2>1, QueueFront DEF Write!DrainIteration
  <2>3. /\ Write!Queue' /\ Write!Given' = Write!Given /\ (wQueue' = Write!NULL => wTaken' = Write!Given)
        /\ wQueue' \in 0..Len(wSegments) /\ wTaken' \in Nat /\ wSink' \in Seq(Nat)
    BY <1>1, <2>1, <2>2, TakeSegmentQueue DEF Write!TypeOK
  <2>4. Write!TypeOK'
    BY <1>1, <2>1, <2>3 DEF Write!TypeOK, Write!Pointer
  <2>5. Write!List'
    BY <1>1, <2>1 DEF Write!List
  <2>6. Write!Running'
    BY <1>1, <2>1, <2>3 DEF Write!Running
  <2> QED BY <2>3, <2>4, <2>5, <2>6 DEF Write!IInv
<1>14. CASE Write!DrainReturn
  <2>1. Write!TypeOK'
    BY <1>1, <1>14 DEF Write!DrainReturn, Write!TypeOK, Write!Pointer
  <2>2. Write!List' /\ Write!Queue' /\ Write!Running'
    BY <1>1, <1>2, <1>14 DEF Write!DrainReturn, Write!Running
  <2> QED BY <2>1, <2>2 DEF Write!IInv
<1>15. CASE Write!Consume
  <2>1. /\ wPc = "idle" /\ wQueue # Write!NULL /\ Write!TakeSegment(wSegments[wQueue].mySize)
        /\ UNCHANGED <<wSegments, wHead, wWriteHead, wPc, wOp, wLeft, wAt, wLast, wStreamGood, wWritten>>
    BY <1>15 DEF Write!Consume
  <2>2. wSegments[wQueue].mySize \in 0..wSegments[wQueue].mySize
    BY <1>1, <2>1, QueueFront
  <2>3. /\ Write!Queue' /\ Write!Given' = Write!Given /\ (wQueue' = Write!NULL => wTaken' = Write!Given)
        /\ wQueue' \in 0..Len(wSegments) /\ wTaken' \in Nat /\ wSink' \in Seq(Nat)
    BY <1>1, <2>1, <2>2, TakeSegmentQueue DEF Write!TypeOK
  <2>4. Write!TypeOK'
    BY <1>1, <2>1, <2>3 DEF Write!TypeOK, Write!Pointer
  <2>5. Write!List'
    BY <1>1, <2>1 DEF Write!List
  <2>6. Write!Running'
    BY <1>1, <2>1, <2>3 DEF Write!Running
  <2> QED BY <2>3, <2>4, <2>5, <2>6 DEF Write!IInv
<1>16. CASE UNCHANGED Write!vars
  <2>1. Write!TypeOK'
    BY <1>1, <1>16 DEF Write!vars, Write!TypeOK, Write!Pointer
  <2>2. (Write!OnlyEmptySegment)' = Write!OnlyEmptySegment
    BY <1>16 DEF Write!vars, Write!OnlyEmptySegment
  <2>3. Write!List' /\ Write!Queue' /\ Write!Running'
    BY <1>1, <1>2, <1>16, <2>2 DEF Write!vars, Write!Running
  <2> QED BY <2>1, <2>3 DEF Write!IInv
<1> QED BY <1>3, <1>4, <1>5, <1>6, <1>7, <1>8, <1>9, <1>10, <1>11, <1>12, <1>13, <1>14,
           <1>15, <1>16 DEF Write!Next, Write!Begin, Write!Continue, Write!Get, Write!WriteAllToStream

\* The invariant holds before the first call, when there are no segments.
LEMMA WriteInitInvariant == Write!WriteStreamAssumption /\ Write!Init => Write!IInv
<1> SUFFICES ASSUME Write!WriteStreamAssumption, Write!Init PROVE Write!IInv
  OBVIOUS
<1>1. wSegments = <<>> /\ <<>> \in Seq(Write!Segment) /\ <<>> \in Seq(Nat) /\ Len(wSegments) = 0
  BY DEF Write!Init
<1>2. Write!TypeOK
  BY <1>1 DEF Write!Init, Write!TypeOK, Write!Pointer, Write!NULL, Write!WriteStreamAssumption
<1>3. Write!List /\ Write!Queue /\ Write!Running
  BY DEF Write!Init, Write!List, Write!Queue, Write!Running, Write!Given
<1> QED BY <1>2, <1>3 DEF Write!IInv

\* The inductive invariant holds in every state: the list is in order, full but
\* for its end, and apart from the list that was handed over.
LEMMA WriteInvarianceAlone ==
  ASSUME Write!WriteStreamAssumption
  PROVE  Write!Spec => []Write!IInv
<1>1. Write!Init => Write!IInv
  BY WriteInitInvariant
<1>2. Write!IInv /\ [Write!Next]_(Write!vars) => Write!IInv'
  BY WriteStepInvariant
<1> QED BY <1>1, <1>2, PTL DEF Write!Spec

\* Get writes through nullptr (Stream.cpp:215) only where all it finds is the empty
\* segment that a full one left behind, whoever calls it.
LEMMA CrashesOnlyOnEmptySegmentAlone ==
  ASSUME Write!WriteStreamAssumption
  PROVE  Write!Spec => []Write!CrashesOnlyOnEmptySegment
<1>1. Write!IInv => Write!CrashesOnlyOnEmptySegment
  BY DEF Write!IInv, Write!Running, Write!CrashesOnlyOnEmptySegment
<1> QED BY <1>1, WriteInvarianceAlone, PTL

\* HasData tells whether bytes wait to be fetched, also when the write head is an
\* empty segment: TCPSocket::HandleSend fetches nothing that is not there and
\* forgets nothing that is.
LEMMA HasDataIsExactAlone ==
  ASSUME Write!WriteStreamAssumption
  PROVE  Write!Spec => []Write!HasDataMeansPending
<1>1. Write!IInv => Write!HasDataMeansPending
  <2> SUFFICES ASSUME Write!IInv PROVE Write!HasData <=> Write!Given < wWritten
    BY DEF Write!HasDataMeansPending
  <2>1. Write!TypeOK /\ Write!List
    BY DEF Write!IInv
  <2>2. CASE wHead = Write!NULL
    BY <2>1, <2>2, HeapType DEF Write!HasData, Write!Given
  <2>3. CASE wHead # Write!NULL
    <3>1. /\ Write!Given = wSegments[wHead].first /\ (Write!HasData <=> wSegments[wHead].mySize # 0)
      BY <2>3 DEF Write!Given, Write!HasData
    <3>2. /\ wHead \in 1..Len(wSegments) /\ wWriteHead \in 1..Len(wSegments)
          /\ wHead <= wWriteHead
          /\ wSegments[wWriteHead].first + wSegments[wWriteHead].mySize = wWritten
      BY <2>1, <2>3, ListFacts
    <3>3. /\ wSegments[wHead].first \in Nat /\ wSegments[wHead].mySize \in Nat
          /\ wSegments[wWriteHead].first \in Nat /\ wSegments[wWriteHead].mySize \in Nat
          /\ CHUNK_SIZE \in Nat /\ CHUNK_SIZE > 0 /\ wWritten \in Nat
      BY <2>1, <3>2, HeapType DEF Write!WriteStreamAssumption
    <3>4. CASE wHead = wWriteHead
      BY <3>1, <3>2, <3>3, <3>4
    <3>5. CASE wHead # wWriteHead
      <4>1. /\ wHead \in wHead..(wWriteHead - 1) /\ wHead + 1 \in wHead..wWriteHead
            /\ wWriteHead \in wHead..wWriteHead /\ wHead + 1 <= wWriteHead
            /\ wHead + 1 \in 1..Len(wSegments)
        BY <2>1, <3>2, <3>5, HeapType
      <4>2. /\ wSegments[wHead].mySize = CHUNK_SIZE
            /\ wSegments[wHead + 1].first = wSegments[wHead].first + CHUNK_SIZE
            /\ wSegments[wHead + 1].first <= wSegments[wWriteHead].first
        BY <2>1, <2>3, <4>1, ListFacts
      <4>3. wSegments[wHead].first < wSegments[wWriteHead].first
        BY <3>3, <4>2
      <4> QED BY SMTT(30), <3>1, <3>2, <3>3, <4>2, <4>3
    <3> QED BY <3>4, <3>5
  <2> QED BY <2>2, <2>3
<1> QED BY <1>1, WriteInvarianceAlone, PTL

-----------------------------------------------------------------------------
(* WriteStream implements WriteBuffer *)

\* What is taken from the front of the queue was given and not taken before.
LEMMA TakeImplements ==
  ASSUME Write!WriteStreamAssumption, Write!IInv, wQueue # Write!NULL,
         NEW k \in 0..wSegments[wQueue].mySize, Write!TakeSegment(k),
         UNCHANGED <<wSegments, wHead, wWritten>>
  PROVE  Write!Abstract!Next
<1>1. Write!TypeOK /\ Write!List /\ Write!Queue
  BY DEF Write!IInv
<1> DEFINE n == wSegments[wQueue].mySize
<1>2. /\ n \in 1..CHUNK_SIZE /\ wSegments[wQueue].first = wTaken
      /\ wTaken + n <= Write!Given /\ Write!Given \in Nat /\ Write!Given <= wWritten
  BY <1>1, QueueFront
<1>3. wWritten <= MaxBytesWritten /\ wWritten \in Nat /\ wTaken \in Nat /\ MaxBytesWritten \in Nat
  <2>1. wWritten \in Nat /\ wLeft \in Nat /\ wWritten + wLeft <= MaxBytesWritten
    BY <1>1 DEF Write!TypeOK
  <2> QED BY <1>1, <2>1, HeapType DEF Write!WriteStreamAssumption
<1>4. n \in 1..MaxBytesWritten
  BY <1>2, <1>3
<1>5. Write!Given' = Write!Given
  BY DEF Write!Given
<1>6. wTaken' = wTaken + n /\ wSink' = wSink \o [i \in 1..k |-> wTaken + i]
  <2>1. Write!Bytes(wSegments[wQueue], k) = [i \in 1..k |-> wTaken + i]
    BY <1>2 DEF Write!Bytes
  <2> QED BY <2>1 DEF Write!TakeSegment
<1> HIDE DEF n
<1>7. k \in 0..n
  BY DEF n
<1>8. Write!Abstract!Take(n, k)
  BY <1>2, <1>5, <1>6 DEF Write!Abstract!Take
<1> QED BY <1>4, <1>7, <1>8 DEF Write!Abstract!Next

\* Every step is a Write, a Get or a Take of the buffer, or nothing it sees.
LEMMA WriteStepImplements ==
  ASSUME Write!WriteStreamAssumption, Write!IInv, Write!IInv', [Write!Next]_(Write!vars)
  PROVE  [Write!Abstract!Next]_(Write!Abstract!vars)
<1>1. Write!TypeOK /\ Write!List /\ Write!Queue /\ Write!Running
  BY DEF Write!IInv
<1>2. ASSUME UNCHANGED <<wSegments, wHead, wWritten, wTaken, wSink>>
      PROVE  UNCHANGED Write!Abstract!vars
  BY <1>2 DEF Write!Abstract!vars, Write!Given
<1>3. CASE Write!WriteIteration
  <2>1. PICK amount \in 1..wLeft : wWritten' = wWritten + amount
    <3>1. PICK h \in Nat, amount \in 1..wLeft, full \in BOOLEAN, old \in 0..(CHUNK_SIZE - 1),
               start \in Nat : Iteration(h, amount, full, old, start)
      BY <1>3, WriteIterationResult
    <3> QED BY <3>1 DEF Iteration
  <2>2. amount \in 1..MaxBytesWritten
    <3>1. /\ wWritten \in Nat /\ wLeft \in Nat /\ wWritten + wLeft <= MaxBytesWritten /\ MaxBytesWritten \in Nat
      BY <1>1 DEF Write!TypeOK, Write!WriteStreamAssumption
    <3> QED BY <3>1
  <2>3. Write!Given' = Write!Given
    BY <1>3, WriteIterationGiven
  <2>4. UNCHANGED <<wTaken, wSink>>
    BY <1>3 DEF Write!WriteIteration
  <2> QED BY <2>1, <2>2, <2>3, <2>4 DEF Write!Abstract!Next, Write!Abstract!Write
<1>4. CASE Write!GetAll
  <2>1. /\ wPc = "get" /\ wHead' = Write!NULL /\ UNCHANGED <<wWritten, wTaken, wSink>>
    BY <1>4 DEF Write!GetAll
  <2>2. wTaken = Write!Given /\ Write!Given' = wWritten
    BY <1>1, <2>1 DEF Write!Running, Write!Given
  <2> QED BY <2>1, <2>2 DEF Write!Abstract!Next, Write!Abstract!Get
<1>5. CASE Write!Detach
  <2>1. /\ wPc = "detach" /\ UNCHANGED <<wWritten, wTaken, wSink>>
    BY <1>5 DEF Write!Detach
  <2>2. wTaken = Write!Given
    BY <1>1, <2>1 DEF Write!Running
  <2>3. Write!Given' = wWritten
    BY <1>5, DetachGiven
  <2> QED BY <2>1, <2>2, <2>3 DEF Write!Abstract!Next, Write!Abstract!Get
<1>6. ASSUME NEW k \in 0..CHUNK_SIZE, Write!DrainIteration(k)
      PROVE  Write!Abstract!Next
  <2>1. wQueue # Write!NULL /\ Write!TakeSegment(k) /\ UNCHANGED <<wSegments, wHead, wWritten>>
    BY <1>6 DEF Write!DrainIteration
  <2>2. k \in 0..wSegments[wQueue].mySize
    BY <1>1, <1>6, <2>1, QueueFront DEF Write!DrainIteration
  <2> QED BY <2>1, <2>2, TakeImplements
<1>7. CASE Write!Consume
  <2>1. /\ wQueue # Write!NULL /\ Write!TakeSegment(wSegments[wQueue].mySize)
        /\ UNCHANGED <<wSegments, wHead, wWritten>>
    BY <1>7 DEF Write!Consume
  <2>2. wSegments[wQueue].mySize \in 0..wSegments[wQueue].mySize
    BY <1>1, <2>1, QueueFront
  <2> QED BY <2>1, <2>2, TakeImplements
<1>8. CASE \/ \E n \in 0..MaxBytesWritten : Write!WriteData(n)
           \/ Write!Get \/ Write!WriteAllToStream \/ Write!WriteReturn \/ Write!GetNothing \/ Write!GetSplit \/ Write!FindTail
           \/ Write!DetachCrash \/ Write!DrainReturn
  BY <1>2, <1>8 DEF Write!WriteData, Write!Get, Write!WriteAllToStream, Write!Call, Write!WriteReturn, Write!GetNothing, Write!GetSplit,
                    Write!FindTail, Write!DetachCrash, Write!DrainReturn
<1>9. CASE UNCHANGED Write!vars
  BY <1>2, <1>9 DEF Write!vars
<1> QED BY <1>3, <1>4, <1>5, <1>6, <1>7, <1>8, <1>9 DEF Write!Next, Write!Begin, Write!Continue

\* Whoever takes what Get hands over sees every byte once and in order, however
\* writes, Gets and drains follow each other and wherever segments end.
LEMMA WriteImplementationAlone ==
  ASSUME Write!WriteStreamAssumption
  PROVE  Write!Spec => Write!ImplementsWriteBuffer
<1>1. Write!Init => Write!Abstract!Init
  BY DEF Write!Init, Write!Abstract!Init, Write!Given, Write!NULL
<1>2. Write!IInv /\ Write!IInv' /\ [Write!Next]_(Write!vars) => [Write!Abstract!Next]_(Write!Abstract!vars)
  BY WriteStepImplements
<1> QED BY <1>1, <1>2, WriteInvarianceAlone, PTL DEF Write!Spec, Write!ImplementsWriteBuffer, Write!Abstract!Spec
-----------------------------------------------------------------------------
(* The two of them *)

\* Each of the two runs as if it were alone.
LEMMA RunsAlone == StreamsSpec => Spec /\ Write!Spec
<1>1. StreamsInit => Init /\ Write!Init
  BY DEF StreamsInit
<1>2. [StreamsNext]_<<subject, vars, writeVars>> => [Next]_vars /\ [Write!Next]_(Write!vars)
  BY DEF StreamsNext, writeVars, Write!vars
<1> QED BY <1>1, <1>2, PTL DEF StreamsSpec, Spec, Write!Spec

\* Every variable of ReadStream keeps its type.
THEOREM TypeCorrect == StreamsSpec => []TypeOK
BY RunsAlone, TypeCorrectAlone, PTL

\* The invariant of ReadStream (Stream.h:58-79): the segments form one chain
\* without gaps, the three pointers are on it and the checkpoint is never ahead of
\* the read head.
THEOREM Invariance == StreamsSpec => []IInv
BY RunsAlone, InvarianceAlone, PTL

\* No loop of AppendData, CommitRead or PrivPeek (Stream.cpp:39-153) follows nullptr
\* or subtracts below zero, whatever the size of a segment and the calls before.
THEOREM NoLoopLeavesTheList == StreamsSpec => []LoopsStayOnTheList
BY RunsAlone, NoLoopLeavesTheListAlone, PTL

\* Between calls the checkpoint is at or before the read head (Stream.cpp:99-115).
THEOREM CheckpointBehind == StreamsSpec => []CheckpointBehindReadHead
BY RunsAlone, CheckpointBehindAlone, PTL

\* What AppendAllFromStream returns tells whether the istream has been emptied into
\* the list (Stream.cpp:59-81).
THEOREM FillReportCorrect == StreamsSpec => []FillReport
BY RunsAlone, FillReportCorrectAlone, PTL

\* The segmented list behaves as one sequence of bytes: reads see every byte once
\* and in order wherever the segments end, a Peek or a short Read included, and
\* CommitRead and RestoreRead move between the same two places.
THEOREM Implementation == StreamsSpec => ImplementsByteStream
BY RunsAlone, ImplementationAlone, PTL

\* The invariant of WriteStream (Stream.cpp:155-222): full segments up to the write
\* head, in front of them the list that Get detached and cut off, and Get's search
\* between the two.
THEOREM WriteInvariance == StreamsSpec => []WriteIInv
BY RunsAlone, WriteInvarianceAlone, StreamsAssumption, PTL DEF WriteIInv

\* Get, called by anybody and by WriteAllToStream (Stream.cpp:182-184), writes
\* through nullptr (Stream.cpp:215) in no state but one: all that it finds is the
\* empty segment that a full one left behind.
THEOREM GetCrashesOnlyOnEmptySegment == StreamsSpec => []Write!CrashesOnlyOnEmptySegment
BY RunsAlone, CrashesOnlyOnEmptySegmentAlone, StreamsAssumption, PTL

\* HasData tells whether bytes wait to be fetched, also when the write head is an
\* empty segment: TCPSocket::HandleSend fetches nothing that is not there and
\* forgets nothing that is.
THEOREM HasDataIsExact == StreamsSpec => []Write!HasDataMeansPending
BY RunsAlone, HasDataIsExactAlone, StreamsAssumption, PTL

\* Whoever takes what Get hands over sees every byte once and in order, however
\* writes, Gets and drains follow each other and wherever segments end.
THEOREM WriteImplementation == StreamsSpec => ImplementsWriteBuffer
BY RunsAlone, WriteImplementationAlone, StreamsAssumption, PTL DEF ImplementsWriteBuffer
================================================================================
