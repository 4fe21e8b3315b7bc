------------------------------- MODULE ReadStream -------------------------------
(***************************************************************************)
(* tools/Stream.cpp, class ReadStream: a singly linked list of             *)
(* StreamSegments with a read head, a checkpoint and a tail pointer.       *)
(*                                                                         *)
(* A segment lives at an index of `segments`, in order of allocation, and  *)
(* pointers are such indices; NULL is nullptr.  The bytes of a segment are *)
(* represented by their positions in the order of arrival: segment s holds *)
(* the bytes s.first+1 .. s.first+s.mySize.  mySize and myNext are the     *)
(* fields of the class.                                                    *)
(*                                                                         *)
(* Every loop of the code is an action of its own, one step per iteration: *)
(* a public call sets pc, and until the call returns to "idle" no other    *)
(* call can begin.  ReadStream takes no lock: calls of two threads on one  *)
(* stream are outside its contract.                                        *)
(***************************************************************************)
EXTENDS Integers, Sequences

CONSTANTS CHUNK_SIZE,  \* StreamSegment::CHUNK_SIZE
          MaxBytes,    \* bound: bytes appended in a behaviour
          MaxRequest   \* bound: the largest aSize of a Read or a Peek

ASSUME ReadStreamAssumption ==
  /\ CHUNK_SIZE \in Nat \ {0}
  /\ MaxBytes \in Nat
  /\ MaxRequest \in Nat

VARIABLES segments,      \* the heap of StreamSegments
          myReadHead,    \* StreamOffset
          myCheckpoint,  \* StreamOffset
          myTail,        \* pointer to the last segment
          pc,            \* the loop the running call is in
          op,            \* the running call
          aSize,         \* Read, Peek: bytes asked for
          left,          \* PrivPeek: bytes still to copy
          aOutEnd,       \* PrivPeek: StreamOffset behind the bytes copied
          aData,         \* PrivPeek: the bytes copied to the caller
          result,        \* the last Read's or Peek's outcome
          source,        \* AppendAllFromStream: the istream it drains
          filled         \* the last AppendAllFromStream's return value

vars == <<segments, myReadHead, myCheckpoint, myTail, pc, op, aSize, left,
          aOutEnd, aData, result, source, filled>>

peeking == <<aSize, left, aOutEnd, aData>>
filling == <<source, filled>>

NULL == 0
NullOffset == [mySegment |-> NULL, myOffset |-> 0]
Lesser(a, b) == IF a <= b THEN a ELSE b

\* The position in the stream a StreamOffset stands for.
Pos(o) == IF o.mySegment = NULL THEN 0
          ELSE segments[o.mySegment].first + o.myOffset

Total == IF segments = <<>> THEN 0
         ELSE segments[Len(segments)].first + segments[Len(segments)].mySize

NoSource == [left |-> 0, eof |-> FALSE, bad |-> FALSE]

Init ==
  /\ segments = <<>>
  /\ myReadHead = NullOffset
  /\ myCheckpoint = NullOffset
  /\ myTail = NULL
  /\ pc = "idle" /\ op = "none"
  /\ aSize = 0 /\ left = 0 /\ aOutEnd = NullOffset /\ aData = <<>>
  /\ result = [bytes |-> <<>>, full |-> TRUE]
  /\ source = NoSource /\ filled = "none"

-----------------------------------------------------------------------------
(* AppendData(aData) *)

\* A list of `k` full segments and a last one of n bytes, the shape in which
\* WriteStream::Get, TCPSocket::HandleRecv and AppendAllFromStream make them.
NewList(k, n) ==
  [j \in 1..(k + 1) |->
     [first  |-> Total + (j - 1) * CHUNK_SIZE,
      mySize |-> IF j = k + 1 THEN n ELSE CHUNK_SIZE,
      myNext |-> IF j = k + 1 THEN NULL ELSE Len(segments) + j + 1]]

\* Faulty variant, for mutation: the checkpoint is left at nullptr.
AttachNoCheckpoint(k, n) ==
  LET front == Len(segments) + 1
  IN /\ segments' = (IF myTail = NULL THEN segments
                     ELSE [segments EXCEPT ![myTail].myNext = front])
                    \o NewList(k, n)
     /\ IF myTail = NULL
        THEN /\ myTail' = front
             /\ myReadHead' = [mySegment |-> front, myOffset |-> 0]
             /\ UNCHANGED myCheckpoint
        ELSE UNCHANGED <<myTail, myReadHead, myCheckpoint>>

\* Faulty variant, for mutation: every list moves the checkpoint to its front.
AttachMovesCheckpoint(k, n) ==
  LET front == Len(segments) + 1
      start == [mySegment |-> front, myOffset |-> 0]
  IN /\ segments' = (IF myTail = NULL THEN segments
                     ELSE [segments EXCEPT ![myTail].myNext = front])
                    \o NewList(k, n)
     /\ myCheckpoint' = start
     /\ IF myTail = NULL
        THEN myTail' = front /\ myReadHead' = start
        ELSE UNCHANGED <<myTail, myReadHead>>

\* The list is linked behind the tail; the first list also becomes the place
\* of all three pointers.
Attach(k, n) ==
  LET front == Len(segments) + 1
      start == [mySegment |-> front, myOffset |-> 0]
  IN /\ segments' = (IF myTail = NULL THEN segments
                     ELSE [segments EXCEPT ![myTail].myNext = front])
                    \o NewList(k, n)
     /\ IF myTail = NULL
        THEN myTail' = front /\ myReadHead' = start /\ myCheckpoint' = start
        ELSE UNCHANGED <<myTail, myReadHead, myCheckpoint>>

AppendData(k, n) ==
  /\ pc = "idle"
  /\ Total + k * CHUNK_SIZE + n <= MaxBytes
  /\ Attach(k, n)
  /\ pc' = "walk" /\ op' = "Append"
  /\ UNCHANGED <<peeking, filling, result>>

\* Faulty variant, for mutation: the tail stays at the head of the list.
TailIsLastNoWalk == TRUE

TailIsLast == segments[myTail].myNext = NULL

WalkTail ==
  /\ pc = "walk"
  /\ ~TailIsLast
  /\ myTail' = segments[myTail].myNext
  /\ UNCHANGED <<segments, myReadHead, myCheckpoint, pc, op, peeking, filling, result>>

\* AppendAllFromStream looks at eof after each AppendData.
WalkDone ==
  /\ pc = "walk"
  /\ TailIsLast
  /\ IF op = "AppendAll" /\ ~source.eof
     THEN pc' = "fill" /\ UNCHANGED <<op, filled>>
     ELSE /\ pc' = "idle" /\ op' = "none"
          /\ filled' = IF op = "AppendAll" THEN "true" ELSE filled
  /\ UNCHANGED <<segments, myReadHead, myCheckpoint, myTail, peeking, source, result>>

-----------------------------------------------------------------------------
(* AppendAllFromStream(aStream): the istream holds n more bytes. *)

AppendAllFromStream(n, bad) ==
  /\ pc = "idle"
  /\ Total + n <= MaxBytes
  /\ pc' = "fill" /\ op' = "AppendAll"
  /\ source' = [left |-> n, eof |-> FALSE, bad |-> bad]
  /\ filled' = "none"
  /\ UNCHANGED <<segments, myReadHead, myCheckpoint, myTail, peeking, result>>

\* if (!aStream) return false;
FillRefused ==
  /\ pc = "fill" /\ source.bad
  /\ pc' = "idle" /\ op' = "none" /\ filled' = "false"
  /\ UNCHANGED <<segments, myReadHead, myCheckpoint, myTail, peeking, source, result>>

\* What istream::read leaves behind after it delivered `amount` bytes: a short
\* read is the end of the file (eof) or an I/O error (bad, with bytes left).
ReadSource(amount) ==
  \/ /\ amount = Lesser(CHUNK_SIZE, source.left)
     /\ source' = [source EXCEPT !.left = @ - amount,
                                 !.eof = source.left < CHUNK_SIZE]
  \/ /\ amount < Lesser(CHUNK_SIZE, source.left)
     /\ source' = [source EXCEPT !.left = @ - amount, !.bad = TRUE]

\* gcount() = 0: return true, whatever the reason was.
FillEmpty ==
  /\ pc = "fill" /\ ~source.bad
  /\ ReadSource(0)
  /\ pc' = "idle" /\ op' = "none" /\ filled' = "true"
  /\ UNCHANGED <<segments, myReadHead, myCheckpoint, myTail, peeking, result>>

FillSegment(amount) ==
  /\ pc = "fill" /\ ~source.bad
  /\ ReadSource(amount)
  /\ Attach(0, amount)
  /\ pc' = "walk"
  /\ UNCHANGED <<op, peeking, filled, result>>

-----------------------------------------------------------------------------
(* Read(aData, aSize) and Peek(aData, aSize), both through PrivPeek *)

Call(name, n) ==
  /\ pc = "idle"
  /\ pc' = "peek" /\ op' = name
  /\ aSize' = n /\ left' = n /\ aOutEnd' = myReadHead /\ aData' = <<>>
  /\ UNCHANGED <<segments, myReadHead, myCheckpoint, myTail, filling, result>>

Read(n) == Call("Read", n)
Peek(n) == Call("Peek", n)

Exhausted(o) == o.myOffset = segments[o.mySegment].mySize

\* There is a head, bytes are missing, and the list has not ended.
PeekContinues ==
  /\ aOutEnd.mySegment # NULL
  /\ left # 0
  /\ Exhausted(aOutEnd) => segments[aOutEnd.mySegment].myNext # NULL

\* Where the next iteration copies from.
Cursor ==
  IF Exhausted(aOutEnd)
  THEN [mySegment |-> segments[aOutEnd.mySegment].myNext, myOffset |-> 0]
  ELSE aOutEnd

\* StreamSegment::Read: copy what the segment has, at most `left` bytes.
PeekIteration ==
  LET segment == segments[Cursor.mySegment]
      amount  == Lesser(segment.mySize - Cursor.myOffset, left)
  IN /\ pc = "peek"
     /\ PeekContinues
     /\ aData' = aData \o [k \in 1..amount |-> segment.first + Cursor.myOffset + k]
     /\ left' = left - amount
     /\ aOutEnd' = [Cursor EXCEPT !.myOffset = @ + amount]
     /\ UNCHANGED <<segments, myReadHead, myCheckpoint, myTail, pc, op, aSize,
                    filling, result>>

NewReadHead == IF op = "Read" THEN aOutEnd ELSE myReadHead

PeekReturn ==
  /\ pc = "peek"
  /\ ~PeekContinues
  /\ result' = [bytes |-> aData, full |-> left = 0]
  /\ myReadHead' = NewReadHead
  /\ pc' = "idle" /\ op' = "none"
  /\ aSize' = 0 /\ left' = 0 /\ aOutEnd' = NullOffset /\ aData' = <<>>
  /\ UNCHANGED <<segments, myCheckpoint, myTail, filling>>

-----------------------------------------------------------------------------
(* CommitRead() and RestoreRead() *)

CommitRead ==
  /\ pc = "idle"
  /\ pc' = "commit" /\ op' = "Commit"
  /\ UNCHANGED <<segments, myReadHead, myCheckpoint, myTail, peeking, filling, result>>

CommitIteration ==
  /\ pc = "commit"
  /\ myCheckpoint.mySegment # myReadHead.mySegment
  /\ myCheckpoint' = [myCheckpoint EXCEPT
                        !.mySegment = segments[myCheckpoint.mySegment].myNext]
  /\ UNCHANGED <<segments, myReadHead, myTail, pc, op, peeking, filling, result>>

CommittedOffset == [myCheckpoint EXCEPT !.myOffset = myReadHead.myOffset]

CommitReturn ==
  /\ pc = "commit"
  /\ myCheckpoint.mySegment = myReadHead.mySegment
  /\ myCheckpoint' = CommittedOffset
  /\ pc' = "idle" /\ op' = "none"
  /\ UNCHANGED <<segments, myReadHead, myTail, peeking, filling, result>>

RestoreRead ==
  /\ pc = "idle"
  /\ myReadHead' = myCheckpoint
  /\ UNCHANGED <<segments, myCheckpoint, myTail, pc, op, peeking, filling, result>>

-----------------------------------------------------------------------------
(* The next-state relation *)

Begin ==
  \/ \E k \in 0..MaxBytes, n \in 1..CHUNK_SIZE : AppendData(k, n)
  \/ \E n \in 0..MaxBytes, bad \in BOOLEAN : AppendAllFromStream(n, bad)
  \/ \E n \in 0..MaxRequest : Read(n) \/ Peek(n)
  \/ CommitRead
  \/ RestoreRead

\* The steps of a call that is running.
Continue ==
  \/ WalkTail \/ WalkDone
  \/ FillRefused \/ FillEmpty \/ (\E amount \in 1..CHUNK_SIZE : FillSegment(amount))
  \/ PeekIteration \/ PeekReturn
  \/ CommitIteration \/ CommitReturn

Next == Begin \/ Continue

Spec == Init /\ [][Next]_vars

\* The thread inside a call keeps executing it.
FairSpec == Spec /\ WF_vars(Continue)

-----------------------------------------------------------------------------
(* Properties *)

Segment == [first : Nat, mySize : 1..CHUNK_SIZE, myNext : Nat]
Pointer == 0..Len(segments)
Offset == [mySegment : Pointer, myOffset : 0..CHUNK_SIZE]

\* Every variable has its type; a segment holds 1..CHUNK_SIZE bytes.
TypeOK ==
  /\ segments \in Seq(Segment)
  /\ \A i \in 1..Len(segments) : segments[i].myNext \in Pointer
  /\ myReadHead \in Offset /\ myCheckpoint \in Offset /\ aOutEnd \in Offset
  /\ myTail \in Pointer
  /\ pc \in {"idle", "walk", "fill", "peek", "commit"}
  /\ op \in {"none", "Append", "AppendAll", "Read", "Peek", "Commit"}
  /\ aSize \in 0..MaxRequest /\ left \in 0..aSize
  /\ aData \in Seq(Nat)
  /\ result \in [bytes : Seq(Nat), full : BOOLEAN]
  /\ source \in [left : 0..MaxBytes, eof : BOOLEAN, bad : BOOLEAN]
  /\ filled \in {"none", "true", "false"}

\* The heap is one list in order of arrival, without a gap or an overlap.
Chain ==
  /\ \A i \in 1..Len(segments) :
       segments[i].myNext = IF i < Len(segments) THEN i + 1 ELSE NULL
  /\ segments # <<>> => segments[1].first = 0
  /\ \A i \in 1..(Len(segments) - 1) :
       segments[i + 1].first = segments[i].first + segments[i].mySize
  /\ \A i, j \in 1..Len(segments) :
       i < j => segments[i].first + segments[i].mySize <= segments[j].first

\* The three pointers are set together, the tail is the last segment between
\* calls, and the checkpoint is at or before the read head.
Pointers ==
  /\ myTail = NULL <=> segments = <<>>
  /\ myReadHead.mySegment = NULL <=> segments = <<>>
  /\ myCheckpoint.mySegment = NULL <=> segments = <<>>
  /\ pc # "walk" => myTail = Len(segments)
  /\ pc = "walk" => myTail # NULL
  /\ myCheckpoint.mySegment <= myReadHead.mySegment

Inside(o) == IF o.mySegment = NULL THEN o.myOffset = 0
             ELSE o.myOffset <= segments[o.mySegment].mySize

Offsets ==
  /\ Inside(myReadHead)
  /\ pc # "commit" =>
       /\ Inside(myCheckpoint)
       /\ myCheckpoint.mySegment = myReadHead.mySegment
            => myCheckpoint.myOffset <= myReadHead.myOffset

\* Where PrivPeek has got to: aData is what lies between the read head and
\* aOutEnd, and `left` is what is missing.
PeekProgress ==
  pc = "peek" =>
    /\ Inside(aOutEnd)
    /\ aOutEnd.mySegment = NULL <=> segments = <<>>
    /\ myReadHead.mySegment <= aOutEnd.mySegment
    /\ Pos(aOutEnd) = Pos(myReadHead) + (aSize - left)
    /\ aData = [k \in 1..(aSize - left) |-> Pos(myReadHead) + k]
    /\ myReadHead.mySegment = aOutEnd.mySegment
         => myReadHead.myOffset <= aOutEnd.myOffset

Running ==
  /\ pc = "idle" <=> op = "none"
  /\ pc = "walk" => op \in {"Append", "AppendAll"}
  /\ pc = "fill" => op = "AppendAll" /\ ~source.eof
  /\ pc = "peek" <=> op \in {"Read", "Peek"}
  /\ pc = "commit" <=> op = "Commit"
  /\ op = "AppendAll" => Total + source.left <= MaxBytes /\ filled = "none"
  /\ source.eof => source.left = 0

IInv == TypeOK /\ Chain /\ Pointers /\ Offsets /\ PeekProgress /\ Running

\* No loop walks off the list: the tail walk and CommitRead never dereference
\* nullptr (Stream.cpp:55, 104), and mySize - aOffset of StreamSegment::Read
\* (Stream.cpp:27), a size_t, never wraps.
LoopsStayOnTheList ==
  /\ pc = "walk" => myTail # NULL
  /\ pc = "commit" /\ myCheckpoint.mySegment # myReadHead.mySegment
       => myCheckpoint.mySegment # NULL /\ segments[myCheckpoint.mySegment].myNext # NULL
  /\ pc = "peek" /\ PeekContinues
       => Cursor.mySegment # NULL /\ Cursor.myOffset <= segments[Cursor.mySegment].mySize

\* RestoreRead never moves forward: between calls the checkpoint is at or
\* before the read head, however many appends, short reads and commits came
\* between them.
CheckpointBehindReadHead == pc = "idle" => Pos(myCheckpoint) <= Pos(myReadHead)

\* AppendAllFromStream returns true only with the istream drained, unless the
\* stream failed under it; it returns false only for a failed stream.
FillReport ==
  /\ filled = "true" /\ ~source.bad => source.left = 0
  /\ filled = "false" => source.bad

\* The segmented list is one sequence of bytes to its reader: it implements
\* ByteStream.  A CommitRead has taken effect as soon as it is called.
Mark == IF pc = "commit" THEN Pos(myReadHead) ELSE Pos(myCheckpoint)

Abstract == INSTANCE ByteStream
              WITH total <- Total, head <- Pos(myReadHead), mark <- Mark

ImplementsByteStream == Abstract!Spec

\* Every call returns: no loop runs for ever on a finite list.
CallsReturn == pc # "idle" ~> pc = "idle"
=================================================================================
