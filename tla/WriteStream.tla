------------------------------ MODULE WriteStream ------------------------------
(***************************************************************************)
(* tools/Stream.cpp, class WriteStream: a list of StreamSegments that      *)
(* WriteData extends and Get detaches, and WriteAllToStream, which drains  *)
(* a detached list into an ostream.                                        *)
(*                                                                         *)
(* As in ReadStream, segments live at indices of `segments` in order of    *)
(* allocation, NULL is nullptr, bytes are represented by their positions   *)
(* in the order of writing, and a loop is one action per iteration.        *)
(* `queue` is the list a Get returned to its caller, who takes it segment  *)
(* by segment while more is written (TCPSocket's myWriteQueue), and takes  *)
(* the whole of it before calling Get again.  TCPSocket asks HasData       *)
(* before; WriteAllToStream does not, and no client has to.                *)
(***************************************************************************)
EXTENDS Integers, Sequences

CONSTANTS CHUNK_SIZE,  \* StreamSegment::CHUNK_SIZE
          MaxBytes     \* bound: bytes written in a behaviour

WriteStreamAssumption ==
  /\ CHUNK_SIZE \in Nat \ {0}
  /\ MaxBytes \in Nat

VARIABLES segments,     \* the heap of StreamSegments
          myHead,       \* pointer to the first segment of the stream
          myWriteHead,  \* pointer to the segment that is written to
          pc,           \* the loop the running call is in; "crashed" for ever
          op,           \* the running call
          left,         \* WriteData: bytes still to write
          at, last,     \* Get: the search for the end of the list
          queue,        \* the detached list, what is left of it
          streamGood,   \* WriteAllToStream: the state of the ostream
          written,      \* bytes written so far
          taken,        \* bytes of detached lists that are done with
          sink          \* the bytes that arrived there

vars == <<segments, myHead, myWriteHead, pc, op, left, at, last, queue, streamGood,
          written, taken, sink>>

NULL == 0

Lesser(a, b) == IF a <= b THEN a ELSE b

Init ==
  /\ segments = <<>> /\ myHead = NULL /\ myWriteHead = NULL
  /\ pc = "idle" /\ op = "none" /\ left = 0 /\ at = NULL /\ last = NULL
  /\ queue = NULL /\ streamGood = TRUE
  /\ written = 0 /\ taken = 0 /\ sink = <<>>

NewSegment(start) == [first |-> start, mySize |-> 0, myNext |-> NULL]

HasData == myHead # NULL /\ segments[myHead].mySize # 0

-----------------------------------------------------------------------------
(* WriteData(aData, aSize) *)

WriteData(n) ==
  /\ pc = "idle"
  /\ written + n <= MaxBytes
  /\ pc' = "write" /\ op' = "Write" /\ left' = n
  /\ UNCHANGED <<segments, myHead, myWriteHead, at, last, queue, streamGood, written,
                 taken, sink>>

\* Faulty variant, for mutation: a full segment gets no successor.
FillWithoutSuccessor(heap, h, amount) ==
  [heap EXCEPT ![h].mySize = @ + amount]

\* Faulty variant, for mutation: a segment with space for one byte counts as full.
FillOneShort(heap, h, amount) ==
  LET filled == [heap EXCEPT ![h].mySize = @ + amount]
  IN IF filled[h].mySize >= CHUNK_SIZE - 1
     THEN Append([filled EXCEPT ![h].myNext = Len(heap) + 1], NewSegment(written + amount))
     ELSE filled

\* Segment h with `amount` bytes more; a segment that is full gets a successor.
Fill(heap, h, amount) ==
  LET filled == [heap EXCEPT ![h].mySize = @ + amount]
  IN IF filled[h].mySize = CHUNK_SIZE
     THEN Append([filled EXCEPT ![h].myNext = Len(heap) + 1], NewSegment(written + amount))
     ELSE filled

\* One iteration: a first segment if there is none, then memcpy into what
\* space the write head has left.
WriteIteration ==
  LET fresh  == myWriteHead = NULL
      heap   == IF fresh THEN Append(segments, NewSegment(written)) ELSE segments
      h      == IF fresh THEN Len(heap) ELSE myWriteHead
      amount == Lesser(CHUNK_SIZE - heap[h].mySize, left)
      filled == Fill(heap, h, amount)
  IN /\ pc = "write" /\ left > 0
     /\ segments' = filled
     /\ myHead' = IF fresh THEN h ELSE myHead
     /\ myWriteHead' = IF filled[h].myNext # NULL THEN filled[h].myNext ELSE h
     /\ left' = left - amount
     /\ written' = written + amount
     /\ UNCHANGED <<pc, op, at, last, queue, streamGood, taken, sink>>

WriteReturn ==
  /\ pc = "write" /\ left = 0
  /\ pc' = "idle" /\ op' = "none"
  /\ UNCHANGED <<segments, myHead, myWriteHead, left, at, last, queue, streamGood,
                 written, taken, sink>>

-----------------------------------------------------------------------------
(* Get(), called for itself or by WriteAllToStream *)

\* Where the call goes on when Get has returned.
Return == /\ pc' = IF op = "WriteAll" THEN "drain" ELSE "idle"
          /\ op' = IF op = "WriteAll" THEN "WriteAll" ELSE "none"

Call(name) ==
  /\ pc = "idle"
  /\ queue = NULL
  /\ pc' = "get" /\ op' = name
  /\ UNCHANGED <<segments, myHead, myWriteHead, left, at, last, queue, streamGood,
                 written, taken, sink>>

Get == Call("Get")
WriteAllToStream == Call("WriteAll")

GetNothing ==
  /\ pc = "get"
  /\ myWriteHead = NULL
  /\ Return
  /\ UNCHANGED <<segments, myHead, myWriteHead, left, at, last, queue, streamGood,
                 written, taken, sink>>

\* The write head holds data: the whole list goes.
GetAll ==
  /\ pc = "get"
  /\ myWriteHead # NULL
  /\ segments[myWriteHead].mySize # 0
  /\ queue' = myHead
  /\ myHead' = NULL /\ myWriteHead' = NULL
  /\ Return
  /\ UNCHANGED <<segments, left, at, last, streamGood, written, taken, sink>>

\* The write head is empty and stays: the list in front of it goes.
GetSplit ==
  /\ pc = "get"
  /\ myWriteHead # NULL
  /\ segments[myWriteHead].mySize = 0
  /\ pc' = "detach" /\ at' = myHead /\ last' = NULL
  /\ UNCHANGED <<segments, myHead, myWriteHead, op, left, queue, streamGood, written,
                 taken, sink>>

FindTail ==
  /\ pc = "detach"
  /\ at # myWriteHead
  /\ last' = at
  /\ at' = segments[at].myNext
  /\ UNCHANGED <<segments, myHead, myWriteHead, pc, op, left, queue, streamGood,
                 written, taken, sink>>

\* Faulty variant, for mutation: the list is handed out without being cut.
CutNothing == segments

\* last->myNext = nullptr
Cut == [segments EXCEPT ![last].myNext = NULL]

Detach ==
  /\ pc = "detach"
  /\ at = myWriteHead
  /\ last # NULL
  /\ segments' = Cut
  /\ queue' = myHead
  /\ myHead' = myWriteHead
  /\ at' = NULL /\ last' = NULL
  /\ Return
  /\ UNCHANGED <<myWriteHead, left, streamGood, written, taken, sink>>

\* There is nothing in front of the write head: last is still nullptr, and
\* the program writes through it (Stream.cpp:215).
DetachCrash ==
  /\ pc = "detach"
  /\ at = myWriteHead
  /\ last = NULL
  /\ pc' = "crashed"
  /\ UNCHANGED <<segments, myHead, myWriteHead, op, left, at, last, queue, streamGood,
                 written, taken, sink>>

-----------------------------------------------------------------------------
(* The owner of a detached list *)

Bytes(segment, k) == [i \in 1..k |-> segment.first + i]

\* The segment at the front of the queue is done with; k bytes of it arrived.
TakeSegment(k) ==
  /\ sink' = sink \o Bytes(segments[queue], k)
  /\ taken' = taken + segments[queue].mySize
  /\ queue' = segments[queue].myNext

\* The caller of Get takes a segment, at any time between two calls.
Consume ==
  /\ pc = "idle"
  /\ queue # NULL
  /\ TakeSegment(segments[queue].mySize)
  /\ UNCHANGED <<segments, myHead, myWriteHead, pc, op, left, at, last, streamGood, written>>

\* One iteration of WriteAllToStream's loop.  It goes on after a failure, so
\* as not to leave a long list to a recursive destructor.
DrainIteration(k) ==
  /\ pc = "drain"
  /\ queue # NULL
  /\ \/ streamGood /\ k = segments[queue].mySize /\ UNCHANGED streamGood
     \/ streamGood /\ k < segments[queue].mySize /\ streamGood' = FALSE
     \/ ~streamGood /\ k = 0 /\ UNCHANGED streamGood
  /\ TakeSegment(k)
  /\ UNCHANGED <<segments, myHead, myWriteHead, pc, op, left, at, last, written>>

DrainReturn ==
  /\ pc = "drain"
  /\ queue = NULL
  /\ pc' = "idle" /\ op' = "none"
  /\ UNCHANGED <<segments, myHead, myWriteHead, left, at, last, queue, streamGood,
                 written, taken, sink>>

-----------------------------------------------------------------------------
(* The next-state relation *)

Begin ==
  \/ \E n \in 0..MaxBytes : WriteData(n)
  \/ Get
  \/ WriteAllToStream

\* The steps of a call that is running.
Continue ==
  \/ WriteIteration \/ WriteReturn
  \/ GetNothing \/ GetAll \/ GetSplit \/ FindTail \/ Detach \/ DetachCrash
  \/ \E k \in 0..CHUNK_SIZE : DrainIteration(k)
  \/ DrainReturn

Next == Begin \/ Continue \/ Consume

Spec == Init /\ [][Next]_vars

\* The thread inside a call keeps executing it.
FairSpec == Spec /\ WF_vars(Continue)

-----------------------------------------------------------------------------
(* Properties *)

Segment == [first : Nat, mySize : 0..CHUNK_SIZE, myNext : Nat]
Pointer == 0..Len(segments)

TypeOK ==
  /\ segments \in Seq(Segment)
  /\ myHead \in Pointer /\ myWriteHead \in Pointer
  /\ at \in Pointer /\ last \in Pointer /\ queue \in Pointer
  /\ pc \in {"idle", "write", "get", "detach", "drain", "crashed"}
  /\ op \in {"none", "Write", "Get", "WriteAll"}
  /\ left \in Nat /\ written \in Nat /\ written + left <= MaxBytes
  /\ taken \in Nat /\ sink \in Seq(Nat)
  /\ streamGood \in BOOLEAN

\* The bytes that Get has handed over are those in front of the list.
Given == IF myHead = NULL THEN written ELSE segments[myHead].first

\* The list from myHead to myWriteHead: in order, without gaps, full but for
\* the write head, and after it nothing.
List ==
  /\ myHead = NULL <=> myWriteHead = NULL
  /\ myHead # NULL =>
       /\ myHead <= myWriteHead
       /\ myWriteHead = Len(segments)
       /\ segments[myWriteHead].mySize < CHUNK_SIZE
       /\ segments[myWriteHead].myNext = NULL
       /\ segments[myWriteHead].first + segments[myWriteHead].mySize = written
       /\ \A i \in myHead..(myWriteHead - 1) :
            /\ segments[i].mySize = CHUNK_SIZE
            /\ segments[i].myNext = i + 1
            /\ segments[i + 1].first = segments[i].first + CHUNK_SIZE
       /\ \A i, j \in myHead..myWriteHead :
            i <= j => segments[i].first <= segments[j].first

\* The detached list: its segments are older than the stream's, none is empty,
\* and it ends where the stream begins.
Queue ==
  queue # NULL =>
    /\ myHead # NULL => queue < myHead
    /\ segments[queue].first = taken
    /\ taken < Given
    /\ \A i \in queue..Len(segments) :
         (myHead # NULL => i < myHead) =>
           /\ segments[i].mySize > 0
           /\ IF segments[i].first + segments[i].mySize = Given
              THEN segments[i].myNext = NULL
              ELSE /\ segments[i].myNext = i + 1
                   /\ i < Len(segments) /\ (myHead # NULL => i + 1 < myHead)
                   /\ segments[i + 1].first = segments[i].first + segments[i].mySize
                   /\ segments[i].first + segments[i].mySize < Given

\* All that is left in the stream is the empty segment behind a full one.
OnlyEmptySegment == myHead # NULL /\ myHead = myWriteHead /\ segments[myHead].mySize = 0

\* What the running call relies on.
Running ==
  /\ pc = "idle" => op = "none"
  /\ pc = "write" => op = "Write"
  /\ pc \in {"get", "detach", "drain"} => op \in {"Get", "WriteAll"}
  /\ pc = "drain" => op = "WriteAll"
  /\ pc \in {"get", "detach", "crashed"} => queue = NULL
  /\ pc # "write" => left = 0
  /\ queue = NULL => taken = Given
  /\ pc = "detach" => /\ myHead # NULL /\ segments[myWriteHead].mySize = 0
                      /\ IF last = NULL THEN at = myHead
                         ELSE last >= myHead /\ last < myWriteHead /\ at = last + 1
  /\ pc = "crashed" => OnlyEmptySegment

IInv == TypeOK /\ List /\ Queue /\ Running

\* Get never writes through nullptr (Stream.cpp:215), but "returns a linked list
\* of stream segments with all the data written to the stream since the last
\* Get" (DOCUMENTATION.md:197), be it none (tools_test/Data.cpp:18).
NoNullDereference == pc # "crashed"

\* Get writes through nullptr only where all it finds is an empty segment.
CrashesOnlyOnEmptySegment == pc = "crashed" => OnlyEmptySegment

\* Between calls HasData tells exactly whether bytes wait to be fetched, also
\* when the write head is an empty segment that a full one left behind.
HasDataMeansPending == pc = "idle" => (HasData <=> Given < written)

\* No list that Get returns holds an empty segment, which ReadStream::AppendData
\* and TCPSocket::HandleSend rely on.
NoEmptySegment == queue # NULL => segments[queue].mySize > 0

\* Whoever takes what Get returned sees the bytes once and in order, while the
\* stream is written to and fetched from again.
Abstract == INSTANCE WriteBuffer WITH given <- Given

ImplementsWriteBuffer == Abstract!Spec

\* A call of Get that finds only an empty segment is lost.
Lost == pc \in {"get", "detach", "crashed"} /\ OnlyEmptySegment

\* Every other call returns: the search for the end of the list meets the write
\* head, with something in front of it.
CallsReturn == pc # "idle" /\ ~Lost ~> pc = "idle"
================================================================================
