-------------------------------- MODULE Streams --------------------------------
(***************************************************************************)
(* The two streams of tools/Stream.h.  They do not know of each other: a   *)
(* behaviour is one of a ReadStream, whose names are used as they are, or  *)
(* one of a WriteStream, whose state is in the variables with a `w`.       *)
(***************************************************************************)
EXTENDS ReadStream

CONSTANT MaxBytesWritten  \* bound: bytes written in a behaviour

VARIABLES subject,
          wSegments, wHead, wWriteHead, wPc, wOp, wLeft, wAt, wLast, wQueue,
          wStreamGood, wWritten, wTaken, wSink

writeVars == <<wSegments, wHead, wWriteHead, wPc, wOp, wLeft, wAt, wLast, wQueue,
               wStreamGood, wWritten, wTaken, wSink>>

Write == INSTANCE WriteStream
           WITH MaxBytes <- MaxBytesWritten, segments <- wSegments, myHead <- wHead,
                myWriteHead <- wWriteHead, pc <- wPc, op <- wOp, left <- wLeft, at <- wAt,
                last <- wLast, queue <- wQueue, streamGood <- wStreamGood,
                written <- wWritten, taken <- wTaken, sink <- wSink

ASSUME StreamsAssumption == Write!WriteStreamAssumption

StreamsInit == subject \in {"ReadStream", "WriteStream"} /\ Init /\ Write!Init

StreamsNext ==
  /\ \/ subject = "ReadStream" /\ Next /\ UNCHANGED writeVars
     \/ subject = "WriteStream" /\ Write!Next /\ UNCHANGED vars
  /\ UNCHANGED subject

StreamsSpec == StreamsInit /\ [][StreamsNext]_<<subject, vars, writeVars>>

\* The thread inside a call keeps executing it.
FairStreamsSpec ==
  /\ StreamsSpec
  /\ WF_vars(Continue /\ UNCHANGED <<subject, writeVars>>)
  /\ WF_writeVars(Write!Continue /\ UNCHANGED <<subject, vars>>)

-----------------------------------------------------------------------------
(* Properties, next to those of ReadStream *)

\* The inductive invariant of WriteStream, its types included; of it follows that
\* Get writes through nullptr (Stream.cpp:215) only where all it finds is the
\* empty segment that a full one left behind.
WriteIInv == Write!IInv

\* Whoever takes what Get returned sees the bytes once and in order, while the
\* stream is written to and fetched from again.
ImplementsWriteBuffer == Write!ImplementsWriteBuffer

\* "Returns a Linked list of [stream segments] with all the data written to the
\* stream since the last Get()" (DOCUMENTATION.md:197), be it none
\* (tools_test/Data.cpp:18): Get returns.
GetReturns == Write!NoNullDereference

\* Every call of either stream returns, but one of Get (and so of
\* WriteAllToStream) that finds nothing but an empty segment (GetReturns): no loop
\* runs for ever on a finite list, and the search for the end of the list meets the
\* write head.
AllCallsReturn == CallsReturn /\ Write!CallsReturn
================================================================================
