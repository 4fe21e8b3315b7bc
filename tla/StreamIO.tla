-------------------------------- MODULE StreamIO --------------------------------
(***************************************************************************)
(* tools/StreamWriter.cpp, tools/StreamReader.cpp, tools/DataProcessor.h:  *)
(* objects written to a WriteStream at one end of a connection and read    *)
(* from a ReadStream at the other, where their bytes arrive in pieces.     *)
(*                                                                         *)
(* An object is described by its type, a record: a number of `width`       *)
(* bytes (bool, the integers, float, double, enums, durations), a string,  *)
(* a vector, an optional (or unique_ptr), or a tuple (or pair, or a        *)
(* Serializable that processes its fields in order).  A number is its      *)
(* bytes in memory, least significant first; a string is the sequence of   *)
(* its characters; an optional is a sequence of at most one.               *)
(*                                                                         *)
(* The streams are those of ByteStream and WriteBuffer: a sequence of      *)
(* bytes with a read position and a checkpoint, on which a call is one     *)
(* step.  The asserts of StreamReader.cpp:108-110 are evaluated.           *)
(***************************************************************************)
EXTENDS Integers, Sequences, SequencesExt

CONSTANTS Chunk,    \* StreamReader.cpp:96, bytes a string is read by
          Base,     \* the number of values of a byte
          SizeWidth,\* sizeof(size_t)
          Schema,   \* the types of the objects that are sent, in order
          Objects   \* bound: for each position of the schema, what may be written;
                    \* no string holds a NUL, which would end it (StreamReader.cpp:105)

ASSUME StreamIOAssumption ==
  /\ Chunk \in Nat \ {0} /\ Base \in Nat \ {0, 1} /\ SizeWidth \in Nat \ {0}
  /\ DOMAIN Objects = DOMAIN Schema

VARIABLES written,  \* the objects written
          wire,     \* bytes on their way
          stream,   \* the ReadStream: its bytes, read position and checkpoint
          target,   \* the object that the next read goes into
          read      \* the objects that were read

vars == <<written, wire, stream, target, read>>

NUL == 0

-----------------------------------------------------------------------------
(* StreamWriter *)

WriteString(value) == Append(value, NUL)

\* The bytes of a size_t in memory, least significant first.
SizeBytes(n) == [i \in 1..SizeWidth |-> (n \div Base ^ (i - 1)) % Base]

\* DataProcessor::Process with a StreamWriter: the bytes it writes.
RECURSIVE Write(_, _)
Write(type, value) ==
  CASE type.kind = "numeric"  -> Reverse(value)
    [] type.kind = "string"   -> WriteString(value)
    [] type.kind = "vector"   -> Reverse(SizeBytes(Len(value)))
                                 \o FlattenSeq([i \in DOMAIN value |-> Write(type.item, value[i])])
    [] type.kind = "optional" -> <<Len(value)>>
                                 \o (IF value = <<>> THEN <<>> ELSE Write(type.item, value[1]))
    [] type.kind = "tuple"    -> FlattenSeq([i \in DOMAIN value |-> Write(type.items[i], value[i])])

-----------------------------------------------------------------------------
(* StreamReader.  A reader is the state of one call of Process: the stream, *)
(* the object, and whether the call has succeeded so far.                   *)

\* A T{}, which vector::resize, make_unique and optional::emplace make.
RECURSIVE Default(_)
Default(type) ==
  CASE type.kind = "numeric" -> [i \in 1..type.width |-> 0]
    [] type.kind = "tuple"   -> [i \in DOMAIN type.items |-> Default(type.items[i])]
    [] OTHER                 -> <<>>

Ahead(s) == SubSeq(s.bytes, s.head + 1, Len(s.bytes))

Lesser(a, b) == IF a <= b THEN a ELSE b

\* ReadStream::Peek and ReadStream::Read; a Read takes what there is, also when
\* that is not enough.
Peek(s, n) == SubSeq(Ahead(s), 1, Lesser(n, Len(Ahead(s))))
Take(s, n) == [s EXCEPT !.head = @ + Len(Peek(s, n))]

\* ReadRawNumeric: the bytes of a short Read are in the object all the same,
\* but not reversed.
ReadNumeric(s, value) ==
  LET n     == Len(value)
      bytes == Peek(s, n)
  IN IF Len(bytes) = n
     THEN [ok |-> TRUE, stream |-> Take(s, n), value |-> Reverse(bytes)]
     ELSE [ok |-> FALSE, stream |-> Take(s, n),
           value |-> bytes \o SubSeq(value, Len(bytes) + 1, n)]

SizeOf(bytes) == FoldFunctionOnSet(+, 0, [i \in DOMAIN bytes |-> bytes[i] * Base ^ (i - 1)], DOMAIN bytes)

\* Faulty variant, for mutation: a chunk in which the string does not end is
\* taken for the last one.
LastChunkAlways(bytes) == TRUE

\* There is nothing behind this chunk.
LastChunk(bytes) == Len(bytes) # Chunk

\* Process(std::string&): chunk by chunk up to a NUL.
RECURSIVE ReadString(_, _)
ReadString(s, value) ==
  LET bytes == Peek(s, Chunk)
      nul   == SelectInSeq(bytes, LAMBDA b : b = NUL)
  IN IF nul # 0
     THEN [ok |-> TRUE, stream |-> Take(s, nul), value |-> value \o SubSeq(bytes, 1, nul - 1)]
     ELSE IF LastChunk(bytes)
     THEN [ok |-> FALSE, stream |-> Take(s, Len(bytes)), value |-> value \o bytes]
     ELSE ReadString(Take(s, Chunk), value \o bytes)

\* vector::resize: the objects that are there stay.
Resize(type, value, n) ==
  [i \in 1..n |-> IF i <= Len(value) THEN value[i] ELSE Default(type.item)]

\* Faulty variant, for mutation: an optional that has a value keeps it.
EmptiedKept(value) == value

\* aOptional.reset(), aPtr = nullptr
Emptied(value) == <<>>

\* F(x), with x evaluated once.
With(x, F(_)) == CHOOSE y \in {F(v) : v \in {x}} : TRUE

\* DataProcessor::Process with a StreamReader, into an object that holds `value`.
RECURSIVE Read(_, _, _), ReadItems(_, _, _, _)
Read(type, s, value) ==
  CASE type.kind = "numeric" -> ReadNumeric(s, value)
    [] type.kind = "string"  -> ReadString(s, <<>>)
    [] type.kind = "tuple"   -> ReadItems(type.items, s, value, 1)
    [] type.kind = "vector"  ->
         With(ReadNumeric(s, SizeBytes(Len(value))),
              LAMBDA size :
                IF ~size.ok THEN [size EXCEPT !.value = value]
                ELSE ReadItems([i \in 1..SizeOf(size.value) |-> type.item], size.stream,
                               Resize(type, value, SizeOf(size.value)), 1))
    [] type.kind = "optional" ->
         With(ReadNumeric(s, <<Len(value)>>),
              LAMBDA has :
                IF ~has.ok THEN [has EXCEPT !.value = value]
                ELSE IF has.value = <<0>> THEN [has EXCEPT !.value = Emptied(value)]
                ELSE With(Read(type.item, has.stream,
                               IF value = <<>> THEN Default(type.item) ELSE value[1]),
                          LAMBDA item : [item EXCEPT !.value = <<@>>]))

\* The items from i on, until one of them fails.
ReadItems(types, s, value, i) ==
  IF i > Len(types) THEN [ok |-> TRUE, stream |-> s, value |-> value]
  ELSE With(Read(types[i], s, value[i]),
            LAMBDA item :
              With([value EXCEPT ![i] = item.value],
                   LAMBDA new : IF item.ok THEN ReadItems(types, item.stream, new, i + 1)
                                ELSE [item EXCEPT !.value = new]))

-----------------------------------------------------------------------------
(* The two ends *)

Init ==
  /\ written = <<>> /\ wire = <<>> /\ read = <<>>
  /\ stream = [bytes |-> <<>>, head |-> 0, mark |-> 0]
  /\ target = Default(Schema[1])

\* StreamWriter::Process of the next object.
Process(object) ==
  /\ Len(written) < Len(Schema)
  /\ object \in Objects[Len(written) + 1]
  /\ written' = Append(written, object)
  /\ wire' = wire \o Write(Schema[Len(written) + 1], object)
  /\ UNCHANGED <<stream, target, read>>

\* The connection delivers n bytes (ReadStream::AppendData).
Arrive(n) ==
  /\ n <= Len(wire)
  /\ stream' = [stream EXCEPT !.bytes = @ \o SubSeq(wire, 1, n)]
  /\ wire' = SubSeq(wire, n + 1, Len(wire))
  /\ UNCHANGED <<written, target, read>>

CommitRead(s) == [s EXCEPT !.mark = s.head]

RestoreRead(s) == [s EXCEPT !.head = s.mark]

\* StreamReader::ProcessAndCommit of the next object.  After a failure the
\* caller tries again with what the failed read left in the object; after a
\* success it goes on with a new object, or with one that was in use before.
ProcessAndCommit ==
  /\ Len(read) < Len(Schema)
  /\ \E result \in {Read(Schema[Len(read) + 1], stream, target)} :
       IF result.ok
       THEN /\ stream' = CommitRead(result.stream)
            /\ read' = Append(read, result.value)
            /\ IF Len(read') = Len(Schema) THEN target' = <<>>
               ELSE target' \in {Default(Schema[Len(read') + 1])} \cup Objects[Len(read') + 1]
       ELSE /\ stream' = RestoreRead(result.stream)
            /\ target' = result.value
            /\ UNCHANGED read
  /\ UNCHANGED <<written, wire>>

Next ==
  \/ \E i \in DOMAIN Schema : \E object \in Objects[i] : Process(object)
  \/ \E n \in 1..Len(wire) : Arrive(n)
  \/ ProcessAndCommit

Spec == Init /\ [][Next]_vars

\* The connection delivers, and the reader does not stop trying.
FairSpec ==
  /\ Spec
  /\ WF_vars(\E n \in 1..Len(wire) : Arrive(n))
  /\ WF_vars(ProcessAndCommit)

-----------------------------------------------------------------------------
(* Properties *)

Byte == 0..(Base - 1)

TypeOK ==
  /\ wire \in Seq(Byte) /\ stream.bytes \in Seq(Byte)
  /\ stream.head \in 0..Len(stream.bytes) /\ stream.mark \in 0..Len(stream.bytes)
  /\ Len(read) <= Len(Schema) /\ Len(written) <= Len(Schema)

\* Between calls the stream and the connection hold exactly the bytes of the
\* objects that are not read yet: a failed ProcessAndCommit takes nothing and a
\* successful one no byte of the next object, wherever the pieces end.
NothingTakenTwice ==
  /\ TypeOK
  /\ stream.head = stream.mark
  /\ Ahead(stream) \o wire
       = FlattenSeq([i \in 1..(Len(written) - Len(read)) |->
                       Write(Schema[Len(read) + i], written[Len(read) + i])])

\* What is read is what was written, in order, whatever was in the object
\* before, an earlier object, or what a read left there that failed half-way;
\* and nothing but that is taken.
ReadAsWritten == IsPrefix(read, written) /\ NothingTakenTwice

\* An object that was written is read in the end: when its last byte is there,
\* ProcessAndCommit succeeds.
WrittenIsRead == \A n \in DOMAIN Schema : Len(written) >= n ~> Len(read) >= n
================================================================================
