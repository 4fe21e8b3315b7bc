------------------------------- MODULE Websocket -------------------------------
(***************************************************************************)
(* tools/Websocket.cpp: a websocket on the two streams of a connection,    *)
(* updated whenever the read stream has news (examples/webpage/main.cpp),  *)
(* and the peer that sends it frames.                                      *)
(*                                                                         *)
(* A stream is the sequence of the fields written to it: the header byte,  *)
(* the byte with the mask bit and the short length, the long length, the   *)
(* mask, and every byte of the payload.  A field arrives as a whole, since *)
(* a Read of a part of it fails and is taken back like one of none of it.  *)
(* A payload byte of the peer's n-th frame is the number n, those of       *)
(* SendText are 0, and whether it has been XORed with the mask of a frame: *)
(* TryParseFrame reads the mask (Websocket.cpp:96-102) and never applies   *)
(* it, so that a masked payload is handed over, kept and echoed masked.    *)
(* myReusedFrame is filled before every use, so it is local to a step.     *)
(***************************************************************************)
EXTENDS Integers, Sequences, SequencesExt

CONSTANTS ShortMax,   \* longest payload with a 7 bit length (125)
          WordMax,    \* longest payload with a 16 bit length (65535)
          PeerFrames, \* external: the frames the peer may send
          MaxFrames,  \* bound: frames of the peer
          MaxTexts    \* bound: calls of SendText

Opcode == [Continuation |-> 0, Text |-> 1, Binary |-> 2,
           Close |-> 8, Ping |-> 9, Pong |-> 10, INVALID |-> 15]

\* Lengths above every payload: one with the top bit set, and one for which
\* there is no memory.
Malformed == -1
TooLong == -2

ASSUME WebsocketAssumption ==
  /\ ShortMax \in Nat /\ WordMax \in Nat /\ ShortMax < WordMax
  /\ PeerFrames \subseteq [fin : BOOLEAN, op : 0..15, masked : BOOLEAN,
                           size : Nat \cup {Malformed, TooLong}]
  /\ MaxFrames \in Nat /\ MaxTexts \in Nat

VARIABLES myHasFailed,
          myHasClosed,
          myFragmentedOpCode,
          myTotalFragmentSize,
          myFragments,
          myReadStream,   \* the fields behind the checkpoint
          myWriteStream,  \* the fields written
          pc,             \* "idle", "parsing", or "firing": inside OnData
          news,           \* OnDataAvailable has been fired
          delivered,      \* what OnData was fired with
          answers,        \* what SendFrame was called with
          crashed,        \* undefined behaviour, or an exception nobody catches
          sent,           \* external: the frames of the peer
          wire,           \* external: their fields that have not arrived
          consumed,       \* frames read from the stream
          texts           \* calls of SendText

peer == <<sent, wire>>
fragments == <<myFragmentedOpCode, myTotalFragmentSize, myFragments>>
vars == <<myHasFailed, myHasClosed, fragments, myReadStream, myWriteStream, pc, news,
          delivered, answers, crashed, peer, consumed, texts>>

\* The constructor leaves myHasFailed and myHasClosed as the memory was.
Init ==
  /\ myHasFailed \in BOOLEAN /\ myHasClosed \in BOOLEAN
  /\ myFragmentedOpCode = Opcode.INVALID /\ myTotalFragmentSize = 0 /\ myFragments = <<>>
  /\ myReadStream = <<>> /\ myWriteStream = <<>>
  /\ pc = "idle" /\ news = FALSE
  /\ delivered = <<>> /\ answers = <<>> /\ crashed = FALSE
  /\ sent = <<>> /\ wire = <<>> /\ consumed = 0 /\ texts = 0

-----------------------------------------------------------------------------
(* The fields of a frame *)

\* A payload, as it is or XORed with a mask that is not zero.
Bytes(n, size, masked) == [i \in 1..size |-> [kind |-> "byte", value |-> n, masked |-> masked]]

\* The short length that announces a long one.
Word == ShortMax + 1
Quad == ShortMax + 2

Encode(fin, op, masked, length, payload) ==
  <<[kind |-> "header", fin |-> fin, op |-> op]>>
  \o (IF length \in 0..ShortMax
      THEN <<[kind |-> "short", masked |-> masked, value |-> length]>>
      ELSE IF length \in 0..WordMax
      THEN <<[kind |-> "short", masked |-> masked, value |-> Word],
             [kind |-> "long", value |-> length]>>
      ELSE <<[kind |-> "short", masked |-> masked, value |-> Quad],
             [kind |-> "long", value |-> length]>>)
  \o (IF masked THEN <<[kind |-> "mask"]>> ELSE <<>>)
  \o payload

\* Faulty variant, for mutation: the longest short length is taken for a word.
HasLongAtMax(s) == s[2].value >= ShortMax

HasLong(s) == s[2].value > ShortMax

\* Faulty variant, for mutation: the mask is not skipped.
PayloadAtUnmasked(s) == IF HasLong(s) THEN 4 ELSE 3

\* Where the payload begins, once the first two fields are there.
PayloadAt(s) == (IF HasLong(s) THEN 4 ELSE 3) + (IF s[2].masked THEN 1 ELSE 0)

Length(s) == IF HasLong(s) THEN s[3].value ELSE s[2].value

HasHeader(s) == Len(s) >= 2 /\ Len(s) >= PayloadAt(s) - 1
HasFrame(s) == HasHeader(s) /\ Length(s) >= 0 /\ Len(s) >= PayloadAt(s) - 1 + Length(s)
IsMalformed(s) == Len(s) >= 3 /\ s[2].value = Quad /\ s[3].value = Malformed
IsTooLong(s) == HasHeader(s) /\ Length(s) = TooLong

\* The frame at the beginning of a stream, its payload as it lies there, and what
\* is behind it.
FrameOf(s) == [fin |-> s[1].fin, op |-> s[1].op,
               payload |-> SubSeq(s, PayloadAt(s), PayloadAt(s) - 1 + Length(s))]
Behind(s) == SubSeq(s, PayloadAt(s) + Length(s), Len(s))

-----------------------------------------------------------------------------
(* Writing *)

\* SendFrame: always a whole message, with the mask bit clear and the payload as it
\* was given; that of a masked Ping or Close is still masked then.
SendFrame(op, payload) ==
  /\ answers' = Append(answers, [op |-> op, payload |-> payload])
  /\ myWriteStream' = myWriteStream \o Encode(TRUE, op, FALSE, Len(payload), payload)

\* SendText, by the program or by a callback of OnData.
SendText(size) ==
  /\ pc \in {"idle", "firing"} /\ ~crashed
  /\ texts < MaxTexts /\ texts' = texts + 1
  /\ SendFrame(Opcode.Text, Bytes(0, size, FALSE))
  /\ UNCHANGED <<myHasFailed, myHasClosed, fragments, myReadStream, pc, news, delivered,
                 crashed, peer, consumed>>

-----------------------------------------------------------------------------
(* Reading *)

Update ==
  /\ pc = "idle" /\ news /\ ~crashed
  /\ news' = FALSE
  /\ pc' = IF myHasClosed \/ myHasFailed THEN "idle" ELSE "parsing"
  /\ UNCHANGED <<myHasFailed, myHasClosed, fragments, myReadStream, myWriteStream,
                 delivered, answers, crashed, peer, consumed, texts>>

\* Some field that TryParseFrame asks for is not there.
ParseNothing ==
  /\ pc = "parsing" /\ ~crashed
  /\ ~HasFrame(myReadStream) /\ ~IsMalformed(myReadStream) /\ ~IsTooLong(myReadStream)
  /\ pc' = "idle"
  /\ UNCHANGED <<myHasFailed, myHasClosed, fragments, myReadStream, myWriteStream, news,
                 delivered, answers, crashed, peer, consumed, texts>>

ParseMalformed ==
  /\ pc = "parsing" /\ ~crashed /\ IsMalformed(myReadStream)
  /\ myHasFailed' = TRUE
  /\ pc' = "idle"
  /\ UNCHANGED <<myHasClosed, fragments, myReadStream, myWriteStream, news, delivered,
                 answers, crashed, peer, consumed, texts>>

\* myPayload.resize throws, before it is known whether the payload is there.
ParseTooLong ==
  /\ pc = "parsing" /\ ~crashed /\ IsTooLong(myReadStream)
  /\ crashed' = TRUE
  /\ UNCHANGED <<myHasFailed, myHasClosed, fragments, myReadStream, myWriteStream, pc,
                 news, delivered, answers, peer, consumed, texts>>

\* A frame is there and committed; what follows is OnFrame.
Frame ==
  /\ pc = "parsing" /\ ~crashed /\ HasFrame(myReadStream) /\ ~IsMalformed(myReadStream)
  /\ consumed' = consumed + 1
  /\ myReadStream' = Behind(myReadStream)
  /\ UNCHANGED <<myHasClosed, news, peer, texts>>

\* Faulty variant, for mutation: the loop goes on after a failure.
FailAndGoOn ==
  /\ myHasFailed' = TRUE
  /\ UNCHANGED pc

\* Fail, and TryParseFrame returns false.
Fail ==
  /\ myHasFailed' = TRUE
  /\ pc' = "idle"

Answer(op) == IF op = Opcode.Ping THEN Opcode.Pong ELSE Opcode.Close

\* HandleFrame
HandleFrame(op, payload) ==
  \/ /\ op \in {Opcode.Text, Opcode.Binary}
     /\ delivered' = Append(delivered, [op |-> op, payload |-> payload])
     /\ pc' = "firing"
     /\ UNCHANGED <<myHasFailed, myWriteStream, answers>>
  \/ /\ op \in {Opcode.Ping, Opcode.Close}
     /\ IF myHasClosed THEN UNCHANGED <<myWriteStream, answers>>
        ELSE SendFrame(Answer(op), payload)
     /\ UNCHANGED <<myHasFailed, pc, delivered>>
  \/ /\ op = Opcode.Pong
     /\ UNCHANGED <<myHasFailed, pc, delivered, myWriteStream, answers>>
  \/ /\ op \notin {Opcode.Text, Opcode.Binary, Opcode.Ping, Opcode.Close, Opcode.Pong}
     /\ Fail
     /\ UNCHANGED <<delivered, myWriteStream, answers>>

IsFragment(frame) == ~frame.fin \/ frame.op = Opcode.Continuation

WholeFrame ==
  LET frame == FrameOf(myReadStream)
  IN /\ Frame /\ ~IsFragment(frame)
     /\ HandleFrame(frame.op, frame.payload)
     /\ UNCHANGED <<fragments, crashed>>

\* Faulty variant, for mutation: what was open is dropped.
KeepOnly(payload) == myFragments' = <<payload>>

Keep(payload) == myFragments' = Append(myFragments, payload)

\* Defragment of a fragment that others follow.
OpenFragment ==
  LET frame == FrameOf(myReadStream)
  IN /\ Frame /\ ~frame.fin
     /\ myFragmentedOpCode' = IF frame.op # Opcode.Continuation THEN frame.op
                              ELSE myFragmentedOpCode
     /\ Keep(frame.payload)
     /\ UNCHANGED <<myTotalFragmentSize, myHasFailed, pc, delivered, myWriteStream, answers,
                    crashed>>

\* Defragment of the last fragment when there is none before it: front() of an
\* empty vector is read before anybody looks whether it is empty.
LastWithoutOthers ==
  /\ Frame /\ FrameOf(myReadStream).fin /\ FrameOf(myReadStream).op = Opcode.Continuation
  /\ myFragments = <<>>
  /\ \/ crashed' = TRUE /\ UNCHANGED <<pc, myHasFailed>>
     \/ Fail /\ UNCHANGED crashed
  /\ UNCHANGED <<fragments, delivered, myWriteStream, answers>>

\* Defragment of the last fragment: those before it are put together, and have
\* to fill what myTotalFragmentSize says.
LastFragment ==
  LET whole == FlattenSeq(myFragments)
  IN /\ Frame /\ FrameOf(myReadStream).fin /\ FrameOf(myReadStream).op = Opcode.Continuation
     /\ myFragments # <<>>
     /\ IF Len(whole) = myTotalFragmentSize
        THEN /\ myFragmentedOpCode' = Opcode.INVALID
             /\ myTotalFragmentSize' = 0
             /\ myFragments' = <<>>
             /\ HandleFrame(myFragmentedOpCode, whole)
        ELSE /\ Fail
             /\ UNCHANGED <<fragments, delivered, myWriteStream, answers>>
     /\ UNCHANGED crashed

\* Faulty variant, for mutation: Update handles one message only.
CallbackEndsUpdate ==
  /\ pc = "firing" /\ ~crashed
  /\ pc' = "idle"
  /\ UNCHANGED <<myHasFailed, myHasClosed, fragments, myReadStream, myWriteStream, news,
                 delivered, answers, crashed, peer, consumed, texts>>

\* OnData has been fired.
CallbackReturns ==
  /\ pc = "firing" /\ ~crashed
  /\ pc' = "parsing"
  /\ UNCHANGED <<myHasFailed, myHasClosed, fragments, myReadStream, myWriteStream, news,
                 delivered, answers, crashed, peer, consumed, texts>>

-----------------------------------------------------------------------------
(* External: the peer, and the TCPSocket that the streams belong to *)

PeerSends(frame) ==
  /\ Len(sent) < MaxFrames
  /\ sent' = Append(sent, frame)
  /\ wire' = wire \o Encode(frame.fin, frame.op, frame.masked, frame.size,
                            Bytes(Len(sent) + 1, frame.size, frame.masked))
  /\ UNCHANGED <<myHasFailed, myHasClosed, fragments, myReadStream, myWriteStream, pc,
                 news, delivered, answers, crashed, consumed, texts>>

\* n fields arrive, and OnDataAvailable is fired for them.
Arrive(n) ==
  /\ pc = "idle" /\ ~news
  /\ n \in 1..Len(wire)
  /\ myReadStream' = myReadStream \o SubSeq(wire, 1, n)
  /\ wire' = SubSeq(wire, n + 1, Len(wire))
  /\ news' = TRUE
  /\ UNCHANGED <<myHasFailed, myHasClosed, fragments, myWriteStream, pc, delivered,
                 answers, crashed, sent, consumed, texts>>

-----------------------------------------------------------------------------
TryParseFrame ==
  \/ ParseNothing \/ ParseMalformed \/ ParseTooLong
  \/ WholeFrame \/ OpenFragment \/ LastWithoutOthers \/ LastFragment

Sizes == {frame.size : frame \in PeerFrames} \cap Nat

Next ==
  \/ Update \/ TryParseFrame \/ CallbackReturns
  \/ \E size \in Sizes : SendText(size)
  \/ \E frame \in PeerFrames : PeerSends(frame)
  \/ \E n \in 1..Len(wire) : Arrive(n)

Spec == Init /\ [][Next]_vars

\* OnDataAvailable calls Update, the calls go on, and TCP delivers.
FairSpec ==
  /\ Spec
  /\ WF_vars(Update) /\ WF_vars(TryParseFrame) /\ WF_vars(CallbackReturns)
  /\ WF_vars(\E n \in 1..Len(wire) : Arrive(n))

-----------------------------------------------------------------------------
(* Properties *)

TypeOK ==
  /\ myHasFailed \in BOOLEAN /\ myHasClosed \in BOOLEAN
  /\ news \in BOOLEAN /\ crashed \in BOOLEAN
  /\ myFragmentedOpCode \in 0..15 /\ myTotalFragmentSize \in Nat
  /\ pc \in {"idle", "parsing", "firing"}
  /\ pc # "idle" => ~myHasFailed
  /\ sent \in Seq(PeerFrames) /\ consumed \in 0..Len(sent)
  /\ texts \in 0..MaxTexts
  /\ \A i \in 1..Len(myFragments) : myFragments[i] \in Seq([kind : {"byte"}, value : Nat, masked : BOOLEAN])

\* The payload of the peer's i-th frame as it came over the wire: masked, if the
\* frame was.
Payload(i) == Bytes(i, sent[i].size, sent[i].masked)

\* The frames handled so far that are a message in themselves, and not empty.
WholeMessages(ops) == {i \in 1..consumed : sent[i].fin /\ sent[i].op \in ops /\ sent[i].size > 0}

\* The f[k] are all of S, in order.
Enumerates(f, S) ==
  /\ {f[k] : k \in DOMAIN f} = S
  /\ \A j, k \in DOMAIN f : j < k => f[j] < f[k]

\* However the bytes of the frames arrive, and whatever frames are between them,
\* the messages are delivered once, in order, each with the payload bytes that came
\* with it: nothing of a header, a mask or another frame gets between them.  They
\* are not what the peer meant if its frame was masked, see MasksAreApplied.
\* (Put-together messages are all empty here, see WholeMessageIsNotRefused.)
DeliveredInOrder ==
  LET messages == WholeMessages({Opcode.Text, Opcode.Binary})
      fired == {k \in DOMAIN delivered : delivered[k].payload # <<>>}
  IN \E from \in [fired -> messages] :
       /\ Enumerates(from, messages)
       /\ \A k \in fired : delivered[k] = [op |-> sent[from[k]].op, payload |-> Payload(from[k])]

\* Every Ping is answered by one Pong and every Close by one Close, with the
\* payload bytes it came with, masked if they were, and in the order they came,
\* also when the program sends texts in between and when fragments are open.
AnsweredInOrder ==
  LET requests == WholeMessages({Opcode.Ping, Opcode.Close})
      replies == {k \in DOMAIN answers : answers[k].op # Opcode.Text /\ answers[k].payload # <<>>}
  IN \E from \in [replies -> requests] :
       /\ Enumerates(from, requests)
       /\ \A k \in replies :
            answers[k] = [op |-> Answer(sent[from[k]].op), payload |-> Payload(from[k])]

\* The two together: the texts of the peer and its requests do not disturb each other.
HandledInOrder == DeliveredInOrder /\ AnsweredInOrder

\* What OnData and the peer get are the bytes that the peer meant.  Not so: the mask
\* is read and never applied (Websocket.cpp:96-106).  No run claims it.
MasksAreApplied ==
  \A k \in DOMAIN delivered : \A i \in DOMAIN delivered[k].payload : ~delivered[k].payload[i].masked

\* What SendFrame writes TryParseFrame reads, byte for byte, at every boundary
\* between the three encodings of the length: the peer may be a Websocket too.
Parsed[n \in Nat] ==
  IF n = 0 THEN [frames |-> <<>>, rest |-> myWriteStream]
  ELSE LET before == Parsed[n - 1]
       IN IF ~HasFrame(before.rest) THEN before
          ELSE [frames |-> Append(before.frames, FrameOf(before.rest)),
                rest   |-> Behind(before.rest)]

WrittenIsReadable ==
  LET parsed == Parsed[Len(answers)]
  IN /\ parsed.rest = <<>>
     /\ parsed.frames = [i \in 1..Len(answers) |->
                           [fin |-> TRUE, op |-> answers[i].op, payload |-> answers[i].payload]]

\* The fragments kept are those of the message that is open, and frames that
\* come between them leave them alone.
FragmentsAreTheOpenMessage ==
  TypeOK /\
  LET Closes(i) == sent[i].fin /\ sent[i].op = Opcode.Continuation
      open == {i \in 1..consumed : ~sent[i].fin /\ \A j \in i..consumed : ~Closes(j)}
  IN ~myHasFailed /\ ~crashed =>
       \E from \in [DOMAIN myFragments -> open] :
         /\ Enumerates(from, open)
         /\ \A k \in DOMAIN myFragments : myFragments[k] = Payload(from[k])

\* A websocket that has failed is dead: it neither delivers nor answers.
FailedIsFinal ==
  [][myHasFailed => myHasFailed' /\ UNCHANGED <<delivered, consumed>>]_vars

\* What has arrived is handled without waiting for more to arrive.
ArrivedIsHandled ==
  HasFrame(myReadStream) ~> (~HasFrame(myReadStream) \/ myHasFailed \/ myHasClosed \/ crashed)

\* "Fin was sent without other fragments" (Websocket.cpp:141): a last fragment
\* without others makes the websocket fail, and nothing else happens.
LoneFinFails == [][LastWithoutOthers => Fail]_vars

\* "Fragments didn't sum to the total" (Websocket.cpp:168): a message whose
\* fragments are all there is not refused.
WholeMessageIsNotRefused ==
  [][LastFragment /\ FlattenSeq(myFragments) # <<>> => ~myHasFailed']_vars
================================================================================
