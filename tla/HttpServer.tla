------------------------------- MODULE HttpServer -------------------------------
(***************************************************************************)
(* tools/http/Server.cpp and Frame.cpp: one connection of a server, which  *)
(* is looked at whenever its read stream has news (examples/webpage/       *)
(* main.cpp), with the peer that sends it requests.                        *)
(*                                                                         *)
(* Text is a sequence of tokens: CR, LF, the words of a protocol line, the *)
(* text of a header line, a byte of a body.  What matters about the words  *)
(* is kept with the token, not how it is spelled.                          *)
(*                                                                         *)
(* RequestFrame::FromStream finds the lines with the StreamIterator and    *)
(* reads them with Read, and the two differ: operator++ leaves a segment   *)
(* one place late, so at the first byte of every segment but the first the *)
(* iterator sees the byte behind the end of the segment before.  `stream`  *)
(* is what Read delivers, `seen` what the iterator shows.                  *)
(***************************************************************************)
EXTENDS Integers, Sequences, SequencesExt, FiniteSetsExt

CONSTANTS CHUNK_SIZE,   \* StreamSegment::CHUNK_SIZE, in tokens
          Mappings,     \* the endpoints that were added, in their order
          PeerRequests, \* external: the requests the peer may send
          MaxRequests,  \* bound: requests in a behaviour
          MaySplit(_)   \* external: the tokens that may begin a segment

CR == [kind |-> "CR"]
LF == [kind |-> "LF"]
LineBreak == <<CR, LF>>

\* What follows the used part of a segment: it is zero from the beginning.
NUL == [kind |-> "NUL"]

Start == "Start"
Full == "Full"

ASSUME HttpServerAssumption ==
  /\ CHUNK_SIZE \in Nat \ {0}
  /\ MaxRequests \in Nat
  /\ Mappings \in Seq([methods : SUBSET STRING, mode : {Start, Full}, filter : Seq(STRING)])

\* External: a peer may send what it likes for a head, but line breaks are only
\* between its lines, and a length it gives, if it is one, is that of the body.
ASSUME PeerAssumption ==
  \A request \in PeerRequests :
    /\ request.headers \in Seq(Range(request.headers)) /\ request.body \in Seq(Range(request.body))
    /\ ({request.proto} \cup Range(request.headers)) \cap {CR, LF} = {}
    /\ \A header \in Range(request.headers) :
         header.kind = "length" =>
           /\ header.name = "Content-Length" /\ header.value \in Int
           /\ header.value < 0 \/ header.value = Len(request.body)
    /\ (\A header \in Range(request.headers) : header.kind # "length") => request.body = <<>>

VARIABLES stream,    \* the tokens behind the checkpoint, as Read delivers them
          seen,      \* and as AvailableData shows them
          lastFull,  \* whether the last segment is full
          pc,        \* "idle", "updating", or "answering": inside of an endpoint
          news,      \* OnDataAvailable has been fired
          handled,   \* the frames that were parsed
          responses, \* the responses sent: for which frame, and by whom
          upgraded,  \* the connection is not the server's any more
          crashed,   \* an exception nobody catches
          sent,      \* external: the requests of the peer
          wire       \* external: their tokens that have not arrived

buffer == <<stream, seen, lastFull>>
peer == <<sent, wire>>
vars == <<buffer, pc, news, handled, responses, upgraded, crashed, peer>>

Init ==
  /\ stream = <<>> /\ seen = <<>> /\ lastFull = FALSE
  /\ pc = "idle" /\ news = FALSE
  /\ handled = <<>> /\ responses = <<>>
  /\ upgraded = FALSE /\ crashed = FALSE
  /\ sent = <<>> /\ wire = <<>>

-----------------------------------------------------------------------------
(* RequestFrame::FromStream *)

\* What std::search looks for: the line breaks, each of which ends a line.
Breaks == {j \in 1..(Len(seen) - 1) : SubSeq(seen, j, j + 1) = LineBreak}

\* TryReadLine: the line that ends there begins behind the line break before.
LineStart(end) ==
  Max({1} \cup {j + Len(LineBreak) : j \in {k \in Breaks : k < end}})
Line(end) == SubSeq(stream, LineStart(end), end - 1)

\* The first line, the empty one that ends the headers, and those in between.
ProtoEnd == Min(Breaks)
EmptyLines == {j \in Breaks : j - Len(LineBreak) \in Breaks}
HeadEnd == Min(EmptyLines)
HeaderEnds == LET end == HeadEnd IN {j \in Breaks \ {ProtoEnd} : j < end}

\* RequestFrame::SetMethod: the methods there are.
Methods == {"POST", "GET", "PUT", "HEAD", "DELETE", "CONNECT", "OPTIONS", "TRACE"}

\* Method, path and protocol are the first words of the first line.
Proto == Line(ProtoEnd)
ProtoIsValid ==
  /\ Breaks # {} /\ Proto # <<>>
  /\ Proto[1].kind = "proto" /\ Proto[1].method \in Methods

\* Where ": " is in a header line.
Colons(line) == {i \in 1..Len(line) : line[i].kind \in {"header", "length"}}
Key(line) == LET at == Min(Colons(line))
             IN [before |-> SubSeq(line, 1, at - 1), name |-> line[at].name]

\* Faulty variant, for mutation: a header that is there twice is accepted.
ColonsAreEnough == \A j \in HeaderEnds : Colons(Line(j)) # {}

HeadersAreValid ==
  /\ \A j \in HeaderEnds : Colons(Line(j)) # {}
  /\ \A i, j \in HeaderEnds : Key(Line(i)) = Key(Line(j)) => i = j

\* What from_chars cannot read: a value no other length has.
NotANumber == -1000

\* Content-Length, 0 when there is none.
Headers == {Line(j) : j \in HeaderEnds}
ContentLength ==
  LET lengths == {line \in Headers : line[1].kind = "length"}
  IN IF lengths = {} THEN 0 ELSE (CHOOSE line \in lengths : TRUE)[1].value

HasHead == ProtoIsValid /\ EmptyLines # {} /\ HeadersAreValid
HasLength == HasHead /\ ContentLength # NotANumber

BodyAt == HeadEnd + Len(LineBreak)
BodyEnd == BodyAt + ContentLength - 1

\* myData.resize throws.
LengthThrows == HasLength /\ ContentLength < 0
HasFrame == HasLength /\ ContentLength >= 0 /\ BodyEnd <= Len(stream)

FrameAtHead == [proto   |-> Proto[1],
                headers |-> Headers,
                body    |-> SubSeq(stream, BodyAt, BodyEnd)]

\* Faulty variant, for mutation: the body stays in the stream.
CommitBeforeBody ==
  /\ stream' = SubSeq(stream, BodyAt, Len(stream))
  /\ seen' = SubSeq(seen, BodyAt, Len(seen))

CommitRead ==
  /\ stream' = SubSeq(stream, BodyEnd + 1, Len(stream))
  /\ seen' = SubSeq(seen, BodyEnd + 1, Len(seen))

-----------------------------------------------------------------------------
(* Server *)

\* Server::EndpointMapping::OnFrame: Start falls through to Full.
Matches(mapping, proto) ==
  /\ proto.method \in mapping.methods
  /\ mapping.mode = Start => ~IsPrefix(mapping.filter, proto.path)
  /\ proto.path = mapping.filter

\* Who OnFrame is answered by: the mapping that was added first.
Answering(proto) == {i \in 1..Len(Mappings) : Matches(Mappings[i], proto)}
Nobody == 0
Endpoint(proto) == IF Answering(proto) = {} THEN Nobody ELSE Min(Answering(proto))

\* Server::UpdateOn is called.
UpdateOn ==
  /\ pc = "idle" /\ news /\ ~crashed
  /\ news' = FALSE
  /\ pc' = IF upgraded THEN "idle" ELSE "updating"
  /\ UNCHANGED <<buffer, handled, responses, upgraded, crashed, peer>>

NoFrame ==
  /\ pc = "updating" /\ ~crashed /\ ~HasFrame /\ ~LengthThrows
  /\ pc' = "idle"
  /\ UNCHANGED <<buffer, news, handled, responses, upgraded, crashed, peer>>

Throw ==
  /\ pc = "updating" /\ ~crashed /\ LengthThrows
  /\ crashed' = TRUE
  /\ UNCHANGED <<buffer, pc, news, handled, responses, upgraded, peer>>

\* A frame is parsed; with no endpoint for it the default response is sent.
Parse ==
  /\ pc = "updating" /\ ~crashed /\ HasFrame
  /\ \E frame \in {FrameAtHead} :
       /\ handled' = Append(handled, frame)
       /\ \/ /\ Endpoint(frame.proto) = Nobody
             /\ responses' = Append(responses, [to |-> Len(handled) + 1, by |-> Nobody])
             /\ UNCHANGED pc
          \/ /\ Endpoint(frame.proto) # Nobody
             /\ pc' = "answering" /\ UNCHANGED responses
  /\ CommitRead
  /\ UNCHANGED <<lastFull, news, upgraded, crashed, peer>>

Answer == [to |-> Len(handled), by |-> Endpoint(Last(handled).proto)]

Answers ==
  /\ pc = "answering"
  /\ UNCHANGED <<buffer, news, handled, crashed, peer>>

\* The endpoint sends its response.
HasResponded ==
  /\ Answers
  /\ responses' = Append(responses, Answer)
  /\ pc' = "updating" /\ UNCHANGED upgraded

\* Faulty variants, for mutation: nothing is sent; what follows is left there
\* until more arrives.
UseDefaultForgotten ==
  /\ Answers
  /\ pc' = "updating" /\ UNCHANGED <<upgraded, responses>>

UseDefaultAndReturn ==
  /\ Answers
  /\ responses' = Append(responses, [to |-> Len(handled), by |-> Nobody])
  /\ pc' = "idle" /\ UNCHANGED upgraded

\* The endpoint leaves it to the server.
UseDefault ==
  /\ Answers
  /\ responses' = Append(responses, [to |-> Len(handled), by |-> Nobody])
  /\ pc' = "updating" /\ UNCHANGED upgraded

\* The endpoint sends its response and takes the connection over
\* (http/WebsocketEndpoint.cpp); what follows in the stream is not the server's.
ShouldTerminate ==
  /\ Answers
  /\ responses' = Append(responses, Answer)
  /\ upgraded' = TRUE /\ pc' = "idle"

-----------------------------------------------------------------------------
(* External: the peer, and the TCPSocket that the streams belong to *)

\* A request as it is sent.
Encode(request) ==
  <<request.proto>> \o LineBreak
  \o FlattenSeq([i \in 1..Len(request.headers) |-> <<request.headers[i]>> \o LineBreak])
  \o LineBreak \o request.body

PeerSends(request) ==
  /\ Len(sent) < MaxRequests
  /\ sent' = Append(sent, request)
  /\ wire' = wire \o Encode(request)
  /\ UNCHANGED <<buffer, pc, news, handled, responses, upgraded, crashed>>

\* What the iterator sees in place of the first byte of a segment: the zero
\* behind the end of the one before, or whatever is behind a full one.
Stale == IF lastFull THEN {NUL, CR, LF} ELSE {NUL}

Received(n, stale) ==
  LET first == stream = <<>> /\ handled = <<>>
      tokens == SubSeq(wire, 1, n)
  IN /\ stream' = stream \o tokens
     /\ seen' = seen \o (IF first THEN tokens ELSE <<stale>> \o Tail(tokens))

\* A segment of n tokens arrives, and OnDataAvailable is fired for it.
Arrive(n) ==
  /\ pc = "idle" /\ ~news
  /\ n \in 1..Min({Len(wire), CHUNK_SIZE})
  /\ n < Len(wire) => MaySplit(wire[n + 1])
  /\ \E stale \in Stale : Received(n, stale)
  /\ lastFull' = (n = CHUNK_SIZE)
  /\ wire' = SubSeq(wire, n + 1, Len(wire))
  /\ news' = TRUE
  /\ UNCHANGED <<pc, handled, responses, upgraded, crashed, sent>>

-----------------------------------------------------------------------------
Step == UpdateOn \/ NoFrame \/ Throw \/ Parse \/ HasResponded \/ UseDefault \/ ShouldTerminate

Next ==
  \/ Step
  \/ \E request \in PeerRequests : PeerSends(request)
  \/ \E n \in 1..CHUNK_SIZE : Arrive(n)

Spec == Init /\ [][Next]_vars

\* OnDataAvailable calls UpdateOn, the call goes on, endpoints return, and TCP
\* delivers.
FairSpec ==
  /\ Spec
  /\ WF_vars(Step)
  /\ WF_vars(\E n \in 1..CHUNK_SIZE : Arrive(n))

-----------------------------------------------------------------------------
(* Properties *)

TypeOK ==
  /\ Len(stream) = Len(seen) /\ lastFull \in BOOLEAN
  /\ pc \in {"idle", "updating", "answering"}
  /\ news \in BOOLEAN /\ upgraded \in BOOLEAN /\ crashed \in BOOLEAN
  /\ Len(handled) <= Len(sent) /\ sent \in Seq(PeerRequests)
  /\ pc # "idle" => ~upgraded
  /\ \A k \in 1..Len(responses) :
       responses[k] \in [to : 1..Len(handled), by : 0..Len(Mappings)]

\* A request that a server should understand.
WellFormed(request) ==
  /\ request.proto.kind = "proto" /\ request.proto.method \in Methods
  /\ \A i \in 1..Len(request.headers) :
       /\ request.headers[i].kind \in {"header", "length"}
       /\ request.headers[i].kind = "length" => request.headers[i].value = Len(request.body)
       /\ \A j \in 1..Len(request.headers) :
            request.headers[i].name = request.headers[j].name => i = j

\* The requests are parsed in the order in which they were sent, each with its
\* own path, headers and body, however they arrive; the first one that is not
\* well-formed is never taken for one that is, nor is anything behind it parsed.
ParsedAsSent ==
  \A i \in 1..Len(handled) :
    /\ WellFormed(sent[i])
    /\ handled[i] = [proto   |-> sent[i].proto,
                     headers |-> {<<sent[i].headers[j]>> : j \in 1..Len(sent[i].headers)},
                     body    |-> sent[i].body]

\* What is in the stream and on its way is what has been sent and not parsed:
\* a frame takes its own bytes from the stream and no other, so a pipelined
\* request, or the first frame of the protocol the connection is upgraded to,
\* is found where it begins.
NothingLostOrTaken ==
  stream \o wire =
    FlattenSeq([i \in 1..(Len(sent) - Len(handled)) |-> Encode(sent[Len(handled) + i])])

\* The n-th response belongs to the n-th request, there are no others, and an
\* endpoint speaks only to requests for the very path it was added for.
OneResponseEach ==
  /\ TypeOK
  /\ Len(responses) = Len(handled) - (IF pc = "answering" THEN 1 ELSE 0)
  /\ \A k \in 1..Len(responses) :
       /\ responses[k].to = k
       /\ responses[k].by # Nobody =>
            /\ Mappings[responses[k].by].filter = sent[k].proto.path
            /\ sent[k].proto.method \in Mappings[responses[k].by].methods

\* Every request is answered, if those before it are well-formed and keep the
\* connection: none waits in the stream for something else to arrive.
EveryRequestIsAnswered ==
  \A i \in 1..MaxRequests :
    (Len(sent) >= i /\ \A j \in 1..i : WellFormed(sent[j]))
      ~> (Len(responses) >= i \/ upgraded)

\* "any data read from the socket will be available from here"
\* (DOCUMENTATION.md:97): AvailableData shows the bytes that were received.
AvailableIsReceived == seen = stream
================================================================================
