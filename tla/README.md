# fisk_tools in TLA+

fisk_tools is a C++ library: streams of bytes in segments, TCP sockets over
them, events, an http server and a websocket on top, and small tools (reader
and writer of objects, Json, encodings, logger, tracer, allocators). This
directory holds TLA+ modules translated from its source, TLC runs that check
them on small instances, and TLAPS proofs for every value of the constants.

How to run, in this directory:

    tlc -config MCStreams.cfg MCStreams      (any .cfg with the module PROJECT.json names)
    tlapm StreamsProofs.tla                  (and TCPSocketProofs, TCPListenSocketProofs,
                                              WebsocketProofs, HttpServerProofs,
                                              WebPageProofs, EncodingsProofs,
                                              BookkeepingProofs)

`PROJECT.json` lists components, runs, the source lines each definition
models (`map`), mutants, hazards and theorems. Every operator marked "Faulty
variant, for mutation" stands for a plausible bug; no run uses it. Putting it in
the place of the definition `mutants` pairs it with makes that run fail, which
shows that the property depends on that piece of code.

## The system

| Component | State | Operations | Talks to |
|---|---|---|---|
| `ReadStream` (Stream.cpp) | list of segments, tail, read head, checkpoint | AppendData, AppendAllFromStream, Read, Peek, CommitRead, RestoreRead, AvailableData | filled by TCPSocket, read by Websocket, http, StreamReader |
| `WriteStream` (Stream.cpp) | list of segments, head, write head | WriteData, HasData, Get, WriteAllToStream | drained by TCPSocket, filled by the same three |
| `TCPSocket` (LinuxTCPSocket.cpp, WinTCPSocket.cpp) | socket, both streams, queue of segments being sent with an offset | Update (HandleSend, HandleRecv), Close, destructor | the kernel; fires OnDataAvailable |
| `TCPListenSocket` (Linux and Windows) | socket, port | Update: accept until nobody waits | fires OnNewConnection |
| `Event`, `ShortCircutableEvent`, `SingleFireEvent` (Event.h) | callbacks by id; registrations that refer back | Register, UnRegister (destructor of the handle), Fire | everybody's callbacks |
| `http::Server`, `RequestFrame` | endpoints; per frame: protocol, headers, data | UpdateOn, FromStream, OnFrame | ReadStream, endpoints through ShortCircutableEvent |
| `Websocket` | failed, closed, fragments of the open message | Update, TryParseFrame, OnFrame, Defragment, SendFrame | both streams; fires OnData |
| web page (examples/webpage) | clients, messages, who is registered for news | main loop, chat endpoints, handing a connection to its websocket | all of the above |
| `StreamReader`, `StreamWriter`, `DataProcessor` | success flag | Process of each type, ProcessAndCommit | both streams |
| `Json` | a value, or children by name or index; the shared NullObject | Parse, Serialize, operator[], AddValue, PushValue, assignment | - |
| `Base64`, `Hexadecimal` | none | Encode, Decode | - |
| `ObjectPool`, `ArenaAllocator` | stack of slots; chain of blocks | Get, Return; New, Delete; destructors | constructors that may throw |
| `LockedResource` | pointer to a mutex and what it protects | constructor, moves, destructor | threads |
| `Logger` | filter, halting mask, types to files, open files | Log, SetFilter, SetHalting, Map, UnMap, Shutdown | files; all threads |
| `Trace` | tree of traces, one root per thread, pointers into it | BeginScope, end of a scope, GetRoots | all threads |

Nothing in the library starts a thread. A program polls `Update` of its sockets
(examples/webpage/main.cpp, tools_test/Network.cpp) and everything else happens in callbacks of
events, nested in each other. What is hard about it:

- two processes and the kernel between them: partial sends and receives,
  interrupted calls, ends of connections that race with the last bytes, and errors
  that one platform lists and the other does not;
- data in pieces: every parser starts at a checkpoint, reads as far as it gets,
  and takes everything back when something is missing;
- boundaries of segments: every loop of Stream.cpp has a case for a head that
  stands exactly at one;
- reentrancy: a callback registers, unregisters, fires or destructs the event
  that calls it, or closes the socket that runs;
- "news" that arrive as an event once: what an Update leaves in the stream has to
  wait for the next delivery, so nothing complete may be left there;
- a connection that changes hands between two protocols while bytes are in it;
- references that clients keep: into vectors that grow (Trace), into trees that
  change (Json), to slots that are given back (ObjectPool), to a mutex that moves
  from guard to guard (LockedResource);
- objects that are used again after something failed halfway (Json, StreamReader),
  and shared tables without a lock (Logger).

`PROJECT.json` has 40 hazards, each at its line, with the properties that cover it, or why none does:
either the code does go wrong there, which no property that passes can say (see below), or the case is
excluded or not modelled.

## Modules

| Module | Models | Composed with | Checked by |
|---|---|---|---|
| `ByteStream` | what a ReadStream promises: one sequence of bytes, a position, a checkpoint | - | refined by ReadStream |
| `ReadStream` | Stream.cpp, ReadStream, one action per loop iteration | ByteStream | streams |
| `WriteBuffer` | what a WriteStream promises: bytes are handed over once, in order | - | refined by WriteStream |
| `WriteStream` | Stream.cpp, WriteStream, one action per loop iteration | WriteBuffer | streams |
| `Streams` | the two streams, next to each other, with fairness | ReadStream, WriteStream | streams |
| `ByteLink` | what a connection promises: received is a beginning of written | - | refined by TCPSocket |
| `TCPSocket` | both ends, with the kernel and the network | ByteLink; uses streams as WriteBuffer and ByteStream promise | tcp_socket, tcp_socket_faults, tcp_socket_fin, tcp_socket_pipe |
| `TCPListenSocket` | accept loop, backlog, descriptors, owners, either platform | - | tcp_listen_socket |
| `Event`, `ShortCircutableEvent`, `SingleFireEvent` | Event.h and Event.cpp | Bookkeeping | bookkeeping |
| `Websocket` | Websocket.cpp with its peer | streams as sequences | websocket |
| `HttpServer` | Frame.cpp, Server.cpp with a peer and endpoints | streams as sequences, iterator as it is | http_server, http_server_split |
| `ChatRoom` | what the chat promises: everybody sees one conversation from its beginning | - | refined by WebPage |
| `WebPage` | main.cpp of examples/webpage with its clients, server, endpoints, websockets and browsers | ChatRoom; sockets as ByteLink promises | webpage |
| `StreamIO` | StreamWriter, StreamReader, DataProcessor | streams as sequences | formats |
| `Base64`, `Hexadecimal` | the loops and tables | Encodings | formats |
| `Encodings` | the two encodings, next to each other | - | formats |
| `JsonText` | Json::Parse and Json::Serialize, against a grammar | - | formats |
| `JsonTree` | the tree, its references and the NullObject | Bookkeeping | bookkeeping |
| `ObjectPool`, `ArenaAllocator`, `LockedResource` | the headers of these names | Bookkeeping | bookkeeping |
| `Logger`, `Trace` | Logger.cpp, Trace.cpp | Bookkeeping | bookkeeping |
| `Bookkeeping` | the nine modules of the last four kinds, next to each other | - | bookkeeping |
| `StreamsProofs`, `TCPSocketProofs`, `TCPListenSocketProofs`, `WebsocketProofs`, `HttpServerProofs`, `WebPageProofs`, `EncodingsProofs`, `BookkeepingProofs` | the theorems about the module of that name | - | tlapm |

The `MC...` modules give constants their values. Components that share no
state and are small are checked in one run: a variable `subject` chooses the
component at the start of a behaviour, the variables of the others stand still.
A property of such a run is the conjunction of those of its subjects. The
compositions, `Streams`, `Encodings` and `Bookkeeping`, are modules of their own
that the MC modules extend, so that what the runs check is what the theorems state.

How state and actions correspond to the code:

**Streams.** A segment is a record with the fields `mySize` and `myNext` at an
index of `segments`; pointers are indices and `NULL` is nullptr. A byte is
represented by its position in the order of arrival, so "once and in order" is a
statement about positions. Each public call sets `pc`, each iteration of its loop
is a step, and the next call waits until `pc` is `idle`; the streams take no locks
and have one user. Requests that span segments, heads at the very end of
a segment, lists of several segments appended at once, an istream that fails
at any chunk and drains after fetches are all included. Anybody may call Get or WriteAllToStream at
any time, as Stream.cpp lets them: only `HandleSend` asks `HasData` first. If all that is left in the
stream is the empty segment behind a full one, Get writes through nullptr (line 215); the program is then `crashed`,
and takes no further step.

**TCPSocket.** The module indexes every variable by the end. `Update` is
`HandleSend` and then `HandleRecv`, one step per system call, so the kernel and
the other process act in between. `sk` is the error the kernel holds for an end,
`wire` and `inbox` the bytes it carries. `Platform` says for each end which of the two
files it is built from. They have the same loops and differ in the errors that their
switches list: on Linux an error that `send` or `recv` does not list leaves
-1 as the amount, which is added to the offset modulo 2^16 (for size_t) or becomes the
size of a segment of garbage (`RecvUnlisted`); on Windows resets and
time-outs are listed (`RecvBroken`, `SendTimedOut`), and so is a lack of buffers.
A send to a peer that is known to have gone raises SIGPIPE on Linux, which nothing in the
repository handles: `SendKilled`, after which the end is `killed`.
`OnDataAvailable` is a step in which the callback writes an answer or closes.
How a socket comes about (constructors, name resolution, timeouts of connect) is
not modelled: both ends start connected.

**TCPListenSocket.** `platform` is chosen at the start of a behaviour. Accept meets
connections that were aborted, interrupted calls, a full table of descriptors and,
on Windows, a lack of buffers; the owners of connections close them in the end.

**Events.** A stack of running Fires; every operation is possible outside any Fire
and inside a running callback. `Event` fires copies, `ShortCircutableEvent` walks
its vector itself (an iterator into a changed vector is `dangling`), and
`SingleFireEvent` forgets its callback after the call. Undefined behaviour and
failing asserts are the variable `failed`.

**Websocket and HttpServer.** The stream is a sequence of fields or tokens, not of
characters; a parse that does not complete changes nothing, because the code
restores the checkpoint on every such path. Websocket lengths have the three
encodings with boundaries `ShortMax` and `WordMax`. Uninitialized flags
(`myHasFailed`, `myHasClosed`) start with any value. A byte of a payload is the number of its frame and whether it
is `masked`: the code reads the four bytes of a mask and never applies them (Websocket.cpp:96-106), so what a masked
frame brings is handed over, kept and sent back as it came over the wire. In HttpServer `stream` is what
`Read` delivers and `seen` what the iterator of `AvailableData` shows, which
differs at the boundaries of segments (see below). `PeerAssumption` says what requests look like: line
breaks are between their lines only, and a content length, if it is one, is that of the body. An exception nobody
catches (`resize` with a huge or negative length) is `crashed`.

**WebPage.** One thread runs the program, so what another party does shows when the thread
asks for it: `Accept` finds connections, `Update` sends what the kernel takes and
receives what has come, `UpdateFails` finds the end of a connection. A request is one element
of the stream of its connection, a response or a frame one element of the other. `Reads`, with
a disjunct for each endpoint, is an iteration of `Server::UpdateOn` or of
`Websocket::Update`, and every client that is registered for news is written to in the
same step, as Fire does it. The kinds "bad post" and "bad upgrade" are answered exactly like pages and
are left out of the run for its size.

**StreamIO.** Objects of nested types are written, arrive in pieces of any length and
are read by `ProcessAndCommit`, which may run at any time and be repeated. The
object that is read into keeps what a failed attempt left in it.

**JsonText and JsonTree.** A text is a sequence of tokens, one per character but for the three
words, which there are in small letters and, as TRUE, FALSE and NULL, in any other case; `Parse` and `Serialize` are
functions that stand beside the grammar of JSON (RFC 8259), written independently of
them, with its escapes (`\/` and `\uXXXX` among them) and its numbers (sign, fraction, exponent), whether the code has them or not.
Where the two differ is named in the definitions `Usual`, `EscapesOf` and `Lenient`, and listed below.
`Uninitialised` is what a number of no digits is read as. A Json may be parsed into again,
with what an earlier text left in it, and memory behind the text is visible to
code that looks there. In JsonTree a Json is a node with an address; clients keep references and the way by
which they found them, and go on through them while the tree changes. The
NullObject is one node that all of them may reach. `AddValue` and `PushValue` on a Json of another type free what they
made and return a reference to it all the same: `ValueRefused`, after which one is `dangling`.

**ObjectPool, ArenaAllocator, LockedResource.** One action per operation. A constructor may throw,
which gives the memory up. A guard is a pointer to the mutex or none, `owner` its thread; `Move` constructs a guard from
an existing one, which stays behind without a mutex.

**Trace and Logger.** A trace is its path in the tree; a pointer remembers the
capacity that the vector it points into had, and dangles when that has
changed. Map and UnMap of the logger go over the bits of a type mask, one step
per bit, with all their early returns and the messages they log on the way,
which may themselves create a stream. Shutdown does something on Windows only, where it closes all files and leaves the
types mapped; what is called afterwards is modelled as well.

## Runs

| Run | Question | Bounds |
|---|---|---|
| streams | Are the lists of segments sequences of bytes, does no loop leave its list, which calls return? | segments of 2 bytes; 4 bytes appended and requests up to 3; 7 bytes written |
| tcp_socket | Does what is written arrive once, in order and announced, and is a socket useless only when drained? | segments and kernel of 2 bytes; 3 and 2 bytes written; EINTR; either end closes; one end built for Linux, one for Windows |
| tcp_socket_faults | What remains true when the connection breaks in listed and unlisted ways? | 3 and 1 bytes; ENOMEM, ECONNRESET, ETIMEDOUT; the server closes |
| tcp_socket_fin | violation: data that come with the end are not announced | 3 and 1 bytes, no errors |
| tcp_socket_pipe | violation: an end does not survive that its peer has gone | 3 and 1 bytes; ECONNRESET |
| tcp_listen_socket | Is each connection announced once and in order, and none for ever left? | 4 connections, backlog 2, 2 descriptors, all kinds of errors, both platforms |
| websocket | Are messages delivered, answered and kept once, in order and with the bytes that came with them, and can what is written be read? | 2 frames, masked or not, lengths 0..3 for the three encodings, 1 text sent |
| http_server | Are requests parsed as sent and answered once? | 2 requests out of 10; segments begin between lines |
| http_server_split | violation: AvailableData is not what was received | segments of at most 4 tokens that begin anywhere |
| formats | Are objects and encodings read as they were written, and Json texts as JSON has them, up to named departures? | 3 objects in chunks of 2 bytes; data of up to 4 bytes, texts of up to 5 characters; every Json text of up to 3 tokens; numbers of up to 3 characters with point, sign and exponent and some longer ones; strings of two escapes; every word in both cases, alone and in containers; longer texts with one token wrong |
| bookkeeping | Do events, traces, files of the logger, Json trees, pools, arenas and guards keep track of what they hand out? | see below |
| webpage | Does the whole program hold one conversation and keep the protocols apart? | 2 browsers with 2 requests each of four kinds |

The bounds of `bookkeeping`, by component: 3 registrations of an Event and 3 nested Fires (2 for
ShortCircutableEvent, 5 callbacks for SingleFireEvent); 2 threads, 2 tags and depth 2 for Trace;
3 types and 2 files for Logger; a JsonTree of 4 nodes with references found over ways of up to
2 steps; a pool of 2 slots with 2 objects in excess of it and one constructor that throws; an arena of two
blocks of two objects; 3 guards on 2 threads.

Why these bounds are enough to meet the interesting cases. Segments of two bytes
have an empty, a partial and a full state, and the requests reach over
a whole segment in between. The kernel of two bytes is smaller than what is
written and cuts segments in their middle. Two registrations suffice for one
callback to drop another; the third one stands before or after them. Two frames or two
requests show every pair, so what a first one leaves behind meets every kind
of second one; three-fragment messages are out of the bound, and the order of
`myFragments` is shown for two. Two threads are the least with which the vector
of roots moves. Two browsers are the least with which one's message comes between another's
upgrade and its history, and two requests the least of which one is behind an upgrade. A tree of
four nodes has a container inside a container and a sibling that moves. Bytes are
positions, not values, except where the values matter (`formats`).

The `IInv` of ReadStream and WriteStream are not only invariants of the reachable
states but inductive: TLC checks them as invariants (that of WriteStream under the name
`WriteIInv`, which Streams gives it), and they are proved. That of Event is a part of
`RegistrationsAreKnown`, and is proved as well. The invariants of the other proofs speak of sequences
that are not states of the program, or quantify over everything; TLC was given them in an equivalent, bounded
form with the constants of the runs before they were proved: those of Websocket, HttpServer, `AllIsTold` of WebPage
and `JsonInv` of JsonTree.

### Fairness

- `Streams` (`FairStreamsSpec`): the thread inside a call continues it. Nothing forces calls to begin.
- `TCPSocket`: each owner polls `Update` as long as it is useful (as
  tools_test/Network.cpp:71 and the example do), a running `Update` goes on, and
  the network delivers. Strong fairness of `SendSome` and `RecvSome` says that signals do not
  interrupt every single system call: `send` and `recv` are enabled again and again
  between EINTRs. Nobody has to write or close.
- `TCPListenSocket`: the server polls, a kernel that is short of buffers is so not for ever
  (strong fairness of `AcceptNext`), and owners discard connections in the
  end (strong fairness of `Discard`, possible only between Updates). That is an
  assumption about the program around the library, which has to destruct the sockets that are of
  no use any more. examples/webpage erases its clients from a vector of raw pointers
  (main.cpp:546) and keeps the descriptors; there connections wait when descriptors run out.
- `Websocket`, `HttpServer`: the stream's event leads to an Update, an Update goes on,
  callbacks return, and TCP delivers what was sent.
- `StreamIO` (in `MCFormats`): the connection delivers, and the reader tries again.
- `WebPage`: the only thread goes on with its loop, and the kernel takes some of what a
  connection sends again and again (strong fairness, for each connection). Browsers need not
  connect, ask or stay.

`CHECK_DEADLOCK FALSE` is set in the runs in which the system may really stop: the
peer has nothing more to send, or everything was closed.

## Proofs

All proofs are for every value of the constants that the named assumption of the module
allows; the bounds may be as large as one likes, so nothing depends on them being small.

**StreamsProofs**, under `StreamsAssumption`: a segment has room, the bounds are natural numbers. A step of
`StreamsSpec` is one of the stream that the behaviour is about and leaves the other alone (`RunsAlone`), so each stream
is proved about by itself and its lemmas are then carried over.

Of the ReadStream:

- `Invariance`: `StreamsSpec => []IInv`. The invariant is needed because none of the
  properties is inductive alone: that CommitRead's walk from the checkpoint ends at
  the read head needs the checkpoint not to be behind it in the list, which needs
  the list to be in order of arrival without gaps (`Chain`), the three pointers to
  be set together (`Pointers`), offsets to be inside their segments (`Offsets`), and while a
  Read runs, the loop invariant of PrivPeek (`PeekProgress`): what has been copied is
  what lies between the read head and the cursor.
- `TypeCorrect`, `NoLoopLeavesTheList` (no nullptr followed, no size_t wraps),
  `CheckpointBehind` (RestoreRead never moves forward), `FillReportCorrect` (what
  AppendAllFromStream returns), each from the invariant.
- `Implementation`: `StreamsSpec => ImplementsByteStream`, the refinement of ByteStream with
  the positions of the heads as mapping, and a running CommitRead counted as done.

The hard lemmas are about lists that are appended (`AttachChain`, `AttachInvariant`), about
one iteration of PrivPeek (`PeekIterationInvariant`, `PeekResult`), and about where the
cursor stands at a boundary (`CursorPlace`).

Of the WriteStream:

- `WriteInvariance`: `StreamsSpec => []WriteIInv`. The list is in order and full but for its write head (`List`),
  the detached list lies in front of it and ends where it begins (`Queue`), and the search for
  the end of the list is between the two (`Running`). That the order of positions in `List` is stated
  for pairs of segments and not only for neighbours is redundant, but takes the place of an
  induction along the list.
- `GetCrashesOnlyOnEmptySegment`: whoever calls it and whenever, Get writes through nullptr only where all that is left in the
  stream is an empty segment. It does so there, see below. Nothing is assumed of the callers.
- `HasDataIsExact`: `HasData` holds exactly if bytes wait, also behind an empty write head. The
  definition looks at the first segment only; the theorem needs that every segment in front of the
  write head is full.
- `WriteImplementation`: `StreamsSpec => ImplementsWriteBuffer`. The mapping takes what was handed over to be all
  that lies in front of the list (`Given`); GetAll and Detach are the buffer's Get.

The hard lemmas are `WriteIterationResult` with `WriteIterationInvariant` (a write that starts, fills and
continues segments), `DetachInvariant` (the list is cut at the right place) and `TakeSegmentQueue`
(whoever drains the detached list ends where the stream begins).

**TCPSocketProofs**, under `TCPSocketAssumption`: a segment is from one byte to the size at which the
offset into it would wrap, the kernel holds at least a byte, and there are any faults.

- `BeginningArrives`: `Spec => []PrefixThenGarbage`. What was received says nothing about what
  is still to come, so the invariant describes each direction as a whole (`Direction`): the bytes
  in the read stream (`Received`), in the kernel's inbox (`Waiting`), on the wire (`Coming`) and in
  the queue and stream of the writer (`Following`) are consecutive. A part may be cut short only when
  nothing more can come through it: a bogus segment stands last and only at an end whose
  connection is dead. That the offset never wraps is part of it (`NoOverflow`).
- `TypeCorrect`: `Spec => []TypeOK`. That the kernel never holds more than its capacity, and nobody has been told of
  more than there is, is part of the type (`Fits`).
- `AnnouncesAll`: `Spec => []AnnouncedWhileUseful`, whatever fails. Outside of HandleRecv nothing is untold, and
  inside it `readData` says whether something is (`Announced`).
- `EndsDrained`: `Spec => []UselessOnlyWhenDrained`, if system calls are only interrupted (`OnlyInterrupts`), as in the
  run: an end that has found the end of the connection has read everything before it (`Peaceful`).
- `IsByteLink`: `Spec => ImplementsByteLink`, if the kernel reports no error that ends
  the connection (`OnlyTemporary`). The additional part of the invariant (`LinkInv`) is what
  an end knows of which it has not been told (`News`).

The hard lemmas are `ChunksAreRuns` (Refill cuts what it takes into consecutive segments),
`AdvanceUnsent` (a partial send leaves exactly what follows), `Moved` and `Passed` (from wire to inbox to
stream), and `SendSomeKeeps`.

**TCPListenSocketProofs**, under `TCPListenSocketAssumption`.

- `ConnectionsOnce`: `Spec => []EachConnectionOnce`. That connections are announced in order
  is inductive only with what waits: the queue is in order of arrival (`WaitInOrder`), behind all that were
  announced (`WaitBehind`), and no connection is in two places (`InOnePlace`). Announced
  errors, which are no connections, stand in between and do not disturb it.

**WebsocketProofs**, under `WebsocketAssumption`: the three ranges of lengths are where the code has them in
relation to each other, and there may be any number of frames with payloads of any length, masked or not, that are cut anywhere. A payload is what came
over the wire: the theorems say whose bytes are handed over and in which order, not that a mask was taken off them.

- `Invariance`: `Spec => []IInv`. The bytes that are in the read stream and those still on the wire are together
  the codes of the frames that have not been consumed (`Reading`), so that what an Update finds at the
  head of the stream is either a whole frame, and then the next one, or a beginning of it. What was delivered, what
  was answered and what is kept are each the frames before that, picked out by their kind (`Delivering`,
  `Replying`, `Collecting`), and the write stream is the codes of what was sent (`Writing`).
- `OncePerMessage`, `ReadableByAPeer`, `NoFragmentOfAnother` and `FailureIsFinal` prove the four safety
  properties of the run: `HandledInOrder`, `WrittenIsReadable`, `FragmentsAreTheOpenMessage` and the action property
  `FailedIsFinal`.

The hard lemmas are that reading inverts writing whatever follows in the stream (`EncodeIs`, `FrameIsRead`), for each of the
three encodings of a length, and that a frame that is found before everything has arrived is the same one (`OnlyWholeFrames`). `Shows` says that a
sequence is in order of a set of numbers, which makes "delivered are exactly the whole messages" a statement
without recursion.

**HttpServerProofs**, under `HttpServerAssumption` and `PeerAssumption`, for segments of any size and any list of
endpoints. The theorems have a hypothesis, `OnlyBetweenLines`: no segment begins with a part of a line break. It is needed:
without it a request may never be found, which is what the run `http_server_split` shows. The
run `http_server` satisfies it.

- `Invariance`: `Spec => []IInv`. As for the websocket, the stream and the wire are the texts of the requests that have
  not been handled (`Pending`). The parser searches what the iterator shows for line breaks and then reads the lines from
  the stream: it is right as long as the iterator shows each line break where it is (`Shown`), whatever else it shows
  at a boundary.
- `RequestsAsSent`, `OwnBytesOnly` and `AnsweredOnce` prove `ParsedAsSent`, `NothingLostOrTaken` and
  `OneResponseEach`.

The hard lemmas find the lines in a text: where its line breaks are (`BreaksAre`, by dividing it into threes of a line, CR
and LF), that they cut it into protocol, headers and an empty line (`LinesAre`), and that the length among the headers
is the length of the body (`LengthIs`, `FrameIs`).

**WebPageProofs**, under `WebPageAssumption`: finitely many connections, any number of requests.

- `OneProtocol`: `Spec => []SpeaksOneProtocol`. A connection is written to from two sides, by its own
  endpoint and by every other browser that posts. The invariant needs that those who are registered for
  news are upgraded (`ListenersAreUpgraded`) and that nobody who is not has been sent anything but
  responses (`OthersHaveResponses`). What is in the stream and what has arrived are
  considered together (`Written`), so receiving changes nothing.

- `OneConversation`: `Spec => ImplementsChatRoom`, the refinement: every step of the program is a message said, a
  browser that comes to see more of the conversation, or nothing that the room knows of. Its invariant is
  `AllIsTold`: the messages that were written to a browser that is registered for news, those it has received and
  those that are on their way, are the whole conversation, and to the others none was written. What a
  browser has received is then a beginning of the conversation, and receiving makes it longer only
  (`MoreShown`, `TakenIsSeen`). That an upgrade writes the whole history before anybody can post (`UpgradeIsTold`) and a
  post reaches each listener once (`PostIsTold`) are the steps that matter.

**EncodingsProofs**, under `EncodingsAssumption`: data are bytes and texts are characters, of any number.

- `EncodingsPreserved`: `EncodingsSpec => []EncodingsPreserveData`. Of Base64, the invariant counts in blocks: what is encoded
  stands for the data three bytes by four digits (`StandFor`), and so does what is decoded, of which only the last block may
  be shorter (`Decoded`). That the encoder's texts are never refused needs what follows a partial block: its
  digits, then padding, and nothing behind it (`EncodedAs`). Hexadecimal is the same with one byte by two digits.

That the digits of a block are those of its bytes and back (`EncodedBlock`, `DecodedBlock`) is arithmetic over a byte. From there
to the bits of a text of any length, which is how the property is stated, it takes a place in it apart (`BitPlace`:
block, byte or digit, bit), and compares bits within one block (`FirstBits`, `SecondBits`, `ThirdBits`, `BitsOfBytes`).

**BookkeepingProofs**, under `BookkeepingAssumption`, the assumptions of the nine parts. A step of Bookkeeping is a step of
each part or leaves it alone (`PartsSteps`), so each part has an invariant and a proof of its own.

- `Invariance` and `ShortInvariance`, and from them `NeverStale` (`RegistrationsAreKnown`). `~failed` alone is not
  inductive: that a registration which is dropped finds the event alive with its callback in the map needs that the armed
  registrations are exactly those in the map. The stack of Fires of Event appears with its type only, because a Fire
  works on copies; that of ShortCircutableEvent has to say that what each Fire has called is a beginning of the
  vector, and that its iterator dangles only while its own callback has still to answer.
- `NobodyIsPassedOver` (the action property `NothingOnlyIfAllPassed`) and `InOrderAndOnce` (`CalledInOrderAndOnce`). The
  latter has the hypothesis `OnlyRegisters`, that callbacks of a SingleFireEvent do not fire it again, as in the run:
  otherwise it is false (see below).
- `PointersIntoTheTree` (`OnlyRootsDangle`): only a vector that gets another element moves. The pointers to a
  thread's scopes go down one way in its own part of the tree, to whose vectors nobody else adds, and that they nest
  (`Nested`) says that it adds below all of them; the vector of roots is the one that others add to.
- `FilesFollowTypes` (`FilesMatchMappings`), which is inductive itself: until Shutdown is called on Windows a file is open exactly as long
  as a type is mapped to it, and afterwards no longer than that. `LoggedStreams` shows that the functions' own
  messages, logged in the middle of Map and UnMap, disturb neither, and `UnmappedStreams` that a file is given up with its
  last type and no earlier.
- `NullStaysNull` (`NullObjectIsNull`) and `ReferencesAreGood` (`ReferencesStay`), under the hypothesis `ParsesIntoTrees`
  that nobody parses into the NullObject (see below). The invariant is `IsTree`: every child exists and has one
  owner, and every node but the NullObject is found from the root, which is said without recursion: a set of nodes that
  has the root and the children of all its members has them all. With unique owners that excludes cycles, so what
  is freed with a node (`Owned`) never contains what is above it (`OwnedIsBelow`). All modifications are one operation, `Replaced`: some
  nodes that only one node had children in are exchanged for new ones (`OverwriteReplaces`, `PlaceReplaces`), and a way
  from the root that does not go through them stays (`WayKept`). `ReferencesAreGood` is about references that were good when they were returned: the one that a refused
  `AddValue` returns is not.
- `MemoryIsApart` (`PlacesAreApart`): every slot of the pool is on the stack, with somebody, or lost to an exception, and
  every object of the arena has its own place; `OneGuard` (`OneGuardHolds`): the mutex is locked exactly as long as some
  guard points to it. Both are inductive with their types.

Some lemmas about sequences that are cut and joined stand in more than one module of proofs, because these modules extend
modules with different variables.

Only model-checked: liveness, that is every `~>` and everything under fairness, which the provers here do not treat. And of the run `formats`, `ReadAsWritten`, `ParsesJson` and `ReadsWhatItWrote`: the operators of StreamIO and JsonText go down
into their data recursively, which takes an induction over the data that the provers cannot be given.

## What disagrees with the documentation

Three runs show a disagreement, and PROJECT.json lists it under `findings`: bytes that
arrive together with the end of the connection are never announced
(LinuxTCPSocket.cpp:164); a peer that goes away while more than one segment is being sent to it ends the
program with SIGPIPE (LinuxTCPSocket.cpp:103), although the switch lists EPIPE; and the
iterator of `AvailableData` is one place late at every boundary of segments (Stream.cpp:265), so that
a line break that is split by a boundary is not found and the request waits.

More was met while modelling. The modules state these as definitions that TLC refutes,
but no run is kept for them:

- `UnregisteredIsNotCalled` (Event): a callback that has been unregistered during a Fire is
  still called from the copy (Event.h:190), against "destruct this to unregister"
  (DOCUMENTATION.md:13).
- `RegisteredIsKept`, and `CalledOnce` when callbacks may fire (SingleFireEvent): the callback is
  forgotten after the call (Event.h:132), so what it registers is lost and a nested Fire
  calls it again, against DOCUMENTATION.md:26.
- `OnlyReceivedBytes` (TCPSocket): an error of recv that the switch does not list becomes a
  segment of size -1 (LinuxTCPSocket.cpp:192).
- `OnlyConnectionsAreAnnounced` (TCPListenSocket): an error of accept that the switch does not list
  is announced as a connection (LinuxTCPListenSocket.cpp:158).
- `LoneFinFails` (Websocket): front() of an empty vector is read before the check for it
  (Websocket.cpp:134); `WholeMessageIsNotRefused`: the total that fragments are compared with
  is never counted (Websocket.cpp:166), so that every fragmented message with a
  byte before its last fragment is refused.
- `GetReturns` (Streams): Get on a stream whose only segment is the empty one behind a full one that was fetched writes
  through nullptr (Stream.cpp:215), where DOCUMENTATION.md:197 has it return all the data there is, be it none.
  `HandleSend` asks `HasData` first; `WriteAllToStream` (Stream.cpp:182-184) does not, and crashes with it. `AllCallsReturn`
  excepts that call by name.
- `MasksAreApplied` (Websocket): the mask is read and never applied (Websocket.cpp:96-106). Browsers mask every frame, so
  what OnData gets from them, and what a Pong or Close takes back to them, is not what they meant; examples/webpage registers
  nobody for OnData of its websockets, so only the answers show it there.
- `ReturnedReferencesAreGood` (JsonTree): `AddValue` and `PushValue` on a Json of another type return a reference to an
  object that has been freed (Json.h:154, 167), against "or the NullObject if failed" (DOCUMENTATION.md:256, 266).
- `ParsesJsonExactly` (JsonText), that Parse reads JSON and nothing else ("Parses a json string", DOCUMENTATION.md:250). It refuses
  the escapes `\/` and `\uXXXX` (Json.cpp:69-97) and exponents with a sign; `1E1` is read as 1 and `-1` as a double that was never
  set, as the loop over a number's characters knows neither `E` nor signs (Json.cpp:639-657). It takes the escape `\'`, words in any case
  (Json.cpp:574-629), `01`, `.1` and `1.`, and characters that cannot be printed, in strings as they are and between tokens as
  white space (Json.cpp:17-20). `ParsesJson`, which the run checks, excepts each of these by name, and the ones below.
- `NullObjectIsNull` (JsonTree) with `ParsesAnywhere = TRUE`: `Parse` on what a lookup of a missing key
  returned changes the one NullObject that every other such lookup returns, against DOCUMENTATION.md:332.

Modelled as it is, and excepted by name from the properties it would break:

- Json texts (`JsonText`): a container that ends with an empty container is taken to end there, so `[[],1]` is read as
  `[[]]`; `[1,` is accepted; a run of no digits (`-`, `]`, `{"a":}`) is accepted as an
  uninitialised number; an escaped quote ends the string, keys are not unescaped, and
  `Serialize` escapes nothing; a number that is written with an exponent and a sign cannot be read.
- After `Shutdown` on Windows (Logger.cpp:336-350) the types are still mapped to files that are closed, and the next message of such
  a type makes a stream that was never opened and goes nowhere. `FilesMatchMappings` says both are so only then.
- A pool whose object's constructor threw has lost a slot, and its destructor asserts.
- In examples/webpage a post that could not be parsed is answered `ok`, and closed clients are never deleted.
- On Windows an Update of a listening socket that meets a full table of descriptors returns false, as
  if it were so for ever.

Seen while reading and not modelled: the constructor of TCPSocket that takes a name ends in
`assert(false)` where DOCUMENTATION.md promises a socket; the reads of a string are
arguments of `assert` (StreamReader.cpp:108) and vanish with NDEBUG; a string with a NUL in it is
written longer than it is read (StreamWriter.cpp:83); GetRoots of Trace takes a lock that tracing
threads do not; the setters of Logger take none (Logger.cpp:209); the last user of the network never shuts
it down (Net.h, `myUseCount-- == 0`); FilterMode::Start can never match (http/Server.cpp:71, modelled as it
is); on Windows Shutdown releases the task bar
and keeps the pointer, which the next message with an icon uses (Logger.cpp:140, 346).

## Not modelled

- Names and addresses of sockets, and Net: how a socket comes about is a sequence of system calls that keeps
  no state, and addresses are formatting.
- MathVector, Matrix, Shapes: floating point arithmetic without state. EggClock,
  SystemValues, File: clock, tables, calls of the file system. Macros, Concepts, Utility,
  Singleton, PlatformDetection: compile-time code. ArenaAllocator.cpp belongs to an earlier interface and
  is not built. sha1 is another project, whose sources are not here.
- Parts of modelled components: the writers of http responses and the hash of the websocket
  handshake are formatting; the conversions of Json's `GetIf` change nothing; colours, ImGui and counters of
  Logger are never read; times and `GetRoots` of Trace. The pages of examples/webpage are text, and the sniffer
  prints what it receives. The owner of a stream on another thread is outside the code's contract.

## Plan

Done, the most important behaviour first: streams with their abstract specifications and proofs;
both ends of a connection, on either platform, with the proof that they implement ByteLink; the listening
socket; events; websocket; http server; the web page as the composition of all of these, with the
chat it implements; reader and writer of objects; encodings; Json; containers and guards; logger and tracer. Every safety property
of the runs is proved but those of StreamIO and JsonText, and so are the four refinements.

What a continuation would take up:

1. Models: the copy that `GetRoots` makes while other threads trace, and the setters of Logger on a second thread,
   both of which need the actions of these modules to be cut into single accesses.
2. Messages of three fragments in the run `websocket`.
