------------------------------- MODULE TCPSocket -------------------------------
(***************************************************************************)
(* tools/net/LinuxTCPSocket.cpp and tools/net/WinTCPSocket.cpp: the two    *)
(* ends of a connection, each with a TCPSocket whose owner calls Update    *)
(* again and again, and the kernel between them.  The two files differ in  *)
(* the errors that they list.                                              *)
(*                                                                         *)
(* Update is HandleSend and then HandleRecv, one step per system call, so  *)
(* that the kernel and the other process act in between.  The streams are  *)
(* used as WriteBuffer and ByteStream promise: a WriteStream is the bytes  *)
(* in it, and Get chops them into segments.  A ReadStream is the sequence  *)
(* of all bytes appended to it.                                            *)
(*                                                                         *)
(* The n-th byte written at an end is represented by the number n.         *)
(***************************************************************************)
EXTENDS Integers, Sequences

CONSTANTS CHUNK_SIZE,  \* StreamSegment::CHUNK_SIZE
          Capacity,    \* external: bytes the kernel holds in one direction
          MaxWritten,  \* bound: bytes written at each end, a function of the end
          Closers,     \* ends whose owner may call Close at any time
          Faults,      \* external: the errors the kernel may report
          Platform     \* what each end is built for

Platforms == {"linux", "windows"}
ErrorNames == {"EINTR", "ENOMEM", "ECONNRESET", "ETIMEDOUT"}
Ends == {"client", "server"}
Peer(e) == IF e = "client" THEN "server" ELSE "client"

\* The greatest size_t, here of 16 bits.
SizeMax == 65535

ASSUME TCPSocketAssumption ==
  /\ CHUNK_SIZE \in 1..SizeMax
  /\ Capacity \in Nat \ {0}
  /\ MaxWritten \in [Ends -> Nat]
  /\ Closers \subseteq Ends
  /\ Faults \subseteq ErrorNames
  /\ Platform \in [Ends -> Platforms]

\* What `myOffset += amount` with amount = -1 makes of a size_t.
AddInt(offset, amount) == (offset + amount) % (SizeMax + 1)

\* What a segment holds whose mySize was set from recv's -1.
Garbage == 0

VARIABLES mySocket,       \* whether mySocket is not nullptr
          myWriteStream,  \* the bytes in it
          myWriteQueue,   \* the detached segments and the offset in the first
          myReadStream,   \* every byte appended to it
          readData,       \* HandleRecv's local
          pc,             \* where in Update each end is
          useful,         \* what the last Update returned
          told,           \* bytes in the read stream at the last OnDataAvailable
          written,        \* bytes written to the write stream
          wire,           \* external: bytes sent and not yet arrived
          inbox,          \* external: bytes arrived and not yet received
          finSent,        \* external: the end has closed its connection
          finArrived,     \* external: and its peer's kernel knows
          sk              \* external: the kernel's error for this end

streams == <<myWriteStream, myWriteQueue, myReadStream>>
kernel == <<wire, inbox, finSent, finArrived, sk>>
vars == <<mySocket, streams, readData, pc, useful, told, written, kernel>>

Lesser(a, b) == IF a <= b THEN a ELSE b
NoQueue == [segments |-> <<>>, offset |-> 0]

Init ==
  /\ mySocket = [e \in Ends |-> TRUE]
  /\ myWriteStream = [e \in Ends |-> <<>>]
  /\ myWriteQueue = [e \in Ends |-> NoQueue]
  /\ myReadStream = [e \in Ends |-> <<>>]
  /\ readData = [e \in Ends |-> FALSE]
  /\ pc = [e \in Ends |-> "idle"]
  /\ useful = [e \in Ends |-> TRUE]
  /\ told = [e \in Ends |-> 0]
  /\ written = [e \in Ends |-> 0]
  /\ wire = [e \in Ends |-> <<>>]
  /\ inbox = [e \in Ends |-> <<>>]
  /\ finSent = [e \in Ends |-> FALSE]
  /\ finArrived = [e \in Ends |-> FALSE]
  /\ sk = [e \in Ends |-> "ok"]

-----------------------------------------------------------------------------
(* The owner of a socket *)

\* n bytes more in the write stream.
WriteBytes(e, n) ==
  /\ written[e] + n <= MaxWritten[e]
  /\ written' = [written EXCEPT ![e] = @ + n]
  /\ myWriteStream' = [myWriteStream EXCEPT ![e] = @ \o [k \in 1..n |-> written[e] + k]]

\* GetWriteStream().WriteData(...)
Write(e, n) ==
  /\ pc[e] = "idle"
  /\ WriteBytes(e, n)
  /\ UNCHANGED <<mySocket, myWriteQueue, myReadStream, readData, pc, useful, told, kernel>>

\* The kernel's error has been reported, or is one that only send reports.
Gone == {"dead", "EPIPE"}

\* ~Socket closes the descriptor.  Bytes that arrived and were never read make
\* the kernel reset the connection.
CloseSocket(e) ==
  /\ mySocket' = [mySocket EXCEPT ![e] = FALSE]
  /\ inbox' = [inbox EXCEPT ![e] = <<>>]
  /\ IF inbox[e] # <<>> /\ "ECONNRESET" \in Faults
     THEN /\ sk' = [sk EXCEPT ![Peer(e)] = IF @ = "ok" THEN "ECONNRESET" ELSE @]
          /\ wire' = [wire EXCEPT ![e] = <<>>]
          /\ UNCHANGED <<finSent, finArrived>>
     ELSE /\ finSent' = [finSent EXCEPT ![e] = TRUE]
          /\ UNCHANGED <<sk, wire, finArrived>>

\* The owner is done with the connection, or discards a useless socket.
Close(e) ==
  /\ pc[e] = "idle" /\ mySocket[e]
  /\ e \in Closers \/ ~useful[e]
  /\ CloseSocket(e)
  /\ UNCHANGED <<streams, readData, pc, useful, told, written>>

\* A socket whose Update returned false is discarded, not updated again.
Update(e) ==
  /\ pc[e] = "idle" /\ useful[e]
  /\ IF mySocket[e]
     THEN pc' = [pc EXCEPT ![e] = "send"] /\ UNCHANGED useful
     ELSE useful' = [useful EXCEPT ![e] = FALSE] /\ UNCHANGED pc
  /\ UNCHANGED <<mySocket, streams, readData, told, written, kernel>>

\* Faulty variant, for mutation: what HandleSend or HandleRecv returned is lost.
ReturnUseful(e, result) == pc' = [pc EXCEPT ![e] = "idle"] /\ UNCHANGED useful

\* Update returns.
Return(e, result) ==
  /\ pc' = [pc EXCEPT ![e] = "idle"]
  /\ useful' = [useful EXCEPT ![e] = result]

-----------------------------------------------------------------------------
(* HandleSend: one step is one iteration of its loop *)

\* WriteStream::Get: full segments and what is left over.
Chunks(bytes) ==
  [i \in 1..((Len(bytes) + CHUNK_SIZE - 1) \div CHUNK_SIZE) |->
     SubSeq(bytes, (i - 1) * CHUNK_SIZE + 1, Lesser(i * CHUNK_SIZE, Len(bytes)))]

\* The queue the iteration works on: it is refilled when it is empty.
Queue(e) ==
  IF myWriteQueue[e].segments # <<>> THEN myWriteQueue[e]
  ELSE [segments |-> Chunks(myWriteStream[e]), offset |-> 0]

Fetch(e) ==
  myWriteStream' = IF myWriteQueue[e].segments # <<>> THEN myWriteStream
                   ELSE [myWriteStream EXCEPT ![e] = <<>>]

Sending(e) ==
  /\ pc[e] = "send"
  /\ myWriteQueue[e].segments # <<>> \/ myWriteStream[e] # <<>>

\* Faulty variant, for mutation: a partly sent segment counts as sent.
AdvanceDropsRest(queue, amount) ==
  [segments |-> Tail(queue.segments), offset |-> 0]

\* The queue after `amount` bytes of its first segment.
Advance(queue, amount) ==
  LET offset == AddInt(queue.offset, amount)
  IN IF offset = Len(Head(queue.segments))
     THEN [segments |-> Tail(queue.segments), offset |-> 0]
     ELSE [queue EXCEPT !.offset = offset]

\* The kernel takes some bytes; only a segment sent to its end lets the loop go on.
SendSome(e, amount) ==
  LET queue == Queue(e)
      front == Head(queue.segments)
  IN /\ Sending(e)
     /\ sk[e] = "ok"
     /\ queue.offset + amount <= Len(front)
     /\ Len(wire[e]) + Len(inbox[Peer(e)]) + amount <= Capacity
     /\ wire' = [wire EXCEPT ![e] = @ \o SubSeq(front, queue.offset + 1, queue.offset + amount)]
     /\ myWriteQueue' = [myWriteQueue EXCEPT ![e] = Advance(queue, amount)]
     /\ pc' = IF queue.offset + amount = Len(front) THEN pc ELSE [pc EXCEPT ![e] = "recv"]
     /\ Fetch(e)
     /\ UNCHANGED <<mySocket, myReadStream, readData, useful, told, written, inbox,
                    finSent, finArrived, sk>>

\* EAGAIN because the kernel is full, or EINTR: HandleSend returns true.  On
\* Windows it does for WSAENOBUFS, too.
SendAgain(e) ==
  /\ Sending(e)
  /\ sk[e] = "ok"
  /\ \/ Len(wire[e]) + Len(inbox[Peer(e)]) >= Capacity
     \/ "EINTR" \in Faults
     \/ "ENOMEM" \in Faults /\ Platform[e] = "windows"
  /\ myWriteQueue' = [myWriteQueue EXCEPT ![e] = Queue(e)]
  /\ Fetch(e)
  /\ pc' = [pc EXCEPT ![e] = "recv"]
  /\ UNCHANGED <<mySocket, myReadStream, readData, useful, told, written, kernel>>

\* ENOMEM (WSAENETDOWN), ECONNRESET, or on Windows any send on a connection that
\* is gone: HandleSend and Update return false.
SendFails(e) ==
  /\ Sending(e)
  /\ \/ sk[e] = "ECONNRESET"
     \/ sk[e] \in Gone /\ Platform[e] = "windows"
     \/ sk[e] = "ok" /\ "ENOMEM" \in Faults
  /\ myWriteQueue' = [myWriteQueue EXCEPT ![e] = Queue(e)]
  /\ Fetch(e)
  /\ sk' = [sk EXCEPT ![e] = IF @ = "ok" THEN "ok" ELSE "dead"]
  /\ Return(e, FALSE)
  /\ UNCHANGED <<mySocket, myReadStream, readData, told, written, wire, inbox, finSent,
                 finArrived>>

\* EPIPE, which the switch lists: but send was not asked to leave the signal out
\* and nothing ignores it, so SIGPIPE ends the process first.
SendKilled(e) ==
  /\ Sending(e)
  /\ sk[e] \in Gone /\ Platform[e] = "linux"
  /\ pc' = [pc EXCEPT ![e] = "killed"]
  /\ CloseSocket(e)
  /\ UNCHANGED <<streams, readData, useful, told, written>>

\* WSAETIMEDOUT is listed: HandleSend and Update return false.
SendTimedOut(e) ==
  /\ Sending(e)
  /\ sk[e] = "ETIMEDOUT" /\ Platform[e] = "windows"
  /\ myWriteQueue' = [myWriteQueue EXCEPT ![e] = Queue(e)]
  /\ Fetch(e)
  /\ sk' = [sk EXCEPT ![e] = "dead"]
  /\ Return(e, FALSE)
  /\ UNCHANGED <<mySocket, myReadStream, readData, told, written, wire, inbox, finSent,
                 finArrived>>

\* An error the switch does not list: -1 is added to the offset.
SendUnlisted(e) ==
  /\ Sending(e)
  /\ sk[e] = "ETIMEDOUT" /\ Platform[e] = "linux"
  /\ myWriteQueue' = [myWriteQueue EXCEPT ![e] = Advance(Queue(e), -1)]
  /\ Fetch(e)
  /\ sk' = [sk EXCEPT ![e] = "dead"]
  /\ pc' = [pc EXCEPT ![e] = "recv"]
  /\ UNCHANGED <<mySocket, myReadStream, readData, useful, told, written, wire, inbox,
                 finSent, finArrived>>

SendDone(e) ==
  /\ pc[e] = "send" /\ ~Sending(e)
  /\ pc' = [pc EXCEPT ![e] = "recv"]
  /\ UNCHANGED <<mySocket, streams, readData, useful, told, written, kernel>>

-----------------------------------------------------------------------------
(* HandleRecv: one step is one iteration of its loop *)

\* Faulty variant, for mutation: the bytes are appended, readData is not set.
AppendQuietly(e, bytes) ==
  /\ myReadStream' = [myReadStream EXCEPT ![e] = @ \o bytes]
  /\ UNCHANGED readData

\* A segment more in the read stream.
AppendReceived(e, bytes) ==
  /\ myReadStream' = [myReadStream EXCEPT ![e] = @ \o bytes]
  /\ readData' = [readData EXCEPT ![e] = TRUE]

RecvSome(e) ==
  LET amount == Lesser(CHUNK_SIZE, Len(inbox[e]))
  IN /\ pc[e] = "recv"
     /\ amount > 0
     /\ AppendReceived(e, SubSeq(inbox[e], 1, amount))
     /\ inbox' = [inbox EXCEPT ![e] = SubSeq(@, amount + 1, Len(@))]
     /\ UNCHANGED <<mySocket, myWriteStream, myWriteQueue, pc, useful, told, written, wire,
                    finSent, finArrived, sk>>

\* An error the switch does not list: a segment of size -1 is appended.
RecvUnlisted(e) ==
  /\ pc[e] = "recv" /\ inbox[e] = <<>>
  /\ sk[e] \in {"ECONNRESET", "ETIMEDOUT"} /\ Platform[e] = "linux"
  /\ AppendReceived(e, <<Garbage>>)
  /\ sk' = [sk EXCEPT ![e] = "dead"]
  /\ UNCHANGED <<mySocket, myWriteStream, myWriteQueue, pc, useful, told, written, wire,
                 inbox, finSent, finArrived>>

\* WSAECONNRESET and WSAETIMEDOUT are listed, and leave what had arrived behind:
\* Update returns false, and readData is not looked at.
RecvBroken(e) ==
  /\ pc[e] = "recv"
  /\ sk[e] \in {"ECONNRESET", "ETIMEDOUT"} /\ Platform[e] = "windows"
  /\ sk' = [sk EXCEPT ![e] = "dead"]
  /\ readData' = [readData EXCEPT ![e] = FALSE]
  /\ Return(e, FALSE)
  /\ UNCHANGED <<mySocket, streams, told, written, wire, inbox, finSent, finArrived>>

\* Faulty variant, for mutation: the end is taken before what is in front of it.
AtEndEarly(e) == finArrived[e]

\* recv returns 0.
AtEnd(e) == inbox[e] = <<>> /\ (sk[e] \in Gone \/ (sk[e] = "ok" /\ finArrived[e]))

\* The end of the connection, or ENOMEM: readData is not looked at.
RecvFails(e) ==
  /\ pc[e] = "recv"
  /\ AtEnd(e) \/ "ENOMEM" \in Faults
  /\ readData' = [readData EXCEPT ![e] = FALSE]
  /\ Return(e, FALSE)
  /\ UNCHANGED <<mySocket, streams, told, written, kernel>>

\* EAGAIN because there is nothing, or EINTR.
RecvAgain(e) ==
  /\ pc[e] = "recv"
  /\ \/ inbox[e] = <<>> /\ sk[e] = "ok" /\ ~finArrived[e]
     \/ "EINTR" \in Faults
  /\ IF readData[e]
     THEN pc' = [pc EXCEPT ![e] = "fire"] /\ UNCHANGED useful
     ELSE Return(e, TRUE)
  /\ readData' = [readData EXCEPT ![e] = FALSE]
  /\ UNCHANGED <<mySocket, streams, told, written, kernel>>

\* OnDataAvailable.Fire(): the callback may write an answer of n bytes, or close.
Fire(e, n) ==
  /\ pc[e] = "fire"
  /\ told' = [told EXCEPT ![e] = Len(myReadStream[e])]
  /\ WriteBytes(e, n)
  /\ Return(e, TRUE)
  /\ UNCHANGED <<mySocket, myWriteQueue, myReadStream, readData, kernel>>

FireAndClose(e) ==
  /\ pc[e] = "fire" /\ e \in Closers
  /\ told' = [told EXCEPT ![e] = Len(myReadStream[e])]
  /\ CloseSocket(e)
  /\ Return(e, TRUE)
  /\ UNCHANGED <<streams, readData, written>>

-----------------------------------------------------------------------------
(* External: the kernel and the network *)

\* A byte arrives; an end that is closed or gone answers it with a reset.  Who
\* knows of the peer's end already may receive it, but send no more (EPIPE).
Deliver(e) ==
  /\ wire[e] # <<>>
  /\ wire' = [wire EXCEPT ![e] = Tail(@)]
  /\ IF mySocket[Peer(e)] /\ sk[Peer(e)] = "ok"
     THEN inbox' = [inbox EXCEPT ![Peer(e)] = Append(@, Head(wire[e]))] /\ UNCHANGED sk
     ELSE /\ sk' = [sk EXCEPT ![e] = IF "ECONNRESET" \notin Faults \/ @ # "ok" THEN @
                                    ELSE IF finArrived[e] THEN "EPIPE" ELSE "ECONNRESET"]
          /\ UNCHANGED inbox
  /\ UNCHANGED <<mySocket, streams, readData, pc, useful, told, written, finSent, finArrived>>

DeliverFin(e) ==
  /\ finSent[e] /\ wire[e] = <<>> /\ ~finArrived[Peer(e)]
  /\ finArrived' = [finArrived EXCEPT ![Peer(e)] = TRUE]
  /\ UNCHANGED <<mySocket, streams, readData, pc, useful, told, written, wire, inbox,
                 finSent, sk>>

\* The peer does not answer any more.
TimeOut(e) ==
  /\ "ETIMEDOUT" \in Faults /\ sk[e] = "ok" /\ mySocket[e]
  /\ sk' = [sk EXCEPT ![e] = "ETIMEDOUT"]
  /\ wire' = [wire EXCEPT ![e] = <<>>]
  /\ UNCHANGED <<mySocket, streams, readData, pc, useful, told, written, inbox, finSent,
                 finArrived>>

-----------------------------------------------------------------------------
(* The next-state relation *)

Owner(e) == (\E n \in 1..MaxWritten[e] : Write(e, n)) \/ Close(e)

\* The steps of an Update that is running.
Continue(e) ==
  \/ (\E amount \in 1..CHUNK_SIZE : SendSome(e, amount))
  \/ SendAgain(e) \/ SendFails(e) \/ SendKilled(e) \/ SendTimedOut(e)
  \/ SendUnlisted(e) \/ SendDone(e)
  \/ RecvSome(e) \/ RecvUnlisted(e) \/ RecvBroken(e) \/ RecvFails(e) \/ RecvAgain(e)
  \/ (\E n \in 0..MaxWritten[e] : Fire(e, n)) \/ FireAndClose(e)

Network(e) == Deliver(e) \/ DeliverFin(e)

Next == \E e \in Ends : Owner(e) \/ Update(e) \/ Continue(e) \/ Network(e) \/ TimeOut(e)

Spec == Init /\ [][Next]_vars

\* Each owner polls Update for as long as the program runs (tools_test/
\* Network.cpp:71, examples/webpage/main.cpp), its thread executes the call, TCP
\* delivers what it has accepted, and signals do not interrupt every system call.
FairSpec ==
  /\ Spec
  /\ \A e \in Ends :
       /\ WF_vars(Update(e)) /\ WF_vars(Continue(e)) /\ WF_vars(Network(e))
       /\ SF_vars(\E amount \in 1..CHUNK_SIZE : SendSome(e, amount))
       /\ SF_vars(RecvSome(e))

-----------------------------------------------------------------------------
(* Properties *)

Byte == Nat

TypeOK ==
  /\ mySocket \in [Ends -> BOOLEAN] /\ useful \in [Ends -> BOOLEAN]
  /\ readData \in [Ends -> BOOLEAN]
  /\ pc \in [Ends -> {"idle", "send", "recv", "fire", "killed"}]
  /\ \A e \in Ends :
       /\ myWriteStream[e] \in Seq(Byte) /\ myReadStream[e] \in Seq(Byte)
       /\ myWriteQueue[e].segments \in Seq(Seq(Byte)) /\ myWriteQueue[e].offset \in 0..SizeMax
       /\ wire[e] \in Seq(Byte) /\ inbox[e] \in Seq(Byte)
       /\ written[e] \in 0..MaxWritten[e] /\ told[e] \in 0..Len(myReadStream[e])
       /\ Len(wire[e]) + Len(inbox[Peer(e)]) <= Capacity
  /\ finSent \in [Ends -> BOOLEAN] /\ finArrived \in [Ends -> BOOLEAN]
  /\ sk \in [Ends -> {"ok", "ECONNRESET", "ETIMEDOUT"} \cup Gone]

\* The two ends implement ByteLink: what is written at one end arrives at the
\* other once and in order, however the kernel splits it, refuses it or
\* interrupts the calls, and however often the queue is left half sent.
Link == INSTANCE ByteLink
          WITH received <- myReadStream,
               MaxWritten <- MaxWritten["client"] + MaxWritten["server"]

ImplementsByteLink == Link!Spec

\* Also when the connection breaks, what has been received is the beginning of
\* what was written, with at most one bogus segment behind it, and
\* on Windows none.
PrefixThenGarbage ==
  \A e \in Ends : \A k \in 1..Len(myReadStream[e]) :
    \/ myReadStream[e][k] = k /\ k <= written[Peer(e)]
    \/ /\ myReadStream[e][k] = Garbage /\ k = Len(myReadStream[e])
       /\ Platform[e] = "linux"

\* As long as Update returns true, OnDataAvailable has been fired for everything
\* in the read stream (LinuxTCPSocket.cpp:184): no news waits for the next byte.
AnnouncedWhileUseful ==
  \A e \in Ends : pc[e] = "idle" /\ useful[e] => told[e] = Len(myReadStream[e])

\* "This event will be fired whenever there is new data on the readstream"
\* (DOCUMENTATION.md:99): the same without the condition.
NewDataIsAnnounced ==
  \A e \in Ends : pc[e] = "idle" => told[e] = Len(myReadStream[e])

\* Every byte of the read stream was received from the peer: no segment has a
\* size that recv did not report.
OnlyReceivedBytes == \A e \in Ends : \A k \in 1..Len(myReadStream[e]) : myReadStream[e][k] # Garbage

\* EPIPE makes Update return false (LinuxTCPSocket.cpp:129): no peer's end takes the
\* program with it.
SurvivesItsPeer == \A e \in Ends : pc[e] # "killed"

\* When Update calls a socket useless because its peer has closed, nothing that
\* arrived is left unread in the kernel.
UselessOnlyWhenDrained ==
  TypeOK /\
  \A e \in Ends : pc[e] = "idle" /\ ~useful[e] /\ mySocket[e] => inbox[e] = <<>>

\* Whatever is written arrives and is announced, unless somebody closes or
\* something fails: a full kernel, a half-sent queue and a busy peer only delay it.
WrittenIsAnnounced ==
  \A e \in Ends : \A n \in 1..MaxWritten[e] :
    written[e] >= n ~> \/ told[Peer(e)] >= n
                       \/ \E x \in Ends : ~mySocket[x] \/ sk[x] # "ok"

\* A connection that ended or failed is found out: Update returns false, also
\* for the errors that its switches do not list.
BrokenConnectionIsNoticed ==
  \A e \in Ends : (finArrived[e] \/ sk[e] # "ok") ~> (~useful[e] \/ ~mySocket[e])
================================================================================
