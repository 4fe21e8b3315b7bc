-------------------------------- MODULE WebPage --------------------------------
(***************************************************************************)
(* examples/webpage/main.cpp: the main loop, its clients, the http server, *)
(* the chat's endpoints and the websockets they hand connections over to,  *)
(* with the browsers.                                                      *)
(*                                                                         *)
(* One thread runs all of it.  A connection is what TCPSocket makes of it, *)
(* a queue of requests in and of responses out; how requests are parsed is *)
(* HttpServer's, and how frames are, Websocket's.  What a websocket cannot *)
(* read stays in its stream, and so does what the server cannot.  What the *)
(* browsers do shows when the program asks for it: connections that accept *)
(* gives it, requests that recv does, an end.                              *)
(***************************************************************************)
EXTENDS Integers, Sequences, SequencesExt, FiniteSets

CONSTANTS Connections,
          Requests,   \* external: the kinds of requests the browsers send
          MaxRequests \* bound: requests on a connection

ASSUME WebPageAssumption ==
  /\ IsFiniteSet(Connections)
  /\ Requests \subseteq {"page", "post", "bad post", "upgrade", "bad upgrade", "ping"}
  /\ MaxRequests \in Nat

VARIABLES pc,                 \* "listen", "clients", "reading" (inside of OnDataAvailable), "ended"
          at,                 \* i in the main loop, from 1 on
          clients,            \* the connections in the vector
          myReadStream, myWriteStream,
          myWebsocketEnabled,
          onData,             \* the clients registered with ChatSocketEndpoint::OnData
          myMessages,         \* MessageDatabase
          sent,               \* external: how many requests each browser has sent
          received,           \* external: what each browser has received
          lost                \* external: the connections that have ended

vars == <<pc, at, clients, myReadStream, myWriteStream, myWebsocketEnabled, onData, myMessages,
          sent, received, lost>>

Http == {"page", "post", "bad post", "upgrade", "bad upgrade"}

-----------------------------------------------------------------------------
(* The main loop *)

\* To the client before this one, or around the loop.
ToClient(i) == at' = i /\ pc' = IF i = 0 THEN "listen" ELSE "clients"

\* TCPListenSocket::Update: a Client for every connection that waits.
Accept ==
  /\ pc = "listen"
  /\ \E new \in SUBSET (Connections \ (ToSet(clients) \cup lost)) : \E backlog \in SetToSeqs(new) :
       clients' = clients \o backlog
  /\ ToClient(Len(clients'))
  /\ UNCHANGED <<myReadStream, myWriteStream, myWebsocketEnabled, onData, myMessages,
                 sent, received, lost>>

ListenFails ==
  /\ pc = "listen"
  /\ pc' = "ended"
  /\ UNCHANGED <<at, clients, myReadStream, myWriteStream, myWebsocketEnabled, onData, myMessages,
                 sent, received, lost>>

Client == clients[at]

\* TCPSocket::HandleSend: the kernel takes as much as it has room for.
HandleSend(c) ==
  \E taken \in 0..Len(myWriteStream[c]) :
    /\ received' = [received EXCEPT ![c] = @ \o SubSeq(myWriteStream[c], 1, taken)]
    /\ myWriteStream' = [myWriteStream EXCEPT ![c] = SubSeq(@, taken + 1, Len(@))]

\* TCPSocket::HandleRecv fires OnDataAvailable if it has read something.  A message
\* is named for its post.
HandleRecv(c) ==
  \E kinds \in SeqOf(Requests, MaxRequests - sent[c]) :
    LET incoming == [i \in DOMAIN kinds |-> [kind |-> kinds[i], message |-> <<c, sent[c] + i>>]]
    IN /\ myReadStream' = [myReadStream EXCEPT ![c] = @ \o incoming]
       /\ sent' = [sent EXCEPT ![c] = @ + Len(kinds)]
       /\ IF kinds = <<>> THEN ToClient(at - 1) ELSE pc' = "reading" /\ UNCHANGED at

Update ==
  /\ pc = "clients"
  /\ HandleSend(Client) /\ HandleRecv(Client)
  /\ UNCHANGED <<clients, myWebsocketEnabled, onData, myMessages, lost>>

\* Update returns false, because send fails or recv finds the end: the client is
\* not in the vector any more.  Nobody deletes it or takes it out of OnData.
UpdateFails ==
  /\ pc = "clients"
  /\ HandleSend(Client)
  /\ clients' = RemoveAt(clients, at) /\ lost' = lost \cup {Client}
  /\ ToClient(at - 1)
  /\ UNCHANGED <<myReadStream, myWebsocketEnabled, onData, myMessages, sent>>

-----------------------------------------------------------------------------
(* OnDataAvailable of a client: Server::UpdateOn, then Websocket::Update *)

FirstRequest == Head(myReadStream[Client])

Reads ==
  /\ pc = "reading" /\ myReadStream[Client] # <<>>
  /\ myReadStream' = [myReadStream EXCEPT ![Client] = Tail(@)]
  /\ UNCHANGED <<pc, at, clients, sent, received, lost>>

\* Faulty variant, for mutation: the server goes on with a connection that was
\* upgraded.
ServesAll(c) == TRUE

\* Should_Terminate ends UpdateOn; later calls ask for myWebsocketEnabled.
Serves(c) == ~myWebsocketEnabled[c]

Response(c, kinds) == [myWriteStream EXCEPT ![c] = @ \o kinds]

\* The pages, and what an endpoint refuses; ChatEndpoint answers "ok" to a post
\* that it cannot read.
Respond ==
  /\ Reads /\ Serves(Client)
  /\ FirstRequest.kind \in {"page", "bad post", "bad upgrade"}
  /\ myWriteStream' = Response(Client, <<[kind |-> "response", messages |-> <<>>]>>)
  /\ UNCHANGED <<myWebsocketEnabled, onData, myMessages>>

\* Faulty variant, for mutation: the loop over the callbacks starts at the second.
AllButTheFirst == IF onData = <<>> THEN {} ELSE ToSet(Tail(onData))

Listeners == ToSet(onData)

\* ChatEndpoint::OnFrame, MessageDatabase::Insert: OnMessage, and so OnData, is
\* fired before the response is sent; every listener gets the message, the ones
\* whose connection is gone, too.
Post ==
  /\ Reads /\ Serves(Client) /\ FirstRequest.kind = "post"
  /\ myMessages' = Append(myMessages, FirstRequest.message)
  /\ LET news == [kind |-> "chat", messages |-> <<FirstRequest.message>>]
         told == [c \in Connections |-> IF c \in Listeners
                                        THEN Append(myWriteStream[c], news) ELSE myWriteStream[c]]
     IN myWriteStream' = [told EXCEPT ![Client] = Append(@, [kind |-> "response", messages |-> <<>>])]
  /\ UNCHANGED <<myWebsocketEnabled, onData>>

\* Faulty variant, for mutation: a client is told what comes, not what has been.
NoHistory(messages) == <<>>

GetHistory(messages) == messages

\* WebsocketEndpoint::OnFrame sends the response, then UpgradeToWebsocket sends
\* the history and registers for what comes.
Upgrade ==
  /\ Reads /\ Serves(Client) /\ FirstRequest.kind = "upgrade"
  /\ myWriteStream' = Response(Client, <<[kind |-> "response", messages |-> <<>>],
                                         [kind |-> "chat", messages |-> GetHistory(myMessages)]>>)
  /\ onData' = Append(onData, Client)
  /\ myWebsocketEnabled' = [myWebsocketEnabled EXCEPT ![Client] = TRUE]
  /\ UNCHANGED myMessages

\* Websocket::Update; its own flags decide whether it answers.
Frame ==
  /\ Reads /\ myWebsocketEnabled[Client] /\ FirstRequest.kind = "ping"
  /\ \/ myWriteStream' = Response(Client, <<[kind |-> "pong", messages |-> <<>>]>>)
     \/ UNCHANGED myWriteStream
  /\ UNCHANGED <<myWebsocketEnabled, onData, myMessages>>

\* The stream is empty, or holds what neither can read.
Returns ==
  /\ pc = "reading"
  /\ \/ myReadStream[Client] = <<>>
     \/ /\ myReadStream[Client] # <<>>
        /\ myWebsocketEnabled[Client] <=> FirstRequest.kind \in Http
  /\ ToClient(at - 1)
  /\ UNCHANGED <<clients, myReadStream, myWriteStream, myWebsocketEnabled, onData, myMessages,
                 sent, received, lost>>

-----------------------------------------------------------------------------

Init ==
  /\ pc = "listen" /\ at = 0 /\ clients = <<>>
  /\ myReadStream = [c \in Connections |-> <<>>] /\ myWriteStream = [c \in Connections |-> <<>>]
  /\ myWebsocketEnabled = [c \in Connections |-> FALSE]
  /\ onData = <<>> /\ myMessages = <<>>
  /\ sent = [c \in Connections |-> 0] /\ received = [c \in Connections |-> <<>>] /\ lost = {}

MainLoop == Accept \/ Update \/ UpdateFails \/ Respond \/ Post \/ Upgrade \/ Frame \/ Returns

Next == MainLoop \/ ListenFails

Spec == Init /\ [][Next]_vars

\* The loop goes on, and the kernel takes some of what a connection is always sending.
FairSpec ==
  /\ Spec
  /\ WF_vars(MainLoop)
  /\ \A c \in Connections : SF_vars(Update /\ received'[c] # received[c])

-----------------------------------------------------------------------------
(* Properties *)

Message == Connections \X (1..MaxRequests)
Request == [kind : Requests, message : Message]
Item == [kind : {"response", "chat", "pong"}, messages : Seq(Message)]

TypeOK ==
  /\ pc \in {"listen", "clients", "reading", "ended"}
  /\ clients \in Seq(Connections) /\ at \in 0..Len(clients)
  /\ pc \in {"clients", "reading"} => at # 0
  /\ myReadStream \in [Connections -> Seq(Request)]
  /\ myWriteStream \in [Connections -> Seq(Item)] /\ received \in [Connections -> Seq(Item)]
  /\ myWebsocketEnabled \in [Connections -> BOOLEAN]
  /\ onData \in Seq(Connections) /\ myMessages \in Seq(Message)
  /\ sent \in [Connections -> 0..MaxRequests] /\ lost \subseteq Connections

\* What a browser has been shown: the history and the news.
Shown(c) == FlattenSeq([i \in DOMAIN received[c] |-> received[c][i].messages])

\* Whoever joins, and whenever, sees the conversation from its beginning, every
\* message once and in the same order as everyone else.
Room == INSTANCE ChatRoom
          WITH Members <- Connections,
               log <- myMessages, seen <- [c \in Connections |-> Shown(c)]
ImplementsChatRoom == Room!Spec

\* A connection speaks http up to the response to its upgrade and is a websocket
\* from there on, whatever the browser sends behind its request: no response comes
\* among the frames and no frame before the response.
Written(c) == received[c] \o myWriteStream[c]
FramesAreLast(items) ==
  \A i, j \in DOMAIN items : i < j /\ items[j].kind = "response" => items[i].kind = "response"
SpeaksOneProtocol == TypeOK /\ \A c \in Connections : FramesAreLast(Written(c))

\* A message that was accepted is shown to everyone who is in the chat then or
\* later, as long as the connection and the program last.
PostedIsSeen ==
  \A c \in Connections : \A m \in Message :
    (m \in ToSet(myMessages) /\ myWebsocketEnabled[c])
      ~> (m \in ToSet(Shown(c)) \/ c \in lost \/ pc = "ended")
================================================================================
