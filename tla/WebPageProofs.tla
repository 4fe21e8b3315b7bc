------------------------------ MODULE WebPageProofs ------------------------------
(***************************************************************************)
(* Proofs about WebPage: no connection mixes its protocols, and all who    *)
(* are in the chat see one conversation from its beginning, for any number *)
(* of connections and of requests.                                         *)
(*                                                                         *)
(* A connection that was not upgraded has had responses only, and a client *)
(* that is told the news was upgraded: that is what keeps a response from  *)
(* coming behind a frame, and a frame from coming among responses.  What   *)
(* was written to a client that is told the news is the whole conversation,*)
(* and nothing of it to the others: so what the kernel takes of that is    *)
(* always a beginning of the conversation.                                 *)
(***************************************************************************)
EXTENDS WebPage, FiniteSetTheorems, SequenceTheorems, WellFoundedInduction, TLAPS

OnlyResponses(items) == \A i \in DOMAIN items : items[i].kind = "response"

ListenersAreUpgraded == \A i \in DOMAIN onData : myWebsocketEnabled[onData[i]]

OthersHaveResponses ==
  \A c \in Connections : ~myWebsocketEnabled[c] => OnlyResponses(Written(c))

IInv == TypeOK /\ ListenersAreUpgraded /\ OthersHaveResponses /\ SpeaksOneProtocol

-----------------------------------------------------------------------------
(* Sequences of responses and frames *)

\* The kernel takes items from the front: what is written stays the same.
LEMMA TakenIsWritten ==
  ASSUME NEW S, NEW r \in Seq(S), NEW w \in Seq(S), NEW n \in 0..Len(w)
  PROVE  /\ r \o SubSeq(w, 1, n) \in Seq(S) /\ SubSeq(w, n + 1, Len(w)) \in Seq(S)
         /\ (r \o SubSeq(w, 1, n)) \o SubSeq(w, n + 1, Len(w)) = r \o w
<1> DEFINE front == SubSeq(w, 1, n)
           back == SubSeq(w, n + 1, Len(w))
<1>1. front \in Seq(S) /\ back \in Seq(S)
  OBVIOUS
<1>2. front \o back = w
  <2>1. Len(w) \in Nat /\ 1 \in 1..(Len(w) + 1) /\ n \in (1 - 1)..Len(w) /\ Len(w) \in n..Len(w)
    OBVIOUS
  <2>2. front \o back = SubSeq(w, 1, Len(w))
    BY <2>1, ConcatAdjacentSubSeq
  <2>3. QED
    BY <2>2, SubSeqFull
<1> HIDE DEF front, back
<1>3. (r \o front) \o back = r \o (front \o back) /\ r \o front \in Seq(S)
  BY SMTT(30), <1>1, ConcatAssociative, ConcatProperties
<1>4. QED
  BY <1>1, <1>2, <1>3 DEF front, back

\* Items more in the write stream are items more that were written.
LEMMA MoreWritten ==
  ASSUME NEW S, NEW r \in Seq(S), NEW w \in Seq(S), NEW items \in Seq(S)
  PROVE  /\ w \o items \in Seq(S) /\ r \o w \in Seq(S)
         /\ r \o (w \o items) = (r \o w) \o items
BY SMTT(30), ConcatAssociative, ConcatProperties

\* A response behind responses.
LEMMA ResponseBehindResponses ==
  ASSUME NEW items \in Seq(Item), NEW item \in Item,
         OnlyResponses(items), item.kind = "response"
  PROVE  OnlyResponses(items \o <<item>>)
BY DEF OnlyResponses

\* A frame behind whatever is in order.
LEMMA FrameBehind ==
  ASSUME NEW items \in Seq(Item), NEW item \in Item,
         FramesAreLast(items), item.kind # "response"
  PROVE  FramesAreLast(items \o <<item>>)
BY DEF FramesAreLast

LEMMA ResponsesAreInOrder ==
  ASSUME NEW items, OnlyResponses(items)
  PROVE  FramesAreLast(items)
BY DEF OnlyResponses, FramesAreLast

\* The response to an upgrade, and the history behind it.
LEMMA ThenTheHistory ==
  ASSUME NEW items \in Seq(Item), NEW item \in Item, NEW frame \in Item,
         OnlyResponses(items), item.kind = "response", frame.kind # "response"
  PROVE  FramesAreLast(items \o <<item, frame>>)
<1> DEFINE all == items \o <<item, frame>>
<1>1. /\ Len(items) \in Nat /\ DOMAIN all = 1..(Len(items) + 2)
      /\ \A i \in 1..Len(items) : all[i] = items[i]
      /\ all[Len(items) + 1] = item /\ all[Len(items) + 2] = frame
  OBVIOUS
<1> HIDE DEF all
<1>2. \A i \in DOMAIN all : i # Len(items) + 2 => all[i].kind = "response"
  BY <1>1 DEF OnlyResponses
<1>3. FramesAreLast(all)
  BY <1>1, <1>2 DEF FramesAreLast
<1>4. QED
  BY <1>3 DEF all

-----------------------------------------------------------------------------
(* The types *)

\* The client that the main loop is at.
LEMMA ClientType ==
  ASSUME TypeOK, pc \in {"clients", "reading"}
  PROVE  /\ Client \in Connections /\ at \in 1..Len(clients) /\ at - 1 \in 0..Len(clients)
BY SMTT(30) DEF TypeOK, Client

\* HandleSend moves items, and what is written stays as it was.
LEMMA SendKeepsWritten ==
  ASSUME TypeOK, NEW d \in Connections, HandleSend(d)
  PROVE  /\ myWriteStream' \in [Connections -> Seq(Item)]
         /\ received' \in [Connections -> Seq(Item)]
         /\ \A c \in Connections : Written(c)' = Written(c)
<1> PICK taken \in 0..Len(myWriteStream[d]) :
      /\ received' = [received EXCEPT ![d] = @ \o SubSeq(myWriteStream[d], 1, taken)]
      /\ myWriteStream' = [myWriteStream EXCEPT ![d] = SubSeq(@, taken + 1, Len(@))]
  BY DEF HandleSend
<1> DEFINE r == received[d]
           w == myWriteStream[d]
<1>1. r \in Seq(Item) /\ w \in Seq(Item)
  BY DEF TypeOK
<1>2. /\ r \o SubSeq(w, 1, taken) \in Seq(Item) /\ SubSeq(w, taken + 1, Len(w)) \in Seq(Item)
      /\ (r \o SubSeq(w, 1, taken)) \o SubSeq(w, taken + 1, Len(w)) = r \o w
  BY ZenonT(40), <1>1, TakenIsWritten
<1>3. /\ received' = [received EXCEPT ![d] = r \o SubSeq(w, 1, taken)]
      /\ myWriteStream' = [myWriteStream EXCEPT ![d] = SubSeq(w, taken + 1, Len(w))]
  OBVIOUS
<1>4. /\ received'[d] = r \o SubSeq(w, 1, taken)
      /\ myWriteStream'[d] = SubSeq(w, taken + 1, Len(w))
      /\ \A c \in Connections \ {d} : received'[c] = received[c] /\ myWriteStream'[c] = myWriteStream[c]
      /\ received' \in [Connections -> Seq(Item)] /\ myWriteStream' \in [Connections -> Seq(Item)]
  BY <1>2, <1>3 DEF TypeOK
<1>5. QED
  BY <1>2, <1>4 DEF Written

\* The connections that wait, one behind the other.
LEMMA BacklogType ==
  ASSUME NEW new \in SUBSET Connections, NEW backlog \in SetToSeqs(new)
  PROVE  backlog \in Seq(Connections)
<1>1. IsFiniteSet(new)
  BY WebPageAssumption, FS_Subset
<1>2. Cardinality(new) \in Nat
  BY <1>1, FS_CardinalityType
<1>3. QED
  BY <1>2 DEF SetToSeqs

\* What is left of the vector, and the client that the loop goes on with.
LEMMA RemovedType ==
  ASSUME NEW S, NEW s \in Seq(S), NEW i \in 1..Len(s)
  PROVE  /\ SubSeq(s, 1, i - 1) \o SubSeq(s, i + 1, Len(s)) \in Seq(S)
         /\ i - 1 \in 0..Len(SubSeq(s, 1, i - 1) \o SubSeq(s, i + 1, Len(s)))
<1> DEFINE before == SubSeq(s, 1, i - 1)
           behind == SubSeq(s, i + 1, Len(s))
<1>1. /\ \A j \in 1..(i - 1) : s[j] \in S
      /\ \A j \in (i + 1)..Len(s) : s[j] \in S
      /\ Len(s) \in Int /\ i - 1 \in Int /\ i + 1 \in Int /\ i - 1 \in Nat
  OBVIOUS
<1>2. before \in Seq(S) /\ Len(before) = i - 1
  BY <1>1, SubSeqProperties
<1>3. behind \in Seq(S)
  BY <1>1, SubSeqProperties
<1> HIDE DEF before, behind
<1>4. Len(behind) \in Nat /\ before \o behind \in Seq(S)
  BY <1>2, <1>3
<1>5. Len(before \o behind) = (i - 1) + Len(behind)
  BY <1>2, <1>3
<1>6. i - 1 \in 0..Len(before \o behind)
  BY <1>1, <1>4, <1>5
<1>7. QED
  BY <1>4, <1>6 DEF before, behind

\* The requests that recv reads, and how many there have been.
LEMMA IncomingType ==
  ASSUME TypeOK, NEW c \in Connections, NEW kinds \in SeqOf(Requests, MaxRequests - sent[c])
  PROVE  /\ [i \in DOMAIN kinds |-> [kind |-> kinds[i], message |-> <<c, sent[c] + i>>]]
              \in Seq(Request)
         /\ sent[c] + Len(kinds) \in 0..MaxRequests
<1>1. MaxRequests \in Nat /\ sent[c] \in 0..MaxRequests
  BY WebPageAssumption DEF TypeOK
<1>2. PICK m \in 0..(MaxRequests - sent[c]) : kinds \in [1..m -> Requests]
  BY DEF SeqOf
<1>3. m \in Nat /\ kinds \in Seq(Requests) /\ Len(kinds) = m /\ DOMAIN kinds = 1..m
  BY <1>1, <1>2
<1>4. \A i \in 1..m : [kind |-> kinds[i], message |-> <<c, sent[c] + i>>] \in Request
  BY <1>1, <1>2 DEF Request, Message
<1>5. QED
  BY <1>1, <1>3, <1>4

\* A request is taken from the stream, if OnDataAvailable reads one.
LEMMA ReadsType ==
  ASSUME TypeOK, Reads
  PROVE  /\ Client \in Connections /\ FirstRequest \in Request
         /\ myReadStream' \in [Connections -> Seq(Request)]
<1>1. Client \in Connections /\ myReadStream[Client] # <<>>
  BY ClientType DEF Reads
<1>2. myReadStream[Client] \in Seq(Request)
  BY <1>1 DEF TypeOK
<1>3. FirstRequest \in Request /\ Tail(myReadStream[Client]) \in Seq(Request)
  BY <1>1, <1>2 DEF FirstRequest
<1>4. QED
  BY <1>1, <1>3 DEF Reads, TypeOK

\* What the handlers send.
LEMMA AnswerItems ==
  ASSUME TypeOK
  PROVE  /\ <<[kind |-> "response", messages |-> <<>>]>> \in Seq(Item)
         /\ <<[kind |-> "pong", messages |-> <<>>]>> \in Seq(Item)
         /\ <<[kind |-> "response", messages |-> <<>>],
              [kind |-> "chat", messages |-> GetHistory(myMessages)]>> \in Seq(Item)
BY DEF TypeOK, Item, GetHistory

\* What is sent to one connection is behind all that was written to it.
LEMMA ResponseWritten ==
  ASSUME TypeOK, NEW d \in Connections, NEW items \in Seq(Item),
         myWriteStream' = Response(d, items), received' = received
  PROVE  /\ myWriteStream' \in [Connections -> Seq(Item)]
         /\ Written(d)' = Written(d) \o items
         /\ \A c \in Connections \ {d} : Written(c)' = Written(c)
<1>1. myWriteStream[d] \in Seq(Item) /\ received[d] \in Seq(Item)
  BY DEF TypeOK
<1>2. /\ myWriteStream[d] \o items \in Seq(Item)
      /\ received[d] \o (myWriteStream[d] \o items) = (received[d] \o myWriteStream[d]) \o items
  <2> DEFINE r == received[d]
             w == myWriteStream[d]
  <2>1. r \in Seq(Item) /\ w \in Seq(Item)
    BY <1>1
  <2> HIDE DEF r, w
  <2>2. w \o items \in Seq(Item) /\ r \o (w \o items) = (r \o w) \o items
    BY <2>1, MoreWritten
  <2>3. QED
    BY <2>2 DEF r, w
<1>3. /\ myWriteStream'[d] = myWriteStream[d] \o items
      /\ \A c \in Connections \ {d} : myWriteStream'[c] = myWriteStream[c]
      /\ myWriteStream' \in [Connections -> Seq(Item)]
  BY <1>2 DEF Response, TypeOK
<1>4. QED
  BY <1>2, <1>3 DEF Written

\* A post sends the news to every listener and a response to its sender.
LEMMA PostWritten ==
  ASSUME TypeOK, Post
  PROVE  LET news == [kind |-> "chat", messages |-> <<FirstRequest.message>>]
             answer == [kind |-> "response", messages |-> <<>>]
         IN /\ news \in Item /\ answer \in Item
            /\ myWriteStream' \in [Connections -> Seq(Item)]
            /\ Client \notin Listeners => Written(Client)' = Written(Client) \o <<answer>>
            /\ \A c \in Connections \ {Client} :
                 Written(c)' = IF c \in Listeners THEN Written(c) \o <<news>> ELSE Written(c)
<1> DEFINE news == [kind |-> "chat", messages |-> <<FirstRequest.message>>]
           answer == [kind |-> "response", messages |-> <<>>]
           told == [c \in Connections |-> IF c \in Listeners
                                          THEN Append(myWriteStream[c], news) ELSE myWriteStream[c]]
<1>1. Client \in Connections /\ news \in Item /\ answer \in Item /\ received' = received
  BY ReadsType DEF Post, Reads, Item, Request
<1>2. myWriteStream' = [told EXCEPT ![Client] = Append(@, answer)]
  BY DEF Post
<1>3. \A c \in Connections : myWriteStream[c] \in Seq(Item) /\ received[c] \in Seq(Item)
  BY DEF TypeOK
<1> HIDE DEF news, answer
<1>4. ASSUME NEW c \in Connections
      PROVE  /\ myWriteStream[c] \o <<news>> \in Seq(Item)
             /\ received[c] \o (myWriteStream[c] \o <<news>>) = (received[c] \o myWriteStream[c]) \o <<news>>
             /\ received[c] \o (myWriteStream[c] \o <<answer>>) = (received[c] \o myWriteStream[c]) \o <<answer>>
  <2> DEFINE r == received[c]
             w == myWriteStream[c]
             theNews == <<news>>
             theAnswer == <<answer>>
  <2>1. theNews \in Seq(Item) /\ theAnswer \in Seq(Item) /\ r \in Seq(Item) /\ w \in Seq(Item)
    BY <1>1, <1>3
  <2> HIDE DEF r, w, theNews, theAnswer
  <2>2. w \o theNews \in Seq(Item) /\ r \o (w \o theNews) = (r \o w) \o theNews
    BY <2>1, MoreWritten
  <2>3. r \o (w \o theAnswer) = (r \o w) \o theAnswer
    BY <2>1, MoreWritten
  <2>4. QED
    BY <2>2, <2>3 DEF r, w, theNews, theAnswer
<1>5. \A c \in Connections :
         told[c] = IF c \in Listeners THEN myWriteStream[c] \o <<news>> ELSE myWriteStream[c]
  BY <1>1, <1>3, AppendIsConcat
<1>6. told \in [Connections -> Seq(Item)]
  BY <1>3, <1>4, <1>5
<1> HIDE DEF told
<1>7. Append(told[Client], answer) = told[Client] \o <<answer>>
  BY <1>1, <1>6, AppendIsConcat
<1>8. /\ myWriteStream' \in [Connections -> Seq(Item)]
      /\ myWriteStream'[Client] = told[Client] \o <<answer>>
      /\ \A c \in Connections \ {Client} : myWriteStream'[c] = told[c]
  BY <1>1, <1>2, <1>6, <1>7
<1>9. Client \notin Listeners => Written(Client)' = Written(Client) \o <<answer>>
  <2>1. Client' = Client
    BY DEF Post, Reads, Client
  <2>2. QED
    BY <1>1, <1>4, <1>5, <1>8, <2>1 DEF Written
<1>10. ASSUME NEW c \in Connections \ {Client}
       PROVE  Written(c)' = IF c \in Listeners THEN Written(c) \o <<news>> ELSE Written(c)
  BY <1>1, <1>4, <1>5, <1>8 DEF Written
<1>11. QED
  BY <1>1, <1>8, <1>9, <1>10 DEF news, answer

LEMMA TypeInductive == TypeOK /\ [Next]_vars => TypeOK'
<1> SUFFICES ASSUME TypeOK, [Next]_vars PROVE TypeOK'
  OBVIOUS
<1>1. CASE Accept
  <2>1. PICK new \in SUBSET (Connections \ (ToSet(clients) \cup lost)) :
          \E backlog \in SetToSeqs(new) : clients' = clients \o backlog
    BY <1>1 DEF Accept
  <2>2. clients' \in Seq(Connections)
    <3>1. PICK backlog \in SetToSeqs(new) : clients' = clients \o backlog
      BY <2>1
    <3>2. new \in SUBSET Connections
      OBVIOUS
    <3>3. backlog \in Seq(Connections)
      BY <3>1, <3>2, BacklogType
    <3>4. QED
      BY <3>1, <3>3 DEF TypeOK
  <2>3. QED
    BY <1>1, <2>2 DEF Accept, ToClient, TypeOK
<1>2. CASE ListenFails
  BY <1>2 DEF ListenFails, TypeOK
<1>3. CASE Update
  <2>1. /\ Client \in Connections /\ at - 1 \in 0..Len(clients) /\ at \in 1..Len(clients)
        /\ myWriteStream' \in [Connections -> Seq(Item)]
        /\ received' \in [Connections -> Seq(Item)]
    BY <1>3, ClientType, SendKeepsWritten DEF Update
  <2> PICK kinds \in SeqOf(Requests, MaxRequests - sent[Client]) :
        LET incoming == [i \in DOMAIN kinds |->
                           [kind |-> kinds[i], message |-> <<Client, sent[Client] + i>>]]
        IN /\ myReadStream' = [myReadStream EXCEPT ![Client] = @ \o incoming]
           /\ sent' = [sent EXCEPT ![Client] = @ + Len(kinds)]
           /\ IF kinds = <<>> THEN ToClient(at - 1) ELSE pc' = "reading" /\ UNCHANGED at
    BY <1>3 DEF Update, HandleRecv
  <2> DEFINE incoming == [i \in DOMAIN kinds |->
                            [kind |-> kinds[i], message |-> <<Client, sent[Client] + i>>]]
  <2>2. incoming \in Seq(Request) /\ sent[Client] + Len(kinds) \in 0..MaxRequests
    BY <2>1, IncomingType
  <2>3. /\ myReadStream' = [myReadStream EXCEPT ![Client] = @ \o incoming]
        /\ sent' = [sent EXCEPT ![Client] = @ + Len(kinds)]
    OBVIOUS
  <2> HIDE DEF incoming
  <2>4. myReadStream[Client] \o incoming \in Seq(Request)
    BY <2>1, <2>2 DEF TypeOK
  <2>5. /\ myReadStream' \in [Connections -> Seq(Request)]
        /\ sent' \in [Connections -> 0..MaxRequests]
    BY <2>2, <2>3, <2>4 DEF TypeOK
  <2>6. pc' \in {"listen", "clients", "reading"} /\ at' \in 0..Len(clients)
        /\ (pc' \in {"clients", "reading"} => at' # 0)
    BY <2>1 DEF ToClient
  <2>7. QED
    BY <1>3, <2>1, <2>5, <2>6 DEF Update, TypeOK
<1>4. CASE UpdateFails
  <2>1. /\ Client \in Connections /\ at - 1 \in 0..Len(clients) /\ at \in 1..Len(clients)
        /\ myWriteStream' \in [Connections -> Seq(Item)]
        /\ received' \in [Connections -> Seq(Item)]
    BY <1>4, ClientType, SendKeepsWritten DEF UpdateFails
  <2>2. clients' = SubSeq(clients, 1, at - 1) \o SubSeq(clients, at + 1, Len(clients))
    BY <1>4 DEF UpdateFails, RemoveAt
  <2>3. clients' \in Seq(Connections) /\ at - 1 \in 0..Len(clients')
    BY <2>1, <2>2, RemovedType DEF TypeOK
  <2>4. QED
    BY <1>4, <2>1, <2>3 DEF UpdateFails, ToClient, TypeOK
<1>5. CASE Respond
  <2>1. myWriteStream' \in [Connections -> Seq(Item)]
    BY <1>5, ReadsType, AnswerItems, ResponseWritten DEF Respond, Reads
  <2>2. QED
    BY <1>5, <2>1, ReadsType DEF Respond, Reads, TypeOK
<1>6. CASE Post
  <2>1. FirstRequest.message \in Message /\ myMessages' \in Seq(Message)
    <3>1. FirstRequest.message \in Message
      BY <1>6, ReadsType DEF Post, Request
    <3>2. QED
      BY <1>6, <3>1 DEF Post, TypeOK
  <2>2. myWriteStream' \in [Connections -> Seq(Item)]
    BY <1>6, ReadsType, PostWritten
  <2>3. QED
    BY <1>6, <2>1, <2>2, ReadsType DEF Post, Reads, TypeOK
<1>7. CASE Upgrade
  <2>1. myWriteStream' \in [Connections -> Seq(Item)]
    BY <1>7, ReadsType, AnswerItems, ResponseWritten DEF Upgrade, Reads
  <2>2. onData' \in Seq(Connections) /\ myWebsocketEnabled' \in [Connections -> BOOLEAN]
    BY <1>7, ReadsType DEF Upgrade, TypeOK
  <2>3. QED
    BY <1>7, <2>1, <2>2, ReadsType DEF Upgrade, Reads, TypeOK
<1>8. CASE Frame
  <2>1. myWriteStream' \in [Connections -> Seq(Item)]
    BY <1>8, ReadsType, AnswerItems, ResponseWritten DEF Frame, Reads, TypeOK
  <2>2. QED
    BY <1>8, <2>1, ReadsType DEF Frame, Reads, TypeOK
<1>9. CASE Returns
  BY <1>9, ClientType DEF Returns, ToClient, TypeOK
<1>10. CASE UNCHANGED vars
  BY <1>10 DEF vars, TypeOK
<1>11. QED
  BY <1>1, <1>2, <1>3, <1>4, <1>5, <1>6, <1>7, <1>8, <1>9, <1>10 DEF Next, MainLoop

-----------------------------------------------------------------------------
(* The protocols *)

LEMMA InitInvariant == Init => IInv
<1> SUFFICES ASSUME Init PROVE IInv
  OBVIOUS
<1>1. TypeOK
  <2>1. /\ clients \in Seq(Connections) /\ onData \in Seq(Connections) /\ myMessages \in Seq(Message)
        /\ at \in 0..Len(clients)
    BY DEF Init
  <2>2. /\ myReadStream \in [Connections -> Seq(Request)]
        /\ myWriteStream \in [Connections -> Seq(Item)] /\ received \in [Connections -> Seq(Item)]
    BY DEF Init
  <2>3. /\ myWebsocketEnabled \in [Connections -> BOOLEAN]
        /\ sent \in [Connections -> 0..MaxRequests]
    <3>1. MaxRequests \in Nat
      BY WebPageAssumption DEF WebPageAssumption
    <3>2. QED
      BY <3>1 DEF Init
  <2>4. QED
    BY <2>1, <2>2, <2>3 DEF Init, TypeOK
<1>2. ListenersAreUpgraded
  BY DEF Init, ListenersAreUpgraded
<1>3. \A c \in Connections : Written(c) = <<>>
  BY DEF Init, Written
<1>4. QED
  BY <1>1, <1>2, <1>3 DEF IInv, OthersHaveResponses, SpeaksOneProtocol, OnlyResponses, FramesAreLast

\* As long as nothing is sent and nobody is upgraded, nothing changes.
LEMMA KeptInvariant ==
  ASSUME IInv, TypeOK', UNCHANGED <<myWebsocketEnabled, onData>>,
         \A c \in Connections : Written(c)' = Written(c)
  PROVE  IInv'
<1>1. ListenersAreUpgraded'
  BY DEF IInv, ListenersAreUpgraded
<1>2. OthersHaveResponses'
  BY DEF IInv, OthersHaveResponses, OnlyResponses
<1>3. SpeaksOneProtocol'
  BY DEF IInv, SpeaksOneProtocol, FramesAreLast
<1>4. QED
  BY <1>1, <1>2, <1>3 DEF IInv

LEMMA WrittenType ==
  ASSUME TypeOK, NEW c \in Connections
  PROVE  Written(c) \in Seq(Item)
BY ConcatProperties DEF TypeOK, Written

\* The handlers that send to one connection only.  It is the client's own, so it
\* is the only one whose order they could disturb.
LEMMA AnswerInvariant ==
  ASSUME IInv, TypeOK', NEW d \in Connections, NEW items \in Seq(Item),
         myWriteStream' = Response(d, items), received' = received,
         ListenersAreUpgraded',
         \A c \in Connections \ {d} : myWebsocketEnabled'[c] = myWebsocketEnabled[c],
         ~myWebsocketEnabled'[d] => OnlyResponses(Written(d) \o items),
         FramesAreLast(Written(d) \o items)
  PROVE  IInv'
<1>1. /\ Written(d)' = Written(d) \o items
      /\ \A c \in Connections \ {d} : Written(c)' = Written(c)
  BY ResponseWritten DEF IInv
<1>2. OthersHaveResponses'
  <2> SUFFICES ASSUME NEW c \in Connections, ~myWebsocketEnabled'[c]
               PROVE  OnlyResponses(Written(c)')
    BY DEF OthersHaveResponses, OnlyResponses
  <2>1. CASE c = d
    BY <1>1, <2>1
  <2>2. CASE c # d
    BY <1>1, <2>2 DEF IInv, OthersHaveResponses
  <2>3. QED
    BY <2>1, <2>2
<1>3. \A c \in Connections : FramesAreLast(Written(c)')
  <2> SUFFICES ASSUME NEW c \in Connections
               PROVE  FramesAreLast(Written(c)')
    OBVIOUS
  <2>1. CASE c = d
    BY <1>1, <2>1
  <2>2. CASE c # d
    BY <1>1, <2>2 DEF IInv, SpeaksOneProtocol
  <2>3. QED
    BY <2>1, <2>2
<1>4. QED
  BY <1>2, <1>3 DEF IInv, SpeaksOneProtocol, FramesAreLast

LEMMA PostInvariant ==
  ASSUME IInv, TypeOK', Post
  PROVE  IInv'
<1> DEFINE news == [kind |-> "chat", messages |-> <<FirstRequest.message>>]
           answer == [kind |-> "response", messages |-> <<>>]
<1>1. TypeOK /\ Client \in Connections /\ ~myWebsocketEnabled[Client]
  BY ReadsType DEF IInv, Post, Serves
<1>2. \A c \in Listeners : myWebsocketEnabled[c]
  BY DEF IInv, ListenersAreUpgraded, Listeners, ToSet
<1>3. /\ news \in Item /\ answer \in Item
      /\ Client \notin Listeners => Written(Client)' = Written(Client) \o <<answer>>
      /\ \A c \in Connections \ {Client} :
           Written(c)' = IF c \in Listeners THEN Written(c) \o <<news>> ELSE Written(c)
  BY <1>1, PostWritten
<1>4. Client' = Client /\ myWebsocketEnabled' = myWebsocketEnabled /\ onData' = onData
  BY DEF Post, Reads, Client
<1>5. news.kind # "response" /\ answer.kind = "response"
  OBVIOUS
<1> HIDE DEF news, answer
<1>6. PICK d \in Connections : d = Client
  BY <1>1
<1>7. Written(d)' = Written(d) \o <<answer>>
  BY <1>1, <1>2, <1>3, <1>4, <1>6
<1>8. ListenersAreUpgraded'
  BY <1>4 DEF IInv, ListenersAreUpgraded
<1>9. ASSUME NEW c \in Connections
      PROVE  /\ ~myWebsocketEnabled'[c] => OnlyResponses(Written(c)')
             /\ FramesAreLast(Written(c)')
  <2>1. Written(c) \in Seq(Item)
    BY <1>1, WrittenType
  <2>2. CASE c = d
    <3>1. OnlyResponses(Written(c))
      BY <1>1, <1>6, <2>2 DEF IInv, OthersHaveResponses
    <3>2. OnlyResponses(Written(c) \o <<answer>>)
      BY <1>3, <1>5, <2>1, <3>1, ResponseBehindResponses
    <3>3. Written(c)' = Written(c) \o <<answer>>
      BY <1>7, <2>2
    <3>4. QED
      BY <3>2, <3>3, ResponsesAreInOrder
  <2>3. CASE c # d /\ c \in Listeners
    <3>1. Written(c)' = Written(c) \o <<news>> /\ myWebsocketEnabled'[c]
      BY <1>2, <1>3, <1>4, <1>6, <2>3
    <3>2. FramesAreLast(Written(c) \o <<news>>)
      BY <1>3, <1>5, <2>1, FrameBehind DEF IInv, SpeaksOneProtocol
    <3>3. QED
      BY <3>1, <3>2
  <2>4. CASE c # d /\ c \notin Listeners
    <3>1. Written(c)' = Written(c)
      BY <1>3, <1>6, <2>4
    <3>2. QED
      BY <1>4, <3>1 DEF IInv, OthersHaveResponses, SpeaksOneProtocol
  <2>5. QED
    BY <2>2, <2>3, <2>4
<1>10. QED
  BY <1>8, <1>9 DEF IInv, OthersHaveResponses, SpeaksOneProtocol, OnlyResponses, FramesAreLast

LEMMA StepInvariant == IInv /\ [Next]_vars => IInv'
<1> SUFFICES ASSUME IInv, [Next]_vars PROVE IInv'
  OBVIOUS
<1> TypeOK /\ TypeOK'
  BY TypeInductive DEF IInv
<1>1. CASE Accept
  BY <1>1, KeptInvariant DEF Accept, Written
<1>2. CASE ListenFails
  BY <1>2, KeptInvariant DEF ListenFails, Written
<1>3. CASE Update
  BY <1>3, KeptInvariant, ClientType, SendKeepsWritten DEF Update
<1>4. CASE UpdateFails
  BY <1>4, KeptInvariant, ClientType, SendKeepsWritten DEF UpdateFails
<1>5. CASE Respond
  <2> DEFINE item == [kind |-> "response", messages |-> <<>>]
  <2>1. PICK d \in Connections : d = Client
    BY <1>5, ReadsType DEF Respond
  <2>2. /\ myWriteStream' = Response(d, <<item>>) /\ received' = received
        /\ ~myWebsocketEnabled[d] /\ UNCHANGED <<myWebsocketEnabled, onData>>
    BY <1>5, <2>1 DEF Respond, Reads, Serves
  <2>3. item \in Item /\ <<item>> \in Seq(Item) /\ item.kind = "response"
    BY DEF Item
  <2> HIDE DEF item
  <2>4. OnlyResponses(Written(d) \o <<item>>)
    BY <2>2, <2>3, WrittenType, ResponseBehindResponses DEF IInv, OthersHaveResponses
  <2>5. FramesAreLast(Written(d) \o <<item>>)
    BY <2>4, ResponsesAreInOrder
  <2>6. ListenersAreUpgraded'
    BY <2>2 DEF IInv, ListenersAreUpgraded
  <2>7. QED
    BY <2>2, <2>3, <2>4, <2>5, <2>6, AnswerInvariant
<1>6. CASE Post
  BY <1>6, PostInvariant
<1>7. CASE Upgrade
  <2> DEFINE item == [kind |-> "response", messages |-> <<>>]
             history == [kind |-> "chat", messages |-> GetHistory(myMessages)]
  <2>1. PICK d \in Connections : d = Client
    BY <1>7, ReadsType DEF Upgrade
  <2>2. /\ myWriteStream' = Response(d, <<item, history>>) /\ received' = received
        /\ ~myWebsocketEnabled[d] /\ onData' = Append(onData, d)
        /\ myWebsocketEnabled' = [myWebsocketEnabled EXCEPT ![d] = TRUE]
    BY <1>7, <2>1 DEF Upgrade, Reads, Serves
  <2>3. /\ item \in Item /\ history \in Item /\ <<item, history>> \in Seq(Item)
        /\ item.kind = "response" /\ history.kind # "response"
    BY DEF Item, TypeOK, GetHistory
  <2> HIDE DEF item, history
  <2>4. FramesAreLast(Written(d) \o <<item, history>>)
    BY <2>2, <2>3, WrittenType, ThenTheHistory DEF IInv, OthersHaveResponses
  <2>5. /\ myWebsocketEnabled'[d]
        /\ \A c \in Connections \ {d} : myWebsocketEnabled'[c] = myWebsocketEnabled[c]
    BY <2>2 DEF TypeOK
  <2>6. ListenersAreUpgraded'
    <3> onData \in Seq(Connections) /\ DOMAIN onData = 1..Len(onData)
      BY DEF TypeOK
    <3>1. \A i \in 1..Len(onData) : myWebsocketEnabled[onData[i]]
      BY Zenon DEF IInv, ListenersAreUpgraded
    <3>2. \A c \in Connections : myWebsocketEnabled[c] => myWebsocketEnabled'[c]
      BY <2>5
    <3>3. \A i \in 1..(Len(onData) + 1) :
             Append(onData, d)[i] = IF i = Len(onData) + 1 THEN d ELSE onData[i]
      BY <3>1
    <3>4. \A i \in 1..(Len(onData) + 1) : myWebsocketEnabled'[Append(onData, d)[i]]
      BY <2>5, <3>1, <3>2, <3>3
    <3>5. DOMAIN Append(onData, d) = 1..(Len(onData) + 1)
      BY <3>1
    <3>6. QED
      BY <2>2, <3>4, <3>5 DEF ListenersAreUpgraded
  <2>7. QED
    BY <2>2, <2>3, <2>4, <2>5, <2>6, AnswerInvariant
<1>8. CASE Frame
  <2> DEFINE item == [kind |-> "pong", messages |-> <<>>]
  <2>1. PICK d \in Connections : d = Client
    BY <1>8, ReadsType DEF Frame
  <2>2. /\ myWriteStream' = Response(d, <<item>>) \/ UNCHANGED myWriteStream
        /\ received' = received /\ myWebsocketEnabled[d]
        /\ UNCHANGED <<myWebsocketEnabled, onData>>
    BY <1>8, <2>1 DEF Frame, Reads
  <2>3. item \in Item /\ <<item>> \in Seq(Item) /\ item.kind # "response"
    BY DEF Item
  <2> HIDE DEF item
  <2>4. CASE UNCHANGED myWriteStream
    BY <2>2, <2>4, KeptInvariant DEF Written
  <2>5. CASE myWriteStream' = Response(d, <<item>>)
    <3>1. FramesAreLast(Written(d) \o <<item>>)
      BY <2>3, WrittenType, FrameBehind DEF IInv, SpeaksOneProtocol
    <3>2. ListenersAreUpgraded'
      BY <2>2 DEF IInv, ListenersAreUpgraded
    <3>3. QED
      BY <2>2, <2>3, <2>5, <3>1, <3>2, AnswerInvariant
  <2>6. QED
    BY <2>2, <2>4, <2>5
<1>9. CASE Returns
  BY <1>9, KeptInvariant DEF Returns, Written
<1>10. CASE UNCHANGED vars
  BY <1>10, KeptInvariant DEF vars, Written
<1>11. QED
  BY <1>1, <1>2, <1>3, <1>4, <1>5, <1>6, <1>7, <1>8, <1>9, <1>10 DEF Next, MainLoop

\* However many browsers there are and whatever they send: a connection speaks http
\* up to the response to its upgrade, and sends frames only from there on.
THEOREM OneProtocol == Spec => []SpeaksOneProtocol
<1>1. Init => IInv
  BY InitInvariant
<1>2. IInv /\ [Next]_vars => IInv'
  BY StepInvariant
<1>3. IInv => SpeaksOneProtocol
  BY DEF IInv
<1>4. QED
  BY <1>1, <1>2, <1>3, PTL DEF Spec

-----------------------------------------------------------------------------
(* Sequences that are put together *)

\* The least number that has a property, for the inductions below.
LEMMA LeastOf ==
  ASSUME NEW bad, bad \subseteq Nat, bad # {}
  PROVE  \E n \in bad : \A m \in bad : n <= m
<1>1. PICK n \in bad : \A m \in bad : <<m, n>> \notin OpToRel(<, Nat)
  BY NatLessThanWellFounded, WFMin, Zenon
<1>2. ASSUME NEW m \in bad PROVE n <= m
  <2>1. n \in Nat /\ m \in Nat
    OBVIOUS
  <2>2. ~(m < n)
    BY <1>1, <2>1, Zenon DEF OpToRel
  <2>3. QED
    BY <2>1, <2>2
<1>3. QED
  BY <1>2

\* FlattenSeq is defined by a recursive function; this is the function.
LEMMA FlattenFunction ==
  ASSUME NEW S, NEW ss \in Seq(Seq(S)), Len(ss) # 0
  PROVE  \E f : /\ f = [i \in 1..Len(ss) |-> IF i = 1 THEN ss[i] ELSE f[i - 1] \o ss[i]]
                /\ FlattenSeq(ss) = f[Len(ss)]
<1> DEFINE Good(n) == \E f : f = [i \in 1..n |-> IF i = 1 THEN ss[i] ELSE f[i - 1] \o ss[i]]
           Bad == {n \in Nat : ~Good(n)}
<1>1. Good(0)
  <2>1. [i \in 1..0 |-> 0] = [i \in 1..0 |-> IF i = 1 THEN ss[i] ELSE [j \in 1..0 |-> 0][i - 1] \o ss[i]]
    OBVIOUS
  <2>2. QED
    BY <2>1
<1>2. ASSUME NEW n \in Nat, Good(n) PROVE Good(n + 1)
  <2>1. PICK f : f = [i \in 1..n |-> IF i = 1 THEN ss[i] ELSE f[i - 1] \o ss[i]]
    BY <1>2
  <2> DEFINE g == [i \in 1..(n + 1) |-> IF i = 1 THEN ss[i] ELSE f[i - 1] \o ss[i]]
  <2>2. ASSUME NEW i \in 1..n PROVE g[i] = f[i]
    <3>1. f[i] = IF i = 1 THEN ss[i] ELSE f[i - 1] \o ss[i]
      BY <2>1
    <3>2. i \in 1..(n + 1)
      OBVIOUS
    <3> HIDE <2>1
    <3>3. QED
      BY <3>1, <3>2
  <2>3. ASSUME NEW i \in 1..(n + 1) PROVE g[i] = IF i = 1 THEN ss[i] ELSE g[i - 1] \o ss[i]
    <3>1. CASE i = 1
      BY <3>1
    <3>2. CASE i # 1
      <4>1. i - 1 \in 1..n
        BY <3>2
      <4>2. QED
        BY <2>2, <3>2, <4>1
    <3>3. QED
      BY <3>1, <3>2
  <2>4. g = [i \in 1..(n + 1) |-> IF i = 1 THEN ss[i] ELSE g[i - 1] \o ss[i]]
    BY <2>3
  <2>5. QED
    BY <2>4
<1>3. Good(Len(ss))
  <2> HIDE DEF Good
  <2>1. Len(ss) \in Nat
    OBVIOUS
  <2>2. SUFFICES ASSUME ~Good(Len(ss)) PROVE FALSE
    OBVIOUS
  <2>3. Bad # {} /\ Bad \subseteq Nat
    BY <2>1, <2>2
  <2>4. PICK n \in Bad : \A m \in Bad : n <= m
    BY <2>3, LeastOf
  <2>5. n \in Nat /\ ~Good(n)
    BY <2>4
  <2>6. n # 0
    BY <1>1, <2>5
  <2>7. n - 1 \in Nat /\ ~(n <= n - 1)
    BY <2>5, <2>6
  <2>8. Good(n - 1)
    BY <2>4, <2>7
  <2>9. Good((n - 1) + 1)
    BY <1>2, <2>7, <2>8
  <2>10. (n - 1) + 1 = n
    BY <2>5
  <2>11. QED
    BY <2>5, <2>9, <2>10
<1> DEFINE flatten == CHOOSE f : f = [i \in 1..Len(ss) |-> IF i = 1 THEN ss[i] ELSE f[i - 1] \o ss[i]]
<1>4. flatten = [i \in 1..Len(ss) |-> IF i = 1 THEN ss[i] ELSE flatten[i - 1] \o ss[i]]
  BY <1>3
<1>5. FlattenSeq(ss) = flatten[Len(ss)]
  BY DEF FlattenSeq
<1>6. QED
  BY <1>4, <1>5

LEMMA FlattenSteps ==
  ASSUME NEW S, NEW ss \in Seq(Seq(S)),
         NEW f, f = [i \in 1..Len(ss) |-> IF i = 1 THEN ss[i] ELSE f[i - 1] \o ss[i]]
  PROVE  \A i \in 1..Len(ss) : f[i] = IF i = 1 THEN ss[i] ELSE f[i - 1] \o ss[i]
OBVIOUS

LEMMA FlattenEmpty ==
  ASSUME NEW S, NEW ss \in Seq(Seq(S)), Len(ss) = 0
  PROVE  FlattenSeq(ss) = <<>>
BY DEF FlattenSeq

LEMMA FlattenType ==
  ASSUME NEW S, NEW ss \in Seq(Seq(S))
  PROVE  FlattenSeq(ss) \in Seq(S)
<1>1. CASE Len(ss) = 0
  BY <1>1, FlattenEmpty, EmptySeq
<1>2. CASE Len(ss) # 0
  <2>1. PICK f : /\ f = [i \in 1..Len(ss) |-> IF i = 1 THEN ss[i] ELSE f[i - 1] \o ss[i]]
                 /\ FlattenSeq(ss) = f[Len(ss)]
    BY <1>2, FlattenFunction
  <2>2. \A i \in 1..Len(ss) : f[i] = IF i = 1 THEN ss[i] ELSE f[i - 1] \o ss[i]
    BY <2>1, FlattenSteps
  <2> HIDE <2>1
  <2> DEFINE Bad == {n \in Nat : n \in 1..Len(ss) /\ f[n] \notin Seq(S)}
  <2>3. ASSUME Bad # {} PROVE FALSE
    <3>1. PICK n \in Bad : \A m \in Bad : n <= m
      BY <2>3, LeastOf
    <3>2. n \in 1..Len(ss) /\ f[n] \notin Seq(S) /\ ss[n] \in Seq(S)
      BY <3>1
    <3>3. n # 1
      BY <2>2, <3>2
    <3>4. n - 1 \in 1..Len(ss) /\ n - 1 \in Nat /\ ~(n <= n - 1)
      BY <3>2, <3>3
    <3>5. f[n - 1] \in Seq(S)
      BY <3>1, <3>4
    <3>6. f[n] = f[n - 1] \o ss[n]
      BY <2>2, <3>2, <3>3
    <3>7. QED
      BY <3>2, <3>5, <3>6
  <2>4. Len(ss) \in 1..Len(ss) /\ Len(ss) \in Nat
    BY <1>2
  <2>5. f[Len(ss)] \in Seq(S)
    BY <2>3, <2>4
  <2>6. QED
    BY <2>1, <2>5
<1>3. QED
  BY <1>1, <1>2

\* One more sequence at the end.
LEMMA FlattenAppend ==
  ASSUME NEW S, NEW ss \in Seq(Seq(S)), NEW e \in Seq(S)
  PROVE  FlattenSeq(Append(ss, e)) = FlattenSeq(ss) \o e
<1> DEFINE n == Len(ss)
           all == Append(ss, e)
<1>0. /\ all \in Seq(Seq(S)) /\ Len(all) = n + 1 /\ n \in Nat /\ Len(all) # 0
      /\ all[n + 1] = e /\ \A i \in 1..n : all[i] = ss[i]
  OBVIOUS
<1> HIDE DEF all
<1>1. PICK g : /\ g = [i \in 1..Len(all) |-> IF i = 1 THEN all[i] ELSE g[i - 1] \o all[i]]
               /\ FlattenSeq(all) = g[Len(all)]
  BY <1>0, FlattenFunction
<1>2. \A i \in 1..(n + 1) : g[i] = IF i = 1 THEN all[i] ELSE g[i - 1] \o all[i]
  BY <1>0, <1>1, FlattenSteps
<1>3. CASE n = 0
  <2>1. g[1] = e
    BY <1>0, <1>2, <1>3
  <2>2. FlattenSeq(ss) = <<>>
    BY <1>3, FlattenEmpty
  <2>3. <<>> \o e = e
    OBVIOUS
  <2>4. QED
    BY <1>0, <1>1, <1>3, <2>1, <2>2, <2>3 DEF all
<1>4. CASE n # 0
  <2>1. PICK f : /\ f = [i \in 1..Len(ss) |-> IF i = 1 THEN ss[i] ELSE f[i - 1] \o ss[i]]
                 /\ FlattenSeq(ss) = f[Len(ss)]
    BY <1>4, FlattenFunction
  <2>2. \A i \in 1..n : f[i] = IF i = 1 THEN ss[i] ELSE f[i - 1] \o ss[i]
    BY <2>1, FlattenSteps
  <2> DEFINE Bad == {k \in Nat : k \in 1..n /\ f[k] # g[k]}
  <2>3. ASSUME Bad # {} PROVE FALSE
    <3>1. PICK k \in Bad : \A m \in Bad : k <= m
      BY <2>3, LeastOf
    <3>2. k \in 1..n /\ f[k] # g[k] /\ k \in 1..(n + 1) /\ all[k] = ss[k]
      BY <1>0, <3>1
    <3>3. k # 1
      BY <1>2, <2>2, <3>2
    <3>4. k - 1 \in 1..n /\ k - 1 \in Nat /\ ~(k <= k - 1)
      BY SMTT(30), <1>0, <3>2, <3>3
    <3>5. f[k - 1] = g[k - 1]
      BY <3>1, <3>4
    <3>6. QED
      BY <1>2, <2>2, <3>2, <3>3, <3>5
  <2>4. n \in 1..n /\ n \in Nat
    BY <1>0, <1>4
  <2>5. f[n] = g[n]
    BY <2>3, <2>4
  <2>6. n + 1 \in 1..(n + 1) /\ n + 1 # 1 /\ (n + 1) - 1 = n
    BY <1>0, <1>4
  <2>7. g[n + 1] = g[n] \o e
    BY <1>0, <1>2, <2>6
  <2>8. QED
    BY <1>0, <1>1, <2>1, <2>5, <2>7 DEF all
<1>5. QED
  BY <1>3, <1>4

\* In which order three sequences are put together makes no difference.
Regroups(first, middle, last) == (first \o middle) \o last = first \o (middle \o last)

LEMMA Regrouped ==
  ASSUME NEW S, NEW first \in Seq(S), NEW middle \in Seq(S), NEW last \in Seq(S)
  PROVE  Regroups(first, middle, last)
BY ConcatAssociative DEF Regroups

\* What two sequences are when they are put together.
IsJoined(j, s, t) ==
  /\ Len(j) = Len(s) + Len(t)
  /\ \A i \in 1..Len(s) : j[i] = s[i]
  /\ \A i \in 1..Len(t) : j[Len(s) + i] = t[i]

LEMMA JoinedIs ==
  ASSUME NEW S, NEW s \in Seq(S), NEW t \in Seq(S)
  PROVE  s \o t \in Seq(S) /\ IsJoined(s \o t, s, t)
<1>1. s \o t \in Seq(S) /\ Len(s \o t) = Len(s) + Len(t)
  BY ConcatProperties
<1>2. \A i \in 1..Len(s) : (s \o t)[i] = s[i]
  OBVIOUS
<1>3. \A i \in 1..Len(t) : (s \o t)[Len(s) + i] = t[i]
  OBVIOUS
<1>4. QED
  BY <1>1, <1>2, <1>3 DEF IsJoined

LEMMA SameJoined ==
  ASSUME NEW S, NEW s \in Seq(S), NEW t \in Seq(S), NEW j \in Seq(S), NEW k \in Seq(S),
         IsJoined(j, s, t), IsJoined(k, s, t)
  PROVE  j = k
<1>1. Len(j) = Len(s) + Len(t) /\ Len(k) = Len(s) + Len(t) /\ Len(s) \in Nat /\ Len(t) \in Nat
  BY DEF IsJoined
<1>2. ASSUME NEW i \in 1..Len(j) PROVE j[i] = k[i]
  <2>1. CASE i \in 1..Len(s)
    BY <2>1 DEF IsJoined
  <2>2. CASE i \notin 1..Len(s)
    <3>1. i - Len(s) \in 1..Len(t) /\ i = Len(s) + (i - Len(s))
      BY <1>1, <2>2
    <3>2. PICK m \in 1..Len(t) : i = Len(s) + m
      BY <3>1
    <3>3. QED
      BY <3>2 DEF IsJoined
  <2>3. QED
    BY <2>1, <2>2
<1>3. QED
  BY <1>1, <1>2, SeqEqual

LEMMA FlattenConcat ==
  ASSUME NEW S, NEW s \in Seq(Seq(S)), NEW t \in Seq(Seq(S))
  PROVE  FlattenSeq(s \o t) = FlattenSeq(s) \o FlattenSeq(t)
<1> DEFINE Holds(n) == \A u \in Seq(Seq(S)) : Len(u) = n => FlattenSeq(s \o u) = FlattenSeq(s) \o FlattenSeq(u)
           Bad == {n \in Nat : ~Holds(n)}
<1>1. FlattenSeq(s) \in Seq(S)
  BY FlattenType
<1>2. Holds(0)
  <2> SUFFICES ASSUME NEW u \in Seq(Seq(S)), Len(u) = 0
               PROVE  FlattenSeq(s \o u) = FlattenSeq(s) \o FlattenSeq(u)
    OBVIOUS
  <2>1. u = <<>>
    OBVIOUS
  <2>4. FlattenSeq(u) = <<>>
    BY FlattenEmpty
  <2>2. s \o <<>> = s /\ FlattenSeq(s) \o <<>> = FlattenSeq(s)
    BY <1>1, ConcatEmptySeq
  <2>3. QED
    BY <2>1, <2>2, <2>4
<1>3. ASSUME NEW n \in Nat, Holds(n) PROVE Holds(n + 1)
  <2> SUFFICES ASSUME NEW u \in Seq(Seq(S)), Len(u) = n + 1
               PROVE  FlattenSeq(s \o u) = FlattenSeq(s) \o FlattenSeq(u)
    OBVIOUS
  <2> DEFINE v == SubSeq(u, 1, n)
             e == u[n + 1]
  <2>1. v \in Seq(Seq(S)) /\ Len(v) = n /\ e \in Seq(S) /\ u = Append(v, e)
    OBVIOUS
  <2> HIDE DEF v, e
  <2>2. FlattenSeq(s \o v) = FlattenSeq(s) \o FlattenSeq(v) /\ FlattenSeq(v) \in Seq(S)
    BY <1>3, <2>1, FlattenType
  <2>3. s \o Append(v, e) = Append(s \o v, e) /\ s \o v \in Seq(Seq(S))
    BY <2>1
  <2>4. FlattenSeq(Append(s \o v, e)) = FlattenSeq(s \o v) \o e
    BY <2>1, <2>3, FlattenAppend
  <2>5. FlattenSeq(Append(v, e)) = FlattenSeq(v) \o e
    BY <2>1, FlattenAppend
  <2>6. (FlattenSeq(s) \o FlattenSeq(v)) \o e = FlattenSeq(s) \o (FlattenSeq(v) \o e)
    <3>1. Regroups(FlattenSeq(s), FlattenSeq(v), e)
      BY <1>1, <2>1, <2>2, Regrouped
    <3>2. QED
      BY <3>1, Zenon DEF Regroups
  <2>7. QED
    BY <2>1, <2>2, <2>3, <2>4, <2>5, <2>6, Zenon
<1> HIDE DEF Holds
<1>4. ASSUME Bad # {} PROVE FALSE
  <2>1. PICK n \in Bad : \A m \in Bad : n <= m
    BY <1>4, LeastOf
  <2>2. n \in Nat /\ ~Holds(n) /\ n # 0
    BY <1>2, <2>1
  <2>3. n - 1 \in Nat /\ ~(n <= n - 1) /\ (n - 1) + 1 = n
    BY <2>2
  <2>4. Holds(n - 1)
    BY <2>1, <2>3
  <2>5. Holds((n - 1) + 1)
    BY <1>3, <2>3, <2>4
  <2>6. QED
    BY <2>2, <2>3, <2>5
<1>5. Len(t) \in Nat
  OBVIOUS
<1>6. Holds(Len(t))
  BY <1>4, <1>5
<1>7. QED
  BY <1>6 DEF Holds

-----------------------------------------------------------------------------
(* The conversation *)

\* The messages that items of a write stream carry.
Messages(items) == FlattenSeq([i \in DOMAIN items |-> items[i].messages])

LEMMA MessagesType ==
  ASSUME NEW items \in Seq(Item)
  PROVE  /\ [i \in DOMAIN items |-> items[i].messages] \in Seq(Seq(Message))
         /\ Messages(items) \in Seq(Message)
<1>1. [i \in DOMAIN items |-> items[i].messages] \in Seq(Seq(Message))
  <2>1. DOMAIN items = 1..Len(items) /\ Len(items) \in Nat
    OBVIOUS
  <2>2. \A i \in 1..Len(items) : items[i].messages \in Seq(Message)
    <3>1. ASSUME NEW i \in 1..Len(items) PROVE items[i].messages \in Seq(Message)
      <4>1. items[i] \in Item
        OBVIOUS
      <4>2. QED
        BY <4>1 DEF Item
    <3>2. QED
      BY <3>1
  <2>3. QED
    BY <2>1, <2>2
<1>2. QED
  BY <1>1, FlattenType DEF Messages

\* Of items behind others they come behind theirs.
LEMMA MessagesOfMore ==
  ASSUME NEW r \in Seq(Item), NEW w \in Seq(Item)
  PROVE  Messages(r \o w) = Messages(r) \o Messages(w)
<1> DEFINE M(items) == [i \in DOMAIN items |-> items[i].messages]
           j == r \o w
<1>1. j \in Seq(Item) /\ IsJoined(j, r, w)
  BY JoinedIs
<1> HIDE DEF j
<1>2. ASSUME NEW items \in Seq(Item)
      PROVE  /\ M(items) \in Seq(Seq(Message)) /\ Len(M(items)) = Len(items)
             /\ \A i \in 1..Len(items) : M(items)[i] = items[i].messages
  <2>1. M(items) \in Seq(Seq(Message))
    BY MessagesType
  <2>2. QED
    BY <2>1
<1> DEFINE a == M(r)
           b == M(w)
           all == M(j)
<1>3. a \in Seq(Seq(Message)) /\ b \in Seq(Seq(Message)) /\ all \in Seq(Seq(Message))
  BY <1>1, <1>2
<1>4. /\ Len(a) = Len(r) /\ \A i \in 1..Len(r) : a[i] = r[i].messages
      /\ Len(b) = Len(w) /\ \A i \in 1..Len(w) : b[i] = w[i].messages
      /\ Len(all) = Len(j) /\ \A i \in 1..Len(j) : all[i] = j[i].messages
  BY <1>1, <1>2
<1> HIDE DEF M, a, b, all
<1>5. IsJoined(all, a, b)
  <2>1. Len(j) = Len(r) + Len(w) /\ Len(r) \in Nat /\ Len(w) \in Nat
    BY <1>1 DEF IsJoined
  <2>2. \A i \in 1..Len(r) : all[i] = a[i]
    <3>1. \A i \in 1..Len(r) : i \in 1..Len(j) /\ j[i] = r[i]
      <4>1. \A i \in 1..Len(r) : i \in 1..Len(j)
        BY <2>1
      <4>2. QED
        BY <1>1, <4>1 DEF IsJoined
    <3>2. QED
      BY <1>4, <3>1
  <2>3. \A i \in 1..Len(w) : all[Len(r) + i] = b[i]
    <3>1. \A i \in 1..Len(w) : Len(r) + i \in 1..Len(j) /\ j[Len(r) + i] = w[i]
      BY <1>1, <2>1 DEF IsJoined
    <3>2. QED
      BY <1>4, <3>1
  <2>4. QED
    BY <1>4, <2>1, <2>2, <2>3 DEF IsJoined
<1>6. all = a \o b
  <2> DEFINE c == a \o b
  <2>1. c \in Seq(Seq(Message)) /\ IsJoined(c, a, b)
    BY <1>3, JoinedIs
  <2> HIDE DEF c
  <2>2. all = c
    BY <1>3, <1>5, <2>1, SameJoined
  <2>3. QED
    BY <2>2 DEF c
<1>7. FlattenSeq(a \o b) = FlattenSeq(a) \o FlattenSeq(b)
  BY <1>3, FlattenConcat
<1>8. QED
  BY <1>6, <1>7, Zenon DEF Messages, M, a, b, all, j

LEMMA MessagesOfOne ==
  ASSUME NEW item \in Item
  PROVE  Messages(<<item>>) = item.messages
<1> DEFINE e == item.messages
           m == [i \in DOMAIN <<item>> |-> <<item>>[i].messages]
<1>1. e \in Seq(Message)
  BY DEF Item
<1>2. m = <<e>>
  OBVIOUS
<1> HIDE DEF e, m
<1>3. <<>> \in Seq(Seq(Message)) /\ <<e>> = Append(<<>>, e) /\ Len(<<>>) = 0
  OBVIOUS
<1>4. FlattenSeq(Append(<<>>, e)) = FlattenSeq(<<>>) \o e /\ FlattenSeq(<<>>) = <<>>
  BY <1>1, <1>3, FlattenAppend, FlattenEmpty
<1>5. <<>> \o e = e
  BY <1>1, ConcatEmptySeq
<1>6. QED
  BY <1>2, <1>3, <1>4, <1>5, Zenon DEF Messages, m, e

\* What was written to those who are told the news is the conversation, and to
\* the others nothing of it.
Conversation(c) == IF c \in Listeners THEN myMessages ELSE <<>>
AllIsTold == \A c \in Connections : Messages(Written(c)) = Conversation(c)

LEMMA ListenersType ==
  ASSUME TypeOK
  PROVE  Listeners \subseteq Connections
BY DEF TypeOK, Listeners, ToSet

\* A response and a pong say nothing.
LEMMA SilentItem ==
  ASSUME NEW items \in Seq(Item), NEW item \in Item, item.messages = <<>>
  PROVE  Messages(items \o <<item>>) = Messages(items)
<1>1. Messages(items \o <<item>>) = Messages(items) \o Messages(<<item>>)
  <2>1. <<item>> \in Seq(Item)
    OBVIOUS
  <2>2. QED
    BY <2>1, MessagesOfMore
<1>2. Messages(<<item>>) = <<>>
  BY MessagesOfOne
<1>3. Messages(items) \o <<>> = Messages(items)
  BY MessagesType, ConcatEmptySeq
<1>4. QED
  BY <1>1, <1>2, <1>3, Zenon

\* Nothing is said, to nobody new.
LEMMA NothingSaid ==
  ASSUME AllIsTold, UNCHANGED <<onData, myMessages>>,
         \A c \in Connections : Messages(Written(c)') = Messages(Written(c))
  PROVE  AllIsTold'
<1>1. \A c \in Connections : Conversation(c)' = Conversation(c)
  BY DEF Conversation, Listeners
<1>2. \A c \in Connections : Messages(Written(c))' = Messages(Written(c)')
  BY DEF Messages
<1>3. QED
  BY <1>1, <1>2 DEF AllIsTold

LEMMA SilentAnswer ==
  ASSUME TypeOK, AllIsTold, NEW d \in Connections, NEW item \in Item, item.messages = <<>>,
         myWriteStream' = Response(d, <<item>>), received' = received,
         UNCHANGED <<onData, myMessages>>
  PROVE  AllIsTold'
<1>1. <<item>> \in Seq(Item)
  OBVIOUS
<1>2. /\ Written(d)' = Written(d) \o <<item>>
      /\ \A c \in Connections \ {d} : Written(c)' = Written(c)
  BY <1>1, ResponseWritten
<1>3. Messages(Written(d) \o <<item>>) = Messages(Written(d))
  BY WrittenType, SilentItem
<1>4. \A c \in Connections : Messages(Written(c)') = Messages(Written(c))
  BY <1>2, <1>3
<1>5. QED
  BY <1>4, NothingSaid

LEMMA PostIsTold ==
  ASSUME IInv, AllIsTold, Post
  PROVE  AllIsTold'
<1> DEFINE m == FirstRequest.message
           news == [kind |-> "chat", messages |-> <<m>>]
           answer == [kind |-> "response", messages |-> <<>>]
<1>1. TypeOK /\ ~myWebsocketEnabled[Client] /\ Client \in Connections
  BY ReadsType DEF IInv, Post, Serves
<1>2. \A c \in Listeners : myWebsocketEnabled[c]
  BY DEF IInv, ListenersAreUpgraded, Listeners, ToSet
<1>3. /\ news \in Item /\ answer \in Item
      /\ Client \notin Listeners => Written(Client)' = Written(Client) \o <<answer>>
      /\ \A c \in Connections \ {Client} :
           Written(c)' = IF c \in Listeners THEN Written(c) \o <<news>> ELSE Written(c)
  BY <1>1, PostWritten
<1>4. Client' = Client /\ onData' = onData /\ myMessages' = Append(myMessages, m)
  BY DEF Post, Reads, Client
<1>5. m \in Message /\ myMessages \in Seq(Message)
  BY <1>1, ReadsType DEF Post, Request, TypeOK
<1>6. news.messages = <<m>> /\ answer.messages = <<>>
  OBVIOUS
<1> HIDE DEF news, answer, m
<1>7. PICK d \in Connections : d = Client
  BY <1>1
<1>8. d \notin Listeners /\ Written(d)' = Written(d) \o <<answer>>
  BY <1>1, <1>2, <1>3, <1>4, <1>7
<1>9. Listeners' = Listeners /\ myMessages' = myMessages \o <<m>>
  <2>1. Append(myMessages, m) = myMessages \o <<m>>
    BY <1>5, AppendIsConcat
  <2>2. QED
    BY <1>4, <2>1 DEF Listeners
<1>10. ASSUME NEW c \in Connections PROVE Messages(Written(c)') = IF c \in Listeners THEN myMessages' ELSE <<>>
  <2>1. Written(c) \in Seq(Item) /\ Messages(Written(c)) = IF c \in Listeners THEN myMessages ELSE <<>>
    BY <1>1, WrittenType DEF AllIsTold, Conversation
  <2>2. CASE c = d
    <3>1. Messages(Written(c) \o <<answer>>) = Messages(Written(c))
      BY <1>3, <1>6, <2>1, SilentItem
    <3>2. QED
      BY <1>8, <2>1, <2>2, <3>1
  <2>3. CASE c # d /\ c \in Listeners
    <3>1. Written(c)' = Written(c) \o <<news>>
      BY <1>3, <1>7, <2>3
    <3>2. <<news>> \in Seq(Item)
      BY <1>3
    <3>3. Messages(Written(c) \o <<news>>) = Messages(Written(c)) \o Messages(<<news>>)
      BY <2>1, <3>2, MessagesOfMore
    <3>4. Messages(<<news>>) = <<m>>
      BY <1>3, <1>6, MessagesOfOne
    <3>5. Messages(Written(c)) = myMessages
      BY <2>1, <2>3
    <3>6. Messages(Written(c)') = myMessages \o <<m>>
      BY <3>1, <3>3, <3>4, <3>5, Zenon
    <3>7. QED
      BY <1>9, <2>3, <3>6
  <2>4. CASE c # d /\ c \notin Listeners
    <3>1. Written(c)' = Written(c)
      BY <1>3, <1>7, <2>4
    <3>2. QED
      BY <2>1, <2>4, <3>1
  <2>5. QED
    BY <2>2, <2>3, <2>4
<1>11. \A c \in Connections : Messages(Written(c))' = Messages(Written(c)')
  BY DEF Messages
<1>12. QED
  BY <1>9, <1>10, <1>11 DEF AllIsTold, Conversation

\* Two items are the one behind the other.
LEMMA PairIs ==
  ASSUME NEW S, NEW a \in S, NEW b \in S
  PROVE  <<a, b>> = <<a>> \o <<b>>
<1> DEFINE pair == <<a, b>>
           joined == <<a>> \o <<b>>
<1>1. pair \in Seq(S) /\ Len(pair) = 2 /\ pair[1] = a /\ pair[2] = b
  OBVIOUS
<1>2. joined \in Seq(S) /\ Len(joined) = 2 /\ joined[1] = a /\ joined[2] = b
  OBVIOUS
<1> HIDE DEF pair, joined
<1>3. \A i \in 1..Len(pair) : pair[i] = joined[i]
  BY <1>1, <1>2
<1>4. pair = joined
  BY <1>1, <1>2, <1>3, SeqEqual
<1>5. QED
  BY <1>4 DEF pair, joined

\* Who joins is told all that was said before.
LEMMA UpgradeIsTold ==
  ASSUME IInv, AllIsTold, Upgrade
  PROVE  AllIsTold'
<1> DEFINE item == [kind |-> "response", messages |-> <<>>]
           history == [kind |-> "chat", messages |-> GetHistory(myMessages)]
<1>1. TypeOK
  BY DEF IInv
<1>2. PICK d \in Connections : d = Client
  BY <1>1, ReadsType DEF Upgrade
<1>3. /\ myWriteStream' = Response(d, <<item, history>>) /\ received' = received
      /\ ~myWebsocketEnabled[d] /\ onData' = Append(onData, d) /\ myMessages' = myMessages
  BY <1>2 DEF Upgrade, Reads, Serves
<1>4. /\ item \in Item /\ history \in Item
      /\ item.messages = <<>> /\ history.messages = myMessages
  BY <1>1 DEF Item, TypeOK, GetHistory
<1> HIDE DEF item, history
<1>5. <<item, history>> = <<item>> \o <<history>> /\ <<item>> \in Seq(Item) /\ <<history>> \in Seq(Item)
  <2>1. <<item>> \in Seq(Item)
    BY <1>4
  <2>2. <<history>> \in Seq(Item)
    BY <1>4
  <2>3. <<item, history>> = <<item>> \o <<history>>
    BY <1>4, PairIs
  <2>4. QED
    BY <2>1, <2>2, <2>3
<1>6. <<item, history>> \in Seq(Item)
  BY <1>4
<1>7. /\ Written(d)' = Written(d) \o <<item, history>>
      /\ \A c \in Connections \ {d} : Written(c)' = Written(c)
  BY <1>1, <1>3, <1>6, ResponseWritten
<1>8. d \notin Listeners
  BY <1>3 DEF IInv, ListenersAreUpgraded, Listeners, ToSet
<1>9. Listeners' = Listeners \cup {d}
  <2>1. onData \in Seq(Connections)
    BY <1>1 DEF TypeOK
  <2>2. ToSet(Append(onData, d)) = ToSet(onData) \cup {d}
    <3> DEFINE more == Append(onData, d)
    <3>1. /\ Len(onData) \in Nat /\ DOMAIN onData = 1..Len(onData) /\ DOMAIN more = 1..(Len(onData) + 1)
          /\ more[Len(onData) + 1] = d /\ \A i \in 1..Len(onData) : more[i] = onData[i]
      BY <2>1
    <3> HIDE DEF more
    <3>2. \A x : x \in ToSet(more) <=> \E i \in 1..(Len(onData) + 1) : x = more[i]
      BY <3>1 DEF ToSet
    <3>3. \A x : x \in ToSet(onData) <=> \E i \in 1..Len(onData) : x = onData[i]
      BY <3>1 DEF ToSet
    <3>4. \A i \in 1..(Len(onData) + 1) : i \in 1..Len(onData) \/ i = Len(onData) + 1
      BY <3>1
    <3>5. Len(onData) + 1 \in 1..(Len(onData) + 1) /\ \A i \in 1..Len(onData) : i \in 1..(Len(onData) + 1)
      BY <3>1
    <3>6. \A x : x \in ToSet(more) <=> x \in ToSet(onData) \/ x = d
      <4>1. ASSUME NEW x, x \in ToSet(more) PROVE x \in ToSet(onData) \/ x = d
        <5>1. PICK i \in 1..(Len(onData) + 1) : x = more[i]
          BY <3>2, <4>1, Zenon
        <5>2. CASE i \in 1..Len(onData)
          BY <3>1, <3>3, <5>1, <5>2, Zenon
        <5>3. CASE i = Len(onData) + 1
          BY <3>1, <5>1, <5>3, Zenon
        <5>4. QED
          BY <3>4, <5>2, <5>3, Zenon
      <4>2. ASSUME NEW x, x \in ToSet(onData) PROVE x \in ToSet(more)
        <5>1. PICK i \in 1..Len(onData) : x = onData[i]
          BY <3>3, <4>2, Zenon
        <5>2. i \in 1..(Len(onData) + 1) /\ x = more[i]
          BY <3>1, <3>5, <5>1, Zenon
        <5>3. QED
          BY <3>2, <5>2, Zenon
      <4>3. d \in ToSet(more)
        BY <3>1, <3>2, <3>5, Zenon
      <4>4. QED
        BY <4>1, <4>2, <4>3
    <3>7. QED
      BY <3>6 DEF more
  <2>3. QED
    BY <1>3, <2>2 DEF Listeners
<1>10. Messages(Written(d)') = myMessages
  <2> DEFINE w == Written(d)
             a == <<item>>
             b == <<history>>
  <2>1. w \in Seq(Item) /\ a \in Seq(Item) /\ b \in Seq(Item)
    BY <1>1, <1>5, WrittenType
  <2>2. Messages(w) = <<>>
    BY <1>8 DEF AllIsTold, Conversation
  <2>3. Messages(w \o a) = <<>>
    BY <1>4, <2>1, <2>2, SilentItem
  <2>4. Messages(b) = myMessages
    BY <1>4, MessagesOfOne
  <2>5. Written(d)' = w \o (a \o b)
    BY <1>5, <1>7, Zenon
  <2> HIDE DEF w, a, b
  <2>6. Regroups(w, a, b)
    BY <2>1, Regrouped
  <2>7. w \o a \in Seq(Item)
    BY <2>1, ConcatProperties
  <2>8. Messages((w \o a) \o b) = Messages(w \o a) \o Messages(b)
    BY <2>1, <2>7, MessagesOfMore
  <2>9. <<>> \o myMessages = myMessages
    BY <1>1, ConcatEmptySeq DEF TypeOK
  <2>10. QED
    BY <2>3, <2>4, <2>5, <2>6, <2>8, <2>9, Zenon DEF Regroups
<1>11. ASSUME NEW c \in Connections PROVE Messages(Written(c)') = Conversation(c)'
  <2>1. CASE c = d
    BY <1>3, <1>9, <1>10, <2>1 DEF Conversation
  <2>2. CASE c # d
    <3>1. Written(c)' = Written(c)
      BY <1>7, <2>2
    <3>2. Conversation(c)' = Conversation(c)
      BY <1>3, <1>9, <2>2 DEF Conversation
    <3>3. QED
      BY <3>1, <3>2 DEF AllIsTold
  <2>3. QED
    BY <2>1, <2>2
<1>12. \A c \in Connections : Messages(Written(c))' = Messages(Written(c)')
  BY DEF Messages
<1>13. QED
  BY <1>11, <1>12 DEF AllIsTold

\* What was said to whom, whatever step is taken.
LEMMA ToldInductive == IInv /\ AllIsTold /\ [Next]_vars => AllIsTold'
<1> SUFFICES ASSUME IInv, AllIsTold, [Next]_vars PROVE AllIsTold'
  OBVIOUS
<1> TypeOK
  BY DEF IInv
<1>1. CASE Accept
  BY <1>1, NothingSaid DEF Accept, Written
<1>2. CASE ListenFails
  BY <1>2, NothingSaid DEF ListenFails, Written
<1>3. CASE Update
  BY <1>3, NothingSaid, ClientType, SendKeepsWritten DEF Update
<1>4. CASE UpdateFails
  BY <1>4, NothingSaid, ClientType, SendKeepsWritten DEF UpdateFails
<1>5. CASE Respond
  <2> DEFINE item == [kind |-> "response", messages |-> <<>>]
  <2>1. PICK d \in Connections : d = Client
    BY <1>5, ReadsType DEF Respond
  <2>2. /\ myWriteStream' = Response(d, <<item>>) /\ received' = received
        /\ UNCHANGED <<onData, myMessages>>
    BY <1>5, <2>1 DEF Respond, Reads
  <2>3. item \in Item /\ item.messages = <<>>
    BY DEF Item
  <2> HIDE DEF item
  <2>4. QED
    BY <2>2, <2>3, SilentAnswer
<1>6. CASE Post
  BY <1>6, PostIsTold
<1>7. CASE Upgrade
  BY <1>7, UpgradeIsTold
<1>8. CASE Frame
  <2> DEFINE item == [kind |-> "pong", messages |-> <<>>]
  <2>1. PICK d \in Connections : d = Client
    BY <1>8, ReadsType DEF Frame
  <2>2. /\ myWriteStream' = Response(d, <<item>>) \/ UNCHANGED myWriteStream
        /\ received' = received /\ UNCHANGED <<onData, myMessages>>
    BY <1>8, <2>1 DEF Frame, Reads
  <2>3. item \in Item /\ item.messages = <<>>
    BY DEF Item
  <2> HIDE DEF item
  <2>4. CASE UNCHANGED myWriteStream
    BY <2>2, <2>4, NothingSaid DEF Written
  <2>5. CASE myWriteStream' = Response(d, <<item>>)
    BY <2>2, <2>3, <2>5, SilentAnswer
  <2>6. QED
    BY <2>2, <2>4, <2>5
<1>9. CASE Returns
  BY <1>9, NothingSaid DEF Returns, Written
<1>10. CASE UNCHANGED vars
  BY <1>10, NothingSaid DEF vars, Written
<1>11. QED
  BY <1>1, <1>2, <1>3, <1>4, <1>5, <1>6, <1>7, <1>8, <1>9, <1>10 DEF Next, MainLoop

LEMMA InitTold == Init => AllIsTold
<1> SUFFICES ASSUME Init PROVE AllIsTold
  OBVIOUS
<1>1. \A c \in Connections : Written(c) = <<>>
  BY DEF Init, Written
<1>2. Messages(<<>>) = <<>>
  <2> DEFINE m == [i \in DOMAIN <<>> |-> <<>>[i].messages]
  <2>1. m = <<>>
    OBVIOUS
  <2>2. Messages(<<>>) = FlattenSeq(m)
    BY DEF Messages
  <2> HIDE DEF m
  <2>3. m \in Seq(Seq(Message)) /\ Len(m) = 0
    BY <2>1
  <2>4. QED
    BY <2>2, <2>3, FlattenEmpty
<1>3. \A c \in Connections : Conversation(c) = <<>>
  BY DEF Init, Conversation
<1>4. QED
  BY <1>1, <1>2, <1>3 DEF AllIsTold

-----------------------------------------------------------------------------
(* What is seen is a beginning of the conversation *)

\* The front of a sequence is a beginning of it.
LEMMA FrontIs ==
  ASSUME NEW S, NEW a \in Seq(S), NEW b \in Seq(S), NEW log \in Seq(S), a \o b = log
  PROVE  Len(a) \in 0..Len(log) /\ a = SubSeq(log, 1, Len(a))
<1> DEFINE j == a \o b
<1>1. j \in Seq(S) /\ IsJoined(j, a, b)
  BY JoinedIs
<1> HIDE DEF j
<1>2. /\ Len(a) \in Nat /\ Len(b) \in Nat /\ Len(j) = Len(a) + Len(b)
  BY <1>1 DEF IsJoined
<1>3. \A i \in 1..Len(a) : i \in 1..Len(j) /\ j[i] = a[i]
  <2>1. \A i \in 1..Len(a) : i \in 1..Len(j)
    BY <1>2
  <2>2. QED
    BY <1>1, <2>1 DEF IsJoined
<1>4. Len(a) \in 0..Len(j)
  BY <1>2
<1> DEFINE front == SubSeq(j, 1, Len(a))
<1>5. front \in Seq(S) /\ Len(front) = Len(a) /\ \A i \in 1..Len(a) : front[i] = j[i]
  BY <1>1, <1>2, <1>4
<1> HIDE DEF front
<1>6. a = front
  <2>1. \A i \in 1..Len(a) : front[i] = a[i]
    BY <1>3, <1>5
  <2>2. QED
    BY <1>2, <1>5, <2>1, SeqEqual
<1>7. QED
  BY <1>4, <1>6 DEF front, j

\* Shown and Messages are the same of what was received.
LEMMA ShownIs == \A c \in Connections : Shown(c) = Messages(received[c])
BY DEF Shown, Messages

LEMMA ShownType ==
  ASSUME TypeOK, NEW c \in Connections
  PROVE  Shown(c) \in Seq(Message)
<1>1. received[c] \in Seq(Item)
  BY DEF TypeOK
<1>2. QED
  BY <1>1, MessagesType, ShownIs

\* A browser that has received more was shown what it had been and some more, and
\* all of it is from the beginning of the conversation.
LEMMA MoreShown ==
  ASSUME TypeOK, AllIsTold, NEW d \in Connections, HandleSend(d), TypeOK', AllIsTold',
         UNCHANGED myMessages
  PROVE  /\ Len(Shown(d)') \in Len(Shown(d))..Len(myMessages)
         /\ Shown(d)' = SubSeq(myMessages, 1, Len(Shown(d)'))
         /\ Len(Shown(d)') = Len(Shown(d)) => Shown(d)' = Shown(d)
         /\ \A c \in Connections \ {d} : Shown(c)' = Shown(c)
<1> PICK taken \in 0..Len(myWriteStream[d]) :
      received' = [received EXCEPT ![d] = @ \o SubSeq(myWriteStream[d], 1, taken)]
  BY DEF HandleSend
<1> DEFINE r == received[d]
           front == SubSeq(myWriteStream[d], 1, taken)
           a == Messages(r)
           b == Messages(front)
           rest == Messages(myWriteStream'[d])
           now == Messages(received'[d])
<1>1. /\ r \in Seq(Item) /\ front \in Seq(Item) /\ received' = [received EXCEPT ![d] = r \o front]
      /\ received'[d] \in Seq(Item) /\ myWriteStream'[d] \in Seq(Item)
  <2>1. r \in Seq(Item) /\ received'[d] \in Seq(Item) /\ myWriteStream'[d] \in Seq(Item)
    BY DEF TypeOK
  <2>2. myWriteStream[d] \in Seq(Item)
    BY DEF TypeOK
  <2>3. front \in Seq(Item)
    BY <2>2, TakenIsWritten, SubSeqProperties
  <2>4. QED
    BY <2>1, <2>3
<1>2. received'[d] = r \o front /\ \A c \in Connections \ {d} : received'[c] = received[c]
  BY <1>1 DEF TypeOK
<1>3. /\ a \in Seq(Message) /\ b \in Seq(Message) /\ rest \in Seq(Message) /\ now \in Seq(Message)
      /\ myMessages \in Seq(Message)
  BY <1>1, MessagesType DEF TypeOK
<1>4. now = a \o b
  BY <1>1, <1>2, MessagesOfMore
<1>5. now \o rest = Messages(Written(d)')
  BY <1>1, MessagesOfMore DEF Written
<1>6. Messages(Written(d)') \in {myMessages, <<>>}
  <2>1. Messages(Written(d))' = Conversation(d)'
    BY DEF AllIsTold
  <2>2. Conversation(d)' \in {myMessages, <<>>}
    BY DEF Conversation
  <2>3. Messages(Written(d))' = Messages(Written(d)')
    BY DEF Messages
  <2>4. QED
    BY <2>1, <2>2, <2>3
<1>7. Shown(d) = a /\ Shown(d)' = now
  BY ShownIs DEF Shown, Messages
<1>8. \A c \in Connections \ {d} : Shown(c)' = Shown(c)
  BY <1>2 DEF Shown
<1> HIDE DEF a, b, rest, now
<1>9. Len(now) = Len(a) + Len(b) /\ Len(a) \in Nat /\ Len(b) \in Nat /\ Len(myMessages) \in Nat
  BY <1>3, <1>4
<1>10. Len(now) \in 0..Len(myMessages) /\ now = SubSeq(myMessages, 1, Len(now))
  <2>1. CASE now \o rest = myMessages
    BY <1>3, <2>1, FrontIs
  <2>2. CASE now \o rest = <<>>
    <3>1. now = <<>>
      BY <1>3, <2>2
    <3>2. SubSeq(myMessages, 1, 0) = <<>>
      BY <1>3
    <3>3. QED
      BY <1>9, <3>1, <3>2
  <2>3. QED
    BY <1>5, <1>6, <2>1, <2>2
<1>11. Len(now) \in Len(a)..Len(myMessages)
  BY <1>9, <1>10
<1>12. ASSUME Len(now) = Len(a) PROVE now = a
  <2>1. b = <<>>
    BY <1>3, <1>9, <1>12
  <2>2. QED
    BY <1>3, <1>4, <2>1, ConcatEmptySeq
<1>13. QED
  BY <1>7, <1>8, <1>10, <1>11, <1>12

\* Where a browser is shown more, a member of the room sees more of the log.
LEMMA TakenIsSeen ==
  ASSUME IInv, AllIsTold, NEW d \in Connections, HandleSend(d), IInv', AllIsTold',
         UNCHANGED myMessages
  PROVE  [Room!Next]_(Room!vars)
<1> DEFINE seen == [c \in Connections |-> Shown(c)]
           now == [c \in Connections |-> Shown(c)']
           n == Len(Shown(d)')
<1>1. TypeOK /\ TypeOK'
  BY DEF IInv
<1>2. /\ n \in Len(Shown(d))..Len(myMessages)
      /\ Shown(d)' = SubSeq(myMessages, 1, n)
      /\ n = Len(Shown(d)) => Shown(d)' = Shown(d)
      /\ \A c \in Connections \ {d} : Shown(c)' = Shown(c)
  BY <1>1, MoreShown
<1>3. Len(Shown(d)) \in Nat /\ Len(myMessages) \in Nat
  BY SMTT(30), <1>1, ShownType DEF TypeOK
<1> HIDE DEF n
<1>4. CASE n = Len(Shown(d))
  <2>1. now = seen
    BY <1>2, <1>4
  <2>2. QED
    BY <2>1 DEF Room!vars
<1>5. CASE n # Len(Shown(d))
  <2>1. n \in (Len(Shown(d)) + 1)..Len(myMessages) /\ n \in 1..Len(myMessages)
    BY <1>2, <1>3, <1>5
  <2>2. now = [seen EXCEPT ![d] = SubSeq(myMessages, 1, n)]
    BY <1>2
  <2>3. Room!See(d, n)
    BY <2>1, <2>2 DEF Room!See
  <2>4. QED
    BY <2>1, <2>3 DEF Room!Next
<1>6. QED
  BY <1>4, <1>5

\* What is posted is said in the room; all else that is not sent by the kernel
\* changes nothing there.
LEMMA StepIsOfTheRoom ==
  ASSUME IInv, AllIsTold, [Next]_vars, IInv', AllIsTold'
  PROVE  [Room!Next]_(Room!vars)
<1> TypeOK
  BY DEF IInv
<1>1. ASSUME UNCHANGED <<received, myMessages>> PROVE [Room!Next]_(Room!vars)
  <2>1. [c \in Connections |-> Shown(c)'] = [c \in Connections |-> Shown(c)]
    BY <1>1 DEF Shown
  <2>2. QED
    BY <1>1, <2>1 DEF Room!vars
<1>2. ASSUME Update \/ UpdateFails PROVE [Room!Next]_(Room!vars)
  <2>1. PICK d \in Connections : d = Client
    BY <1>2, ClientType DEF Update, UpdateFails
  <2>2. HandleSend(d) /\ UNCHANGED myMessages
    BY <1>2, <2>1 DEF Update, UpdateFails
  <2>3. QED
    BY <2>2, TakenIsSeen
<1>3. CASE Post
  <2>1. FirstRequest.message \in Message
    BY <1>3, ReadsType DEF Post, Request
  <2>2. received' = received /\ myMessages' = Append(myMessages, FirstRequest.message)
    BY <1>3 DEF Post, Reads
  <2>3. [c \in Connections |-> Shown(c)'] = [c \in Connections |-> Shown(c)]
    BY <2>2 DEF Shown
  <2>4. Room!Post(FirstRequest.message)
    BY <2>2, <2>3 DEF Room!Post
  <2>5. QED
    BY <2>1, <2>4 DEF Room!Next
<1>4. ASSUME Accept \/ ListenFails \/ Respond \/ Upgrade \/ Frame \/ Returns \/ UNCHANGED vars
      PROVE  UNCHANGED <<received, myMessages>>
  BY <1>4 DEF Accept, ListenFails, Respond, Upgrade, Frame, Returns, Reads, vars
<1>5. QED
  BY <1>1, <1>2, <1>3, <1>4 DEF Next, MainLoop

LEMMA InitIsOfTheRoom == Init => Room!Init
<1> SUFFICES ASSUME Init PROVE Room!Init
  OBVIOUS
<1>1. ASSUME NEW c \in Connections PROVE Shown(c) = <<>>
  <2> DEFINE m == [i \in DOMAIN received[c] |-> received[c][i].messages]
  <2>1. m = <<>>
    BY DEF Init
  <2>2. Shown(c) = FlattenSeq(m)
    BY DEF Shown
  <2> HIDE DEF m
  <2>3. m \in Seq(Seq(Message)) /\ Len(m) = 0
    BY <2>1
  <2>4. QED
    BY <2>2, <2>3, FlattenEmpty
<1>2. [c \in Connections |-> Shown(c)] = [c \in Connections |-> <<>>]
  BY <1>1
<1>3. myMessages = <<>>
  BY DEF Init
<1>4. QED
  BY <1>2, <1>3 DEF Room!Init

\* However many browsers come, whenever they join and whatever the kernel takes at
\* a time: all of them see one conversation, each from its beginning, every message
\* once and in the order of the others.
THEOREM OneConversation == Spec => ImplementsChatRoom
<1>1. Init => IInv /\ AllIsTold /\ Room!Init
  BY InitInvariant, InitTold, InitIsOfTheRoom
<1>2. IInv /\ AllIsTold /\ [Next]_vars => IInv' /\ AllIsTold'
  BY StepInvariant, ToldInductive
<1>3. IInv /\ AllIsTold /\ [Next]_vars /\ IInv' /\ AllIsTold' => [Room!Next]_(Room!vars)
  BY StepIsOfTheRoom
<1>4. QED
  BY <1>1, <1>2, <1>3, PTL DEF Spec, ImplementsChatRoom, Room!Spec
================================================================================
