-------------------------- MODULE TCPListenSocketProofs --------------------------
(***************************************************************************)
(* Proofs about TCPListenSocket: every connection is waiting, gone or      *)
(* announced, once and in order, for any backlog, any number of            *)
(* descriptors and every set of errors, on both platforms.                 *)
(*                                                                         *)
(* What keeps a connection from being announced twice is the order: those  *)
(* that wait do so in their order, behind all that were announced.         *)
(***************************************************************************)
EXTENDS TCPListenSocket, FiniteSetTheorems, TLAPS

Real == {i \in 1..Len(announced) : announced[i] # Invalid}
Out == {announced[i] : i \in Real}
Waiting == Elements(backlog)

QueueType ==
  /\ arrived \in 0..MaxConnections /\ announced \in Seq(Int)
  /\ backlog \in Seq(1..arrived) /\ aborted \subseteq 1..arrived

WaitInOrder == \A i, j \in 1..Len(backlog) : i < j => backlog[i] < backlog[j]
WaitBehind == \A c \in Out, d \in Waiting : c < d
AnnouncedInOrder == \A i, j \in Real : i < j => announced[i] < announced[j]

InOnePlace ==
  /\ Out \cup Waiting \cup aborted = 1..arrived
  /\ Out \cap aborted = {} /\ Waiting \cap aborted = {}

IInv == QueueType /\ WaitInOrder /\ WaitBehind /\ AnnouncedInOrder /\ InOnePlace

-----------------------------------------------------------------------------
(* The backlog and the announcements as sequences *)

\* Who stands at the front is in front of all others.
LEMMA FrontOfTheQueue ==
  ASSUME NEW n \in Nat, NEW s \in Seq(1..n), s # <<>>,
         \A i, j \in 1..Len(s) : i < j => s[i] < s[j]
  PROVE  /\ Head(s) \in 1..n /\ Tail(s) \in Seq(1..n)
         /\ Elements(s) = {Head(s)} \cup Elements(Tail(s))
         /\ \A d \in Elements(Tail(s)) : Head(s) < d
         /\ \A i, j \in 1..Len(Tail(s)) : i < j => Tail(s)[i] < Tail(s)[j]
<1>1. /\ Len(s) \in Nat \ {0} /\ Head(s) = s[1] /\ s[1] \in 1..n
      /\ Tail(s) \in Seq(1..n) /\ Len(Tail(s)) = Len(s) - 1
      /\ \A i \in 1..(Len(s) - 1) : Tail(s)[i] = s[i + 1]
  OBVIOUS
<1>2. ASSUME NEW d \in Elements(Tail(s)) PROVE Head(s) < d /\ d \in Elements(s)
  <2>1. PICK i \in 1..(Len(s) - 1) : d = s[i + 1]
    BY <1>1 DEF Elements
  <2>2. i + 1 \in 1..Len(s) /\ 1 \in 1..Len(s) /\ 1 < i + 1
    BY <1>1
  <2>3. QED
    BY <1>1, <2>1, <2>2 DEF Elements
<1>3. ASSUME NEW d \in Elements(s), d # Head(s) PROVE d \in Elements(Tail(s))
  <2>1. PICK i \in 1..Len(s) : d = s[i]
    BY DEF Elements
  <2>2. i # 1 /\ i - 1 \in 1..(Len(s) - 1) /\ (i - 1) + 1 = i
    BY <1>1, <1>3, <2>1
  <2>3. Tail(s)[i - 1] = d
    BY <1>1, <2>1, <2>2
  <2>4. QED
    BY <1>1, <2>2, <2>3 DEF Elements
<1>4. Head(s) \in Elements(s)
  BY <1>1 DEF Elements
<1>5. ASSUME NEW i \in 1..Len(Tail(s)), NEW j \in 1..Len(Tail(s)), i < j
      PROVE  Tail(s)[i] < Tail(s)[j]
  <2>1. i + 1 \in 1..Len(s) /\ j + 1 \in 1..Len(s) /\ i + 1 < j + 1
    BY <1>1, <1>5
  <2>2. QED
    BY <1>1, <1>5, <2>1
<1>6. QED
  BY <1>1, <1>2, <1>3, <1>4, <1>5

\* Who comes last stands behind all others.
LEMMA ElementsOfAppend ==
  ASSUME NEW S, NEW s \in Seq(S), NEW d \in S
  PROVE  Elements(Append(s, d)) = Elements(s) \cup {d}
<1>1. /\ Len(s) \in Nat /\ Len(Append(s, d)) = Len(s) + 1
      /\ \A i \in 1..Len(s) : Append(s, d)[i] = s[i]
      /\ Append(s, d)[Len(s) + 1] = d
  OBVIOUS
<1>2. \A i \in 1..(Len(s) + 1) : i \in 1..Len(s) \/ i = Len(s) + 1
  BY <1>1
<1>3. QED
  BY <1>1, <1>2 DEF Elements

-----------------------------------------------------------------------------

LEMMA InitInvariant == Init => IInv
<1> SUFFICES ASSUME Init PROVE IInv
  OBVIOUS
<1>1. 1..0 = {} /\ 0 \in 0..MaxConnections
  BY TCPListenSocketAssumption DEF TCPListenSocketAssumption
<1>2. QueueType
  BY <1>1 DEF Init, QueueType
<1>3. Out = {} /\ Waiting = {} /\ Real = {}
  BY <1>1 DEF Init, Out, Real, Waiting, Elements
<1>4. QED
  BY <1>1, <1>2, <1>3
     DEF Init, IInv, WaitInOrder, WaitBehind, AnnouncedInOrder, InOnePlace

\* What stays as it was.
LEMMA KeptInvariant ==
  ASSUME IInv, UNCHANGED <<announced, arrived, backlog, aborted>>
  PROVE  IInv'
BY DEF IInv, QueueType, WaitInOrder, WaitBehind, AnnouncedInOrder, InOnePlace, Out, Real, Waiting

\* What accept announces is the front of the backlog.
LEMMA AnnounceInvariant ==
  ASSUME IInv, AcceptNext
  PROVE  IInv'
<1> DEFINE h == Head(backlog)
<1>1. /\ announced' = Append(announced, h) /\ backlog' = Tail(backlog)
      /\ arrived' = arrived /\ aborted' = aborted /\ backlog # <<>>
  BY DEF AcceptNext, Accepted
<1>2. arrived \in Nat /\ announced \in Seq(Int) /\ backlog \in Seq(1..arrived)
  BY TCPListenSocketAssumption DEF TCPListenSocketAssumption, IInv, QueueType
<1>3. /\ h \in 1..arrived /\ Tail(backlog) \in Seq(1..arrived)
      /\ Waiting = {h} \cup Waiting' /\ \A d \in Waiting' : h < d
      /\ WaitInOrder'
  BY <1>1, <1>2, FrontOfTheQueue DEF IInv, WaitInOrder, Waiting
<1> HIDE DEF h
<1>4. h \in Int /\ h # Invalid
  BY <1>3 DEF Invalid
<1>5. /\ Len(announced) \in Nat /\ Len(announced') = Len(announced) + 1
      /\ \A i \in 1..Len(announced) : announced'[i] = announced[i]
      /\ announced'[Len(announced) + 1] = h /\ announced' \in Seq(Int)
  BY <1>1, <1>2, <1>4
<1>6. /\ Real' = Real \cup {Len(announced) + 1}
      /\ \A i \in Real : i \in 1..Len(announced)
  BY <1>4, <1>5 DEF Real
<1>7. Out' = Out \cup {h}
  BY <1>5, <1>6 DEF Out
<1>8. QueueType'
  BY <1>1, <1>3, <1>5 DEF IInv, QueueType
<1>9. InOnePlace'
  BY <1>1, <1>3, <1>7 DEF IInv, InOnePlace
<1>10. WaitBehind'
  BY <1>3, <1>7 DEF IInv, WaitBehind
<1>11. AnnouncedInOrder'
  <2> SUFFICES ASSUME NEW i \in Real', NEW j \in Real', i < j
               PROVE  announced'[i] < announced'[j]
    BY DEF AnnouncedInOrder
  <2>1. i \in Real /\ i \in 1..Len(announced)
    BY <1>5, <1>6
  <2>2. CASE j \in Real
    BY <1>5, <1>6, <2>1, <2>2 DEF IInv, AnnouncedInOrder
  <2>3. CASE j = Len(announced) + 1
    <3>1. announced[i] \in Out /\ h \in Waiting
      BY <1>3, <2>1 DEF Out
    <3>2. QED
      BY <1>5, <2>1, <2>3, <3>1 DEF IInv, WaitBehind
  <2>4. QED
    BY <1>6, <2>2, <2>3
<1>12. QED
  BY <1>3, <1>8, <1>9, <1>10, <1>11 DEF IInv

\* The connection at the front of the backlog has gone.
LEMMA AbortInvariant ==
  ASSUME IInv, backlog # <<>>, UNCHANGED <<announced, arrived>>,
         aborted' = aborted \cup {Head(backlog)}, backlog' = Tail(backlog)
  PROVE  IInv'
<1> DEFINE h == Head(backlog)
<1>1. arrived \in Nat /\ backlog \in Seq(1..arrived)
  BY TCPListenSocketAssumption DEF TCPListenSocketAssumption, IInv, QueueType
<1>2. /\ h \in 1..arrived /\ Tail(backlog) \in Seq(1..arrived)
      /\ Waiting = {h} \cup Waiting' /\ \A d \in Waiting' : h < d
      /\ WaitInOrder'
  BY <1>1, FrontOfTheQueue DEF IInv, WaitInOrder, Waiting
<1>3. Out' = Out /\ Real' = Real
  BY DEF Out, Real
<1>4. aborted' = aborted \cup {h}
  OBVIOUS
<1> HIDE DEF h
<1>5. QueueType'
  BY <1>2, <1>4 DEF IInv, QueueType
<1>6. h \notin Out /\ h \notin Waiting'
  BY <1>2 DEF IInv, WaitBehind
<1>7. InOnePlace'
  BY <1>2, <1>3, <1>4, <1>6 DEF IInv, InOnePlace
<1>8. WaitBehind' /\ AnnouncedInOrder'
  BY <1>2, <1>3 DEF IInv, WaitBehind, AnnouncedInOrder
<1>9. QED
  BY <1>2, <1>5, <1>7, <1>8 DEF IInv

\* An invalid descriptor is announced, and is no connection.
LEMMA UnlistedInvariant ==
  ASSUME IInv, AcceptUnlisted
  PROVE  IInv'
<1>1. /\ announced' = Append(announced, Invalid) /\ announced \in Seq(Int) /\ Invalid \in Int
      /\ UNCHANGED <<arrived, backlog, aborted>>
  BY DEF AcceptUnlisted, IInv, QueueType, Invalid
<1>2. /\ Len(announced) \in Nat /\ Len(announced') = Len(announced) + 1
      /\ \A i \in 1..Len(announced) : announced'[i] = announced[i]
      /\ announced'[Len(announced) + 1] = Invalid /\ announced' \in Seq(Int)
  BY <1>1
<1>3. Real' = Real /\ \A i \in Real : i \in 1..Len(announced)
  BY <1>2 DEF Real
<1>4. Out' = Out
  BY <1>2, <1>3 DEF Out
<1>5. QueueType' /\ WaitInOrder'
  BY <1>1, <1>2 DEF IInv, QueueType, WaitInOrder
<1>6. WaitBehind' /\ InOnePlace'
  BY <1>1, <1>4 DEF IInv, WaitBehind, InOnePlace, Waiting
<1>7. AnnouncedInOrder'
  BY <1>2, <1>3 DEF IInv, AnnouncedInOrder
<1>8. QED
  BY <1>5, <1>6, <1>7 DEF IInv

\* Who connects is the last that waits.
LEMMA ConnectInvariant ==
  ASSUME IInv, Connect
  PROVE  IInv'
<1>1. /\ arrived < MaxConnections /\ arrived' = arrived + 1
      /\ backlog' = Append(backlog, arrived + 1)
      /\ announced' = announced /\ aborted' = aborted
  BY DEF Connect
<1>2. MaxConnections \in Nat
  BY TCPListenSocketAssumption DEF TCPListenSocketAssumption
<1>3. /\ arrived \in Nat /\ arrived + 1 \in 0..MaxConnections /\ 1..arrived \subseteq 1..(arrived + 1)
      /\ 1..(arrived + 1) = 1..arrived \cup {arrived + 1} /\ arrived + 1 \in Nat
  BY <1>1, <1>2 DEF IInv, QueueType
<1>4. backlog \in Seq(1..arrived)
  BY DEF IInv, QueueType
<1>5. backlog \in Seq(1..(arrived + 1)) /\ backlog' \in Seq(1..(arrived + 1))
  BY <1>1, <1>3, <1>4
<1>6. Waiting' = Waiting \cup {arrived + 1}
  BY <1>1, <1>3, <1>5, ElementsOfAppend DEF Waiting
<1>7. Out' = Out /\ Real' = Real
  BY <1>1 DEF Out, Real
<1>8. \A c \in Out \cup Waiting \cup aborted : c \in 1..arrived
  BY DEF IInv, InOnePlace
<1>9. QueueType'
  BY <1>1, <1>3, <1>5 DEF IInv, QueueType
<1>10. WaitInOrder'
  <2>1. /\ Len(backlog) \in Nat /\ Len(backlog') = Len(backlog) + 1
        /\ \A i \in 1..Len(backlog) : backlog'[i] = backlog[i]
        /\ backlog'[Len(backlog) + 1] = arrived + 1
    BY <1>1, <1>3, <1>5
  <2>2. \A i \in 1..Len(backlog) : backlog[i] \in 1..arrived
    BY <1>8 DEF Waiting, Elements
  <2>3. QED
    BY SMTT(30), <1>3, <2>1, <2>2 DEF IInv, WaitInOrder
<1>11. WaitBehind'
  BY <1>3, <1>6, <1>7, <1>8 DEF IInv, WaitBehind
<1>12. AnnouncedInOrder'
  BY <1>1, <1>7 DEF IInv, AnnouncedInOrder
<1>13. arrived + 1 \notin Out \cup Waiting \cup aborted
  BY <1>3, <1>8
<1>14. InOnePlace'
  BY <1>1, <1>3, <1>6, <1>7, <1>13 DEF IInv, InOnePlace
<1>15. QED
  BY <1>9, <1>10, <1>11, <1>12, <1>14 DEF IInv

LEMMA StepInvariant == IInv /\ [Next]_vars => IInv'
<1> SUFFICES ASSUME IInv, [Next]_vars PROVE IInv'
  OBVIOUS
<1>1. CASE AcceptNext
  BY <1>1, AnnounceInvariant
<1>2. CASE AcceptAborted \/ AcceptResetIsTheEnd
  BY <1>2, AbortInvariant DEF AcceptAborted, AcceptResetIsTheEnd, Accepted
<1>3. CASE AcceptUnlisted
  BY <1>3, UnlistedInvariant
<1>4. CASE Connect
  BY <1>4, ConnectInvariant
<1>5. CASE Update \/ \E c \in open : Discard(c)
  BY <1>5, KeptInvariant DEF Update, Discard
<1>6. CASE AcceptAgain \/ AcceptFull \/ AcceptFullIsTheEnd \/ AcceptNoBuffers \/ AcceptFails
  BY <1>6, KeptInvariant
     DEF AcceptAgain, AcceptFull, AcceptFullIsTheEnd, AcceptNoBuffers, AcceptFails
<1>7. CASE UNCHANGED vars
  BY <1>7, KeptInvariant DEF vars
<1>8. QED
  BY <1>1, <1>2, <1>3, <1>4, <1>5, <1>6, <1>7 DEF Next, Accept

\* The places do not overlap: who waits stands behind all that were announced.
LEMMA PlacesAreApart ==
  ASSUME IInv
  PROVE  EachConnectionOnce
<1>1. \A c \in Out : c \in Int
  BY TCPListenSocketAssumption DEF IInv, InOnePlace
<1>2. Out \cap Waiting = {}
  BY <1>1 DEF IInv, WaitBehind
<1>3. QED
  BY <1>2 DEF IInv, InOnePlace, AnnouncedInOrder, EachConnectionOnce, Out, Real, Waiting

\* Whatever accept reports, on either platform: each connection waits, is gone, or
\* was announced, in one of these places only, and the announcements keep the order
\* of arrival.
THEOREM ConnectionsOnce == Spec => []EachConnectionOnce
<1>1. Init => IInv
  BY InitInvariant
<1>2. IInv /\ [Next]_vars => IInv'
  BY StepInvariant
<1>3. IInv => EachConnectionOnce
  BY PlacesAreApart
<1>4. QED
  BY <1>1, <1>2, <1>3, PTL DEF Spec
================================================================================
