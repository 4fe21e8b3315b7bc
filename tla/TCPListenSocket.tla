---------------------------- MODULE TCPListenSocket ----------------------------
(***************************************************************************)
(* tools/net/LinuxTCPListenSocket.cpp and WinTCPListenSocket.cpp: a        *)
(* non-blocking listening socket whose owner polls Update, and the         *)
(* kernel's backlog in front of it.  One step is one accept.  The n-th     *)
(* connection of the kernel is the number n.                               *)
(***************************************************************************)
EXTENDS Integers, Sequences, FiniteSets

CONSTANTS Backlog,         \* external: connections the kernel keeps waiting
          Descriptors,     \* external: descriptors left to the process
          MaxConnections,  \* bound: connections in a behaviour
          Faults,          \* external: the errors accept may report
          Platforms        \* what the program may be built for

ErrorNames == {"ECONNABORTED", "EINTR", "ENFILE", "ENOBUFS"}

ASSUME TCPListenSocketAssumption ==
  /\ Backlog \in Nat \ {0}
  /\ Descriptors \in Nat \ {0}
  /\ MaxConnections \in Nat
  /\ Faults \subseteq ErrorNames
  /\ Platforms \subseteq {"linux", "windows"}

\* What accept returns for an error.
Invalid == -1

VARIABLES platform,  \* what this one is built for
          pc,        \* whether Update is running
          useful,    \* what the last Update returned
          announced, \* the sockets OnNewConnection was fired with
          open,      \* those whose owner still holds them
          arrived,   \* external: connections so far
          backlog,   \* external: those that wait
          aborted    \* external: those that went away while they waited

vars == <<platform, pc, useful, announced, open, arrived, backlog, aborted>>

Init ==
  /\ platform \in Platforms
  /\ pc = "idle" /\ useful = TRUE
  /\ announced = <<>> /\ open = {}
  /\ arrived = 0 /\ backlog = <<>> /\ aborted = {}

Update ==
  /\ pc = "idle" /\ useful
  /\ pc' = "accept"
  /\ UNCHANGED <<platform, useful, announced, open, arrived, backlog, aborted>>

Return(result) == pc' = "idle" /\ useful' = result

\* Faulty variant, for mutation: the rest of the backlog is dropped with it.
AcceptedDropsRest == backlog' = <<>>

\* The connection leaves the backlog.
Accepted == backlog' = Tail(backlog)

\* A connection waits and a descriptor is left: OnNewConnection is fired.
AcceptNext ==
  /\ pc = "accept"
  /\ backlog # <<>> /\ Cardinality(open) < Descriptors
  /\ announced' = Append(announced, Head(backlog))
  /\ open' = open \cup {Head(backlog)}
  /\ Accepted
  /\ UNCHANGED <<platform, pc, useful, arrived, aborted>>

\* EAGAIN: nobody waits.
AcceptAgain ==
  /\ pc = "accept"
  /\ backlog = <<>>
  /\ Return(TRUE)
  /\ UNCHANGED <<platform, announced, open, arrived, backlog, aborted>>

\* EMFILE: the connection goes on waiting.
AcceptFull ==
  /\ pc = "accept" /\ platform = "linux"
  /\ backlog # <<>> /\ Cardinality(open) >= Descriptors
  /\ Return(TRUE)
  /\ UNCHANGED <<platform, announced, open, arrived, backlog, aborted>>

\* WSAEMFILE: the connection goes on waiting, but Update returns false.
AcceptFullIsTheEnd ==
  /\ pc = "accept" /\ platform = "windows"
  /\ backlog # <<>> /\ Cardinality(open) >= Descriptors
  /\ Return(FALSE)
  /\ UNCHANGED <<platform, announced, open, arrived, backlog, aborted>>

\* WSAENOBUFS: the connection goes on waiting.
AcceptNoBuffers ==
  /\ pc = "accept" /\ platform = "windows" /\ "ENOBUFS" \in Faults
  /\ backlog # <<>>
  /\ Return(TRUE)
  /\ UNCHANGED <<platform, announced, open, arrived, backlog, aborted>>

\* WSAECONNRESET: the connection at the front has gone, and Update returns false.
AcceptResetIsTheEnd ==
  /\ pc = "accept" /\ platform = "windows" /\ "ECONNABORTED" \in Faults
  /\ backlog # <<>>
  /\ aborted' = aborted \cup {Head(backlog)}
  /\ Accepted
  /\ Return(FALSE)
  /\ UNCHANGED <<platform, announced, open, arrived>>

\* ECONNABORTED: the connection at the front has gone.
AcceptAborted ==
  /\ pc = "accept" /\ platform = "linux" /\ "ECONNABORTED" \in Faults
  /\ backlog # <<>>
  /\ aborted' = aborted \cup {Head(backlog)}
  /\ Accepted
  /\ Return(TRUE)
  /\ UNCHANGED <<platform, announced, open, arrived>>

\* EINTR (and ENOMEM, EPERM, ECONNRESET), WSAEINTR and WSAENETDOWN: Update
\* returns false.
AcceptFails ==
  /\ pc = "accept" /\ "EINTR" \in Faults
  /\ Return(FALSE)
  /\ UNCHANGED <<platform, announced, open, arrived, backlog, aborted>>

\* An error the switch does not list (the one for Windows lists them all): the
\* invalid descriptor is announced and the loop goes on.
AcceptUnlisted ==
  /\ pc = "accept" /\ platform = "linux" /\ "ENFILE" \in Faults
  /\ backlog # <<>>
  /\ Len(announced) < MaxConnections
  /\ announced' = Append(announced, Invalid)
  /\ UNCHANGED <<platform, pc, useful, open, arrived, backlog, aborted>>

-----------------------------------------------------------------------------
(* External: the clients, the kernel and the owners of the connections *)

Connect ==
  /\ arrived < MaxConnections
  /\ Len(backlog) < Backlog
  /\ arrived' = arrived + 1
  /\ backlog' = Append(backlog, arrived + 1)
  /\ UNCHANGED <<platform, pc, useful, announced, open, aborted>>

\* The owner drops the TCPSocket, ~Socket closes the descriptor.
Discard(c) ==
  /\ pc = "idle"
  /\ c \in open
  /\ open' = open \ {c}
  /\ UNCHANGED <<platform, pc, useful, announced, arrived, backlog, aborted>>

Accept ==
  \/ AcceptNext \/ AcceptAgain \/ AcceptFull \/ AcceptAborted \/ AcceptFails \/ AcceptUnlisted
  \/ AcceptFullIsTheEnd \/ AcceptNoBuffers \/ AcceptResetIsTheEnd

Next == Update \/ Accept \/ Connect \/ \E c \in open : Discard(c)

Spec == Init /\ [][Next]_vars

\* The server polls (http/Server.cpp, examples/webpage/main.cpp), connections end,
\* and a kernel that is short of buffers is not so for ever.
FairSpec ==
  /\ Spec
  /\ WF_vars(Update) /\ WF_vars(Accept) /\ SF_vars(AcceptNext)
  /\ \A c \in 1..MaxConnections : SF_vars(Discard(c))

-----------------------------------------------------------------------------
(* Properties *)

Elements(s) == {s[i] : i \in 1..Len(s)}

TypeOK ==
  /\ platform \in Platforms
  /\ pc \in {"idle", "accept"} /\ useful \in BOOLEAN /\ (pc = "accept" => useful)
  /\ announced \in Seq(Int) /\ open \subseteq Elements(announced)
  /\ arrived \in 0..MaxConnections /\ aborted \subseteq 1..arrived
  /\ backlog \in Seq(1..arrived) /\ Len(backlog) <= Backlog
  /\ Cardinality(open) <= Descriptors

\* Every connection is in one place: waiting, gone, or announced, and the
\* announced ones came out in order and once.
EachConnectionOnce ==
  LET real == {i \in 1..Len(announced) : announced[i] # Invalid}
      out  == {announced[i] : i \in real}
  IN /\ out \cup Elements(backlog) \cup aborted = 1..arrived
     /\ out \cap (Elements(backlog) \cup aborted) = {}
     /\ Elements(backlog) \cap aborted = {}
     /\ \A i, j \in real : i < j => announced[i] < announced[j]

\* No connection waits for ever, as long as Update returns true and descriptors
\* come back: neither the ones that abort nor the full tables stop the others.
EveryConnectionIsAnnounced ==
  \A c \in 1..MaxConnections :
    arrived >= c ~> (c \in Elements(announced) \cup aborted \/ ~useful)

\* "This event is fired for each new connection" (DOCUMENTATION.md:123), and
\* for nothing else.
OnlyConnectionsAreAnnounced == Invalid \notin Elements(announced)
================================================================================
