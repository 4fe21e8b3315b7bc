-------------------------------- MODULE ByteLink --------------------------------
(***************************************************************************)
(* What two connected TCPSockets promise (DOCUMENTATION.md, "TCP Socket"): *)
(* "any data written to it will be sent over the socket", and the other    *)
(* end's read stream gets those bytes, once and in order, and announces    *)
(* them with OnDataAvailable.                                              *)
(*                                                                         *)
(* The n-th byte written at an end is represented by the number n.         *)
(***************************************************************************)
EXTENDS Integers, Sequences

CONSTANTS Ends,       \* the two ends
          Peer(_),    \* the other end
          MaxWritten  \* bound: bytes written at an end

VARIABLES written,    \* bytes written to each end's WriteStream
          received,   \* the bytes in each end's ReadStream
          told        \* how many of them have been announced

vars == <<written, received, told>>

Init ==
  /\ written = [e \in Ends |-> 0]
  /\ received = [e \in Ends |-> <<>>]
  /\ told = [e \in Ends |-> 0]

Write(e, n) ==
  /\ written' = [written EXCEPT ![e] = @ + n]
  /\ UNCHANGED <<received, told>>

\* The next n bytes of the peer arrive.
Receive(e, n) ==
  /\ Len(received[e]) + n <= written[Peer(e)]
  /\ received' = [received EXCEPT ![e] = @ \o [k \in 1..n |-> Len(@) + k]]
  /\ UNCHANGED <<written, told>>

\* OnDataAvailable: there is news, and all of it is told; the callback may
\* write n bytes itself.
Announce(e, n) ==
  /\ told[e] < Len(received[e])
  /\ told' = [told EXCEPT ![e] = Len(received[e])]
  /\ written' = [written EXCEPT ![e] = @ + n]
  /\ UNCHANGED received

Next == \E e \in Ends, n \in 0..MaxWritten : Write(e, n) \/ Receive(e, n) \/ Announce(e, n)

Spec == Init /\ [][Next]_vars
=================================================================================
