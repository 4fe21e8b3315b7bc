------------------------------ MODULE WriteBuffer ------------------------------
(***************************************************************************)
(* What a WriteStream promises (DOCUMENTATION.md, "Write Stream"): Get     *)
(* hands over everything written since the last Get, and whoever takes the *)
(* result sees those bytes once and in order, whatever is written later.   *)
(*                                                                         *)
(* The n-th byte ever written is represented by the number n.              *)
(***************************************************************************)
EXTENDS Integers, Sequences

CONSTANT MaxBytes   \* bound: bytes written in a behaviour

VARIABLES written,  \* bytes written so far
          given,    \* bytes handed over by Get so far
          taken,    \* bytes of those that their new owner is done with
          sink      \* the bytes the new owner took, in order

vars == <<written, given, taken, sink>>

Init == written = 0 /\ given = 0 /\ taken = 0 /\ sink = <<>>

Write(n) ==
  /\ written' = written + n
  /\ UNCHANGED <<given, taken, sink>>

\* The last result has been used up; the next one is all there is.
Get ==
  /\ taken = given
  /\ given' = written
  /\ UNCHANGED <<written, taken, sink>>

\* The owner of the result takes its next n bytes, or the first k of them and
\* loses the rest (an ostream that has failed).
Take(n, k) ==
  /\ taken + n <= given
  /\ taken' = taken + n
  /\ sink' = sink \o [i \in 1..k |-> taken + i]
  /\ UNCHANGED <<written, given>>

Next ==
  \/ \E n \in 1..MaxBytes : Write(n)
  \/ Get
  \/ \E n \in 1..MaxBytes : \E k \in 0..n : Take(n, k)

Spec == Init /\ [][Next]_vars
================================================================================
