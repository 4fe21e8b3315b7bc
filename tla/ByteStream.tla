------------------------------- MODULE ByteStream -------------------------------
(***************************************************************************)
(* What a ReadStream promises its reader (DOCUMENTATION.md, "Read          *)
(* Stream"): one endless sequence of bytes, a read position and a          *)
(* checkpoint.  Nothing of how the bytes are chopped into segments shows.  *)
(*                                                                         *)
(* The n-th byte ever appended is represented by the number n.             *)
(***************************************************************************)
EXTENDS Integers

CONSTANTS MaxBytes,    \* bound: bytes appended in a behaviour
          MaxRequest   \* bound: the largest aSize of a Read or a Peek

VARIABLES total,   \* bytes appended so far
          head,    \* bytes in front of the read position
          mark,    \* bytes in front of the checkpoint
          result   \* what the last Read or Peek handed to its caller

vars == <<total, head, mark, result>>

\* The first `count` bytes after position `from`.
Bytes(from, count) == [k \in 1..count |-> from + k]

Available(n) == IF n <= total - head THEN n ELSE total - head

Init ==
  /\ total = 0
  /\ head = 0
  /\ mark = 0
  /\ result = [bytes |-> <<>>, full |-> TRUE]

\* The producer appends a list of segments with n bytes in all.
Append(n) ==
  /\ total' = total + n
  /\ UNCHANGED <<head, mark, result>>

\* As many bytes as there are, at most n; full iff there were n.
Peek(n) ==
  /\ result' = [bytes |-> Bytes(head, Available(n)), full |-> Available(n) = n]
  /\ UNCHANGED <<total, head, mark>>

\* A Peek that also steps over what it returned, complete or not.
Read(n) ==
  /\ result' = [bytes |-> Bytes(head, Available(n)), full |-> Available(n) = n]
  /\ head' = head + Available(n)
  /\ UNCHANGED <<total, mark>>

CommitRead ==
  /\ mark' = head
  /\ UNCHANGED <<total, head, result>>

RestoreRead ==
  /\ head' = mark
  /\ UNCHANGED <<total, mark, result>>

Next ==
  \/ \E n \in 1..MaxBytes : Append(n)
  \/ \E n \in 0..MaxRequest : Peek(n) \/ Read(n)
  \/ CommitRead
  \/ RestoreRead

Spec == Init /\ [][Next]_vars
=================================================================================
