-------------------------------- MODULE ChatRoom --------------------------------
(***************************************************************************)
(* What the chat of examples/webpage promises: everyone in the room sees   *)
(* one conversation, from its beginning, whenever they came.               *)
(***************************************************************************)
EXTENDS Sequences, SequencesExt

CONSTANTS Members, Message

VARIABLES log,  \* what was said
          seen  \* what each member has seen of it

vars == <<log, seen>>

Init == log = <<>> /\ seen = [c \in Members |-> <<>>]

Post(m) == log' = Append(log, m) /\ UNCHANGED seen

\* A member sees more of the log, without a gap.
See(c, n) ==
  /\ n \in (Len(seen[c]) + 1)..Len(log)
  /\ seen' = [seen EXCEPT ![c] = SubSeq(log, 1, n)]
  /\ UNCHANGED log

Next == \/ \E m \in Message : Post(m)
        \/ \E c \in Members : \E n \in 1..Len(log) : See(c, n)

Spec == Init /\ [][Next]_vars
================================================================================
