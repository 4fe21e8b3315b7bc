------------------------------ MODULE Hexadecimal ------------------------------
(***************************************************************************)
(* tools/Hexadecimal.cpp: Encode and TryDecode, one action per iteration   *)
(* of their loops.  A char is its code.                                    *)
(***************************************************************************)
EXTENDS Integers, Sequences

CONSTANTS Data,  \* bound: what is encoded, and decoded again
          Texts  \* bound: what is decoded besides

HexadecimalAssumption == /\ \A d \in Data : d \in Seq(0..255)
                         /\ \A t \in Texts : t \in Seq(0..127)

VARIABLES pc, data, text, at, out

vars == <<pc, data, text, at, out>>

UpperCase == 65..70
LowerCase == 97..102
HexDigits == 48..57 \cup UpperCase \cup LowerCase

NibbleFromChar(c) ==
  IF c \in 48..57 THEN c - 48 ELSE IF c \in UpperCase THEN c - 55 ELSE c - 87

CharFromNibble(n) == IF n < 10 THEN 48 + n ELSE 55 + n

\* The next byte of Encode.
Encode ==
  /\ pc = "encode" /\ at < Len(data)
  /\ text' = text \o << CharFromNibble(data[at + 1] \div 16), CharFromNibble(data[at + 1] % 16) >>
  /\ at' = at + 1
  /\ UNCHANGED <<pc, data, out>>

Encoded ==
  /\ pc = "encode" /\ at = Len(data)
  /\ pc' = "encoded" /\ at' = 0
  /\ UNCHANGED <<data, text, out>>

\* TryDecode refuses what has an odd length or another character in it.
TryDecode ==
  /\ pc = "encoded"
  /\ pc' = IF Len(text) % 2 = 0 /\ (\A i \in DOMAIN text : text[i] \in HexDigits)
           THEN "decode" ELSE "refused"
  /\ UNCHANGED <<data, text, at, out>>

Decode ==
  /\ pc = "decode" /\ at < Len(text) \div 2
  /\ out' = Append(out, (NibbleFromChar(text[at * 2 + 1]) * 16
                         + NibbleFromChar(text[at * 2 + 2])) % 256)
  /\ at' = at + 1
  /\ UNCHANGED <<pc, data, text>>

Return ==
  /\ pc = "decode" /\ at = Len(text) \div 2
  /\ pc' = "done"
  /\ UNCHANGED <<data, text, at, out>>

Init ==
  /\ at = 0 /\ out = <<>>
  /\ \/ pc = "encode" /\ data \in Data /\ text = <<>>
     \/ pc = "encoded" /\ data = <<>> /\ text \in Texts

Next == Encode \/ Encoded \/ TryDecode \/ Decode \/ Return

Spec == Init /\ [][Next]_vars

-----------------------------------------------------------------------------
(* Properties *)

TypeOK ==
  /\ pc \in {"encode", "encoded", "decode", "done", "refused"}
  /\ data \in Seq(0..255) /\ out \in Seq(0..255) /\ text \in Seq(0..127)
  /\ at \in 0..Len(text) \cup 0..Len(data)

\* The digits of either case in order of their values.
Upper == <<48, 49, 50, 51, 52, 53, 54, 55, 56, 57, 65, 66, 67, 68, 69, 70>>
Lower == <<48, 49, 50, 51, 52, 53, 54, 55, 56, 57, 97, 98, 99, 100, 101, 102>>

Value(c) == CHOOSE v \in 0..15 : c \in {Upper[v + 1], Lower[v + 1]}

\* Decoding inverts encoding; a text in either case stands for the bytes whose
\* digits it holds, high one first, and what Encode wrote is never refused.
DigitsArePreserved ==
  /\ TypeOK
  /\ pc = "done" =>
       /\ Len(text) = 2 * Len(out)
       /\ \A i \in DOMAIN text : Value(text[i]) = IF i % 2 = 1 THEN out[(i + 1) \div 2] \div 16
                                                  ELSE out[i \div 2] % 16
       /\ data # <<>> => out = data
  /\ pc = "refused" => data = <<>>
================================================================================
