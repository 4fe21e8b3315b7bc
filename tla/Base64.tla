--------------------------------- MODULE Base64 ---------------------------------
(***************************************************************************)
(* tools/Base64.cpp: Encode and Decode, one action per iteration of their  *)
(* loops.  A char is its code.  An assert that fails ends the process.     *)
(***************************************************************************)
EXTENDS Integers, Sequences

CONSTANTS Data,  \* bound: what is encoded, and decoded again
          Texts  \* bound: what is decoded besides

Base64Assumption == /\ \A d \in Data : d \in Seq(0..255)
                    /\ \A t \in Texts : t \in Seq(0..127)

VARIABLES pc, data, text, at, out

vars == <<pc, data, text, at, out>>

Pad == 61

\* globEncodeLookup: A-Z, a-z, 0-9, + and /.
EncodeLookup(sextet) ==
  CASE sextet < 26  -> 65 + sextet
    [] sextet \in 26..51 -> 97 + (sextet - 26)
    [] sextet \in 52..61 -> 48 + (sextet - 52)
    [] sextet = 62  -> 43
    [] sextet = 63  -> 47

\* globDecodeLookup, which ReverseTableBuilder fills.
Invalid == 255
DecodeLookup ==
  [c \in 0..127 |-> IF \E s \in 0..63 : EncodeLookup(s) = c
                    THEN CHOOSE s \in 0..63 : EncodeLookup(s) = c
                    ELSE Invalid]

-----------------------------------------------------------------------------
(* Encode *)

\* Faulty variant, for mutation: the low bits of the second byte are dropped.
ThirdSextetOfTwo(block) == block[3] \div 64

ThirdSextet(block) == (block[2] % 16) * 4 + block[3] \div 64

EncodeBlock(block) ==
  << EncodeLookup(block[1] \div 4),
     EncodeLookup((block[1] % 4) * 16 + block[2] \div 16),
     EncodeLookup(ThirdSextet(block)),
     EncodeLookup(block[3] % 64) >>

\* One or two bytes; the case for one falls through to the case for two.
EncodePartialBlock(block) ==
  LET encoded == EncodeBlock(block \o [i \in 1..(3 - Len(block)) |-> 0])
  IN SubSeq(encoded, 1, Len(block) + 1) \o [i \in 1..(3 - Len(block)) |-> Pad]

Encode ==
  /\ pc = "encode" /\ at + 2 < Len(data)
  /\ text' = text \o EncodeBlock(SubSeq(data, at + 1, at + 3))
  /\ at' = at + 3
  /\ UNCHANGED <<pc, data, out>>

EncodeRest ==
  /\ pc = "encode" /\ at + 2 >= Len(data)
  /\ text' = IF at = Len(data) THEN text
             ELSE text \o EncodePartialBlock(SubSeq(data, at + 1, Len(data)))
  /\ pc' = "encoded" /\ at' = 0
  /\ UNCHANGED <<data, out>>

-----------------------------------------------------------------------------
(* Decode *)

\* The bytes of a block; empty if an assert fails.
DecodeBlock(chars) ==
  LET s == [i \in 1..4 |-> DecodeLookup[chars[i]]]
      first  == (s[1] * 4 + ((s[2] \div 16) % 4)) % 256
      second == (s[2] % 16) * 16 + ((s[3] \div 4) % 16)
      third  == (s[3] % 4) * 64 + s[4]
  IN IF Invalid \in {s[1], s[2]} THEN <<>>
     ELSE IF chars[3] = Pad THEN <<first>>
     ELSE IF s[3] = Invalid THEN <<>>
     ELSE IF chars[4] = Pad THEN <<first, second>>
     ELSE IF s[4] = Invalid THEN <<>>
     ELSE <<first, second, third>>

\* Decode is called with what Encode returned, or with another text.
Begin ==
  /\ pc = "encoded"
  /\ pc' = IF Len(text) % 4 = 0 THEN "decode" ELSE "aborted"
  /\ UNCHANGED <<data, text, at, out>>

\* A block that is not the last must be a whole one.
Decode ==
  LET blocks == Len(text) \div 4
      block  == DecodeBlock(SubSeq(text, at * 4 + 1, at * 4 + 4))
      fails  == block = <<>> \/ (Len(block) # 3 /\ at + 1 # blocks)
  IN /\ pc = "decode" /\ at < blocks
     /\ IF fails THEN pc' = "aborted" /\ UNCHANGED <<at, out>>
        ELSE /\ out' = SubSeq(out, 1, at * 3) \o block
             /\ at' = at + 1
             /\ UNCHANGED pc
     /\ UNCHANGED <<data, text>>

Return ==
  /\ pc = "decode" /\ at = Len(text) \div 4
  /\ pc' = "done"
  /\ UNCHANGED <<data, text, at, out>>

-----------------------------------------------------------------------------

Init ==
  /\ at = 0 /\ out = <<>>
  /\ \/ pc = "encode" /\ data \in Data /\ text = <<>>
     \/ pc = "encoded" /\ data = <<>> /\ text \in Texts

Next == Encode \/ EncodeRest \/ Begin \/ Decode \/ Return

Spec == Init /\ [][Next]_vars

-----------------------------------------------------------------------------
(* Properties *)

TypeOK ==
  /\ pc \in {"encode", "encoded", "decode", "done", "aborted"}
  /\ data \in Seq(0..255) /\ out \in Seq(0..255) /\ text \in Seq(0..127)
  /\ at \in 0..Len(data) \cup 0..Len(text)

\* What the bits of a number stand for, from the lowest on.
Places == <<1, 2, 4, 8, 16, 32, 64, 128>>

\* The bits of a sequence of numbers of `width` bits, the highest first.
Bits(numbers, width) ==
  [i \in 1..(Len(numbers) * width) |->
     (numbers[(i - 1) \div width + 1] \div Places[width - ((i - 1) % width)]) % 2]

\* The digits of a text: what is in front of the first padding.
Digits(chars) ==
  LET n == CHOOSE k \in 0..Len(chars) : /\ \A i \in 1..k : chars[i] # Pad
                                        /\ k = Len(chars) \/ chars[k + 1] = Pad
  IN [i \in 1..n |-> DecodeLookup[chars[i]]]

\* Base64 as RFC 4648 has it: the digits of an encoded text are the bits of the
\* data, filled up with zeros to a whole digit, and its length is filled up with
\* padding to a whole block; what is decoded is the bits of the digits without
\* those that do not fill a byte, so that decoding inverts encoding.
BitsArePreserved ==
  /\ TypeOK
  /\ pc # "encode" /\ data # <<>> =>
       LET bits == Bits(Digits(text), 6)
           n    == 8 * Len(data)
       IN /\ SubSeq(bits, 1, n) = Bits(data, 8)
          /\ Len(bits) - n \in 0..5
          /\ \A i \in (n + 1)..Len(bits) : bits[i] = 0
          /\ Len(text) % 4 = 0
          /\ \A i \in (Len(Digits(text)) + 1)..Len(text) : text[i] = Pad
  /\ pc = "done" =>
       LET bits == Bits(Digits(text), 6)
       IN /\ Bits(out, 8) = SubSeq(bits, 1, 8 * Len(out))
          /\ Len(bits) - 8 * Len(out) < 8
          /\ data # <<>> => out = data
  /\ pc = "aborted" => data = <<>>
================================================================================
