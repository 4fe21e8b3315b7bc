------------------------------- MODULE Encodings -------------------------------
(***************************************************************************)
(* The two encodings of bytes as texts, tools/Base64.cpp and               *)
(* tools/Hexadecimal.cpp.  They do not know of each other: a behaviour is  *)
(* one of Base64 or one of Hexadecimal.                                    *)
(***************************************************************************)
EXTENDS Integers, Sequences

CONSTANTS Data, Texts,       \* bounds: what Base64 encodes, and decodes besides
          HexData, HexTexts  \* bounds: the same of Hexadecimal

VARIABLES subject,
          bPc, bData, bText, bAt, bOut,
          hPc, hData, hText, hAt, hOut

baseVars == <<bPc, bData, bText, bAt, bOut>>
hexVars == <<hPc, hData, hText, hAt, hOut>>

Base64Of == INSTANCE Base64
              WITH pc <- bPc, data <- bData, text <- bText, at <- bAt, out <- bOut

Hex == INSTANCE Hexadecimal
         WITH Data <- HexData, Texts <- HexTexts,
              pc <- hPc, data <- hData, text <- hText, at <- hAt, out <- hOut

ASSUME EncodingsAssumption == Base64Of!Base64Assumption /\ Hex!HexadecimalAssumption

\* The one that a behaviour is not about has nothing to do.
NoBase64 == bPc = "done" /\ bData = <<>> /\ bText = <<>> /\ bAt = 0 /\ bOut = <<>>
NoHex == hPc = "done" /\ hData = <<>> /\ hText = <<>> /\ hAt = 0 /\ hOut = <<>>

EncodingsInit ==
  \/ subject = "Base64" /\ Base64Of!Init /\ NoHex
  \/ subject = "Hexadecimal" /\ NoBase64 /\ Hex!Init

EncodingsNext ==
  /\ \/ subject = "Base64" /\ Base64Of!Next /\ UNCHANGED hexVars
     \/ subject = "Hexadecimal" /\ Hex!Next /\ UNCHANGED baseVars
  /\ UNCHANGED subject

EncodingsSpec == EncodingsInit /\ [][EncodingsNext]_<<subject, baseVars, hexVars>>

\* A text has the bits of what was encoded and decoding takes them out again,
\* partial blocks and digits of both cases included, and refuses no encoder's
\* text: Base64 and Hexadecimal.
EncodingsPreserveData == Base64Of!BitsArePreserved /\ Hex!DigitsArePreserved
================================================================================
