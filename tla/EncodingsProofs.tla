---------------------------- MODULE EncodingsProofs ----------------------------
(***************************************************************************)
(* Proofs about Encodings, for data and texts of every length.             *)
(***************************************************************************)
EXTENDS Encodings, SequenceTheorems, TLAPS

-----------------------------------------------------------------------------
(* Sequences and numbers *)

\* What is at a place of a sequence.
LEMMA Item ==
  ASSUME NEW S, NEW s \in Seq(S), NEW i \in 1..Len(s)
  PROVE  s[i] \in S
OBVIOUS

\* A sequence and another behind it.
LEMMA Concat ==
  ASSUME NEW S, NEW s \in Seq(S), NEW t \in Seq(S), NEW m, m = Len(s), NEW n, n = Len(t),
         NEW new, new = s \o t
  PROVE  /\ new \in Seq(S) /\ Len(new) = m + n
         /\ \A i \in 1..m : new[i] = s[i]
         /\ \A i \in 1..n : new[m + i] = t[i]
<1>1. new \in Seq(S) /\ Len(new) = m + n /\ m \in Nat /\ n \in Nat
  OBVIOUS
<1>2. \A i \in 1..(m + n) : new[i] = IF i <= m THEN s[i] ELSE t[i - m]
  OBVIOUS
<1>3. ASSUME NEW i \in 1..n PROVE new[m + i] = t[i]
  <2>1. m + i \in 1..(m + n) /\ m + i > m /\ (m + i) - m = i
    BY <1>1
  <2> QED BY <1>2, <2>1
<1>4. ASSUME NEW i \in 1..m PROVE new[i] = s[i]
  <2>1. i \in 1..(m + n) /\ i <= m
    BY <1>1
  <2> QED BY <1>2, <2>1
<1> QED BY <1>1, <1>3, <1>4

\* The pairs of a number of even length.
LEMMA Halves ==
  ASSUME NEW n \in Nat, NEW i \in 1..(2 * n)
  PROVE  /\ i % 2 = 1 => (i + 1) \div 2 \in 1..n /\ i = 2 * ((i + 1) \div 2) - 1
         /\ i % 2 # 1 => i \div 2 \in 1..n /\ i = 2 * (i \div 2)
<1>1. CASE i % 2 = 1
  BY <1>1
<1>2. CASE i % 2 # 1
  BY <1>2
<1> QED BY <1>1, <1>2

-----------------------------------------------------------------------------
(* Hexadecimal: digits *)

\* A digit is what NibbleFromChar makes of it, the inverse of CharFromNibble
\* (Hexadecimal.cpp:12-103).
LEMMA HexDigit ==
  /\ \A n \in 0..15 : /\ Hex!CharFromNibble(n) \in Hex!HexDigits
                      /\ Hex!CharFromNibble(n) \in 0..127
                      /\ Hex!NibbleFromChar(Hex!CharFromNibble(n)) = n
  /\ \A c \in Hex!HexDigits : Hex!NibbleFromChar(c) \in 0..15 /\ Hex!Value(c) = Hex!NibbleFromChar(c)
<1>1. \A n \in 0..15 : /\ Hex!CharFromNibble(n) \in Hex!HexDigits
                       /\ Hex!CharFromNibble(n) \in 0..127
                       /\ Hex!NibbleFromChar(Hex!CharFromNibble(n)) = n
  BY DEF Hex!CharFromNibble, Hex!HexDigits, Hex!NibbleFromChar, Hex!UpperCase, Hex!LowerCase
<1>2. \A v \in 0..15 : /\ Hex!Upper[v + 1] = IF v < 10 THEN 48 + v ELSE 55 + v
                       /\ Hex!Lower[v + 1] = IF v < 10 THEN 48 + v ELSE 87 + v
  BY DEF Hex!Upper, Hex!Lower
<1>3. ASSUME NEW c \in Hex!HexDigits
      PROVE  Hex!NibbleFromChar(c) \in 0..15 /\ Hex!Value(c) = Hex!NibbleFromChar(c)
  <2>1. /\ Hex!NibbleFromChar(c) \in 0..15
        /\ \A v \in 0..15 : c \in {Hex!Upper[v + 1], Hex!Lower[v + 1]} <=> v = Hex!NibbleFromChar(c)
    BY <1>2 DEF Hex!HexDigits, Hex!NibbleFromChar, Hex!UpperCase, Hex!LowerCase
  <2> QED BY <2>1 DEF Hex!Value
<1> QED BY <1>1, <1>3

\* A byte is the two nibbles that Encode writes.
LEMMA Nibbles ==
  ASSUME NEW b \in 0..255
  PROVE  b \div 16 \in 0..15 /\ b % 16 \in 0..15 /\ ((b \div 16) * 16 + (b % 16)) % 256 = b
<1>1. b \div 16 \in 0..15 /\ b % 16 \in 0..15 /\ (b \div 16) * 16 + (b % 16) = b
  OBVIOUS
<1> QED BY <1>1

\* And the byte that TryDecode makes of two nibbles has these.
LEMMA ByteOfNibbles ==
  ASSUME NEW m \in 0..15, NEW n \in 0..15, NEW b, b = (m * 16 + n) % 256
  PROVE  b \in 0..255 /\ b \div 16 = m /\ b % 16 = n
<1>1. b = m * 16 + n
  OBVIOUS
<1> QED BY <1>1

-----------------------------------------------------------------------------
(* Hexadecimal: the invariant *)

\* The first n bytes of the data are what the text begins with.
HexEncodes(n) ==
  /\ Len(hText) = 2 * n
  /\ \A i \in 1..n : /\ hText[2 * i - 1] = Hex!CharFromNibble(hData[i] \div 16)
                     /\ hText[2 * i] = Hex!CharFromNibble(hData[i] % 16)

\* The first n pairs of digits have been decoded.
HexDecoded(n) ==
  /\ Len(hOut) = n /\ 2 * n <= Len(hText)
  /\ \A i \in 1..n : hOut[i] = (Hex!NibbleFromChar(hText[2 * i - 1]) * 16
                                + Hex!NibbleFromChar(hText[2 * i])) % 256

HexInv ==
  /\ Hex!TypeOK
  /\ hAt \in Nat
  /\ hPc = "encode" => hAt <= Len(hData) /\ HexEncodes(hAt) /\ hOut = <<>>
  /\ hPc = "encoded" => hAt = 0 /\ hOut = <<>>
  /\ hPc # "encode" /\ hData # <<>> => HexEncodes(Len(hData))
  /\ hPc \in {"decode", "done"} =>
       /\ Len(hText) % 2 = 0 /\ \A i \in DOMAIN hText : hText[i] \in Hex!HexDigits
  /\ hPc = "decode" => hAt <= Len(hText) \div 2 /\ HexDecoded(hAt)
  /\ hPc = "done" => HexDecoded(Len(hText) \div 2)
  /\ hPc = "refused" => hData = <<>>

\* At the start, nothing is encoded or decoded.
LEMMA HexInitInvariant == Hex!Init \/ NoHex => HexInv
<1>1. CASE Hex!Init
  <2>1. /\ \A d \in HexData : d \in Seq(0..255)
        /\ \A t \in HexTexts : t \in Seq(0..127)
    BY EncodingsAssumption DEF Hex!HexadecimalAssumption
  <2>2. CASE hPc = "encode"
    <3>1. hAt = 0 /\ hOut = <<>> /\ hText = <<>> /\ hData \in HexData
      BY <1>1, <2>2 DEF Hex!Init
    <3>2. hData \in Seq(0..255)
      BY <2>1, <3>1
    <3> QED BY <2>2, <3>1, <3>2 DEF HexInv, Hex!TypeOK, HexEncodes
  <2>3. CASE hPc = "encoded"
    <3>1. hAt = 0 /\ hOut = <<>> /\ hText \in HexTexts /\ hData = <<>>
      BY <1>1, <2>3 DEF Hex!Init
    <3>2. hText \in Seq(0..127)
      BY <2>1, <3>1
    <3> QED BY <2>3, <3>1, <3>2 DEF HexInv, Hex!TypeOK
  <2> QED BY <1>1, <2>2, <2>3 DEF Hex!Init
<1>2. CASE NoHex
  BY <1>2 DEF NoHex, HexInv, Hex!TypeOK, HexDecoded
<1> QED BY <1>1, <1>2

\* Encode appends the two digits of the next byte.
LEMMA HexEncode ==
  ASSUME HexInv, Hex!Encode
  PROVE  HexInv'
<1> PICK n : n = hAt + 1
  OBVIOUS
<1> DEFINE b == hData[n]
<1>1. /\ hPc = "encode" /\ hPc' = "encode" /\ hData' = hData /\ hOut' = hOut /\ hOut = <<>>
      /\ hAt \in Nat /\ hAt < Len(hData) /\ hAt' = n /\ HexEncodes(hAt)
      /\ hText \in Seq(0..127) /\ hData \in Seq(0..255)
      /\ hText' = hText \o <<Hex!CharFromNibble(b \div 16), Hex!CharFromNibble(b % 16)>>
  BY DEF Hex!Encode, HexInv, Hex!TypeOK
<1>0. hAt \in Nat /\ hData' = hData /\ hData \in Seq(0..255) /\ hAt < Len(hData)
  BY <1>1
<1>2. b \in 0..255 /\ n \in 1..Len(hData)
  <2>1. n \in 1..Len(hData)
    BY <1>1
  <2> QED BY <1>1, <2>1, Item
<1>3. Hex!CharFromNibble(b \div 16) \in 0..127 /\ Hex!CharFromNibble(b % 16) \in 0..127
  <2>1. b \div 16 \in 0..15 /\ b % 16 \in 0..15
    BY <1>2, Nibbles
  <2> QED BY <2>1, HexDigit
<1> HIDE DEF b
<1>4. /\ hText' \in Seq(0..127) /\ Len(hText') = Len(hText) + 2
      /\ \A i \in 1..Len(hText) : hText'[i] = hText[i]
      /\ hText'[Len(hText) + 1] = Hex!CharFromNibble(b \div 16)
      /\ hText'[Len(hText) + 2] = Hex!CharFromNibble(b % 16)
  BY <1>1, <1>3
<1>5. HexEncodes(n)'
  <2>1. Len(hText) = 2 * hAt
    BY <1>1 DEF HexEncodes
  <2>2. ASSUME NEW i \in 1..n
        PROVE  /\ hText'[2 * i - 1] = Hex!CharFromNibble(hData[i] \div 16)
               /\ hText'[2 * i] = Hex!CharFromNibble(hData[i] % 16)
    <3>1. CASE i \in 1..hAt
      <4>1. 2 * i - 1 \in 1..Len(hText) /\ 2 * i \in 1..Len(hText)
        BY <1>1, <2>1, <3>1
      <4> QED BY <1>1, <1>4, <3>1, <4>1 DEF HexEncodes
    <3>2. CASE i = n
      <4>1. 2 * i - 1 = Len(hText) + 1 /\ 2 * i = Len(hText) + 2 /\ hData[i] = b
        BY <1>1, <2>1, <3>2 DEF b
      <4> QED BY <1>4, <4>1
    <3>3. i \in 1..hAt \/ i = n
      BY <1>0
    <3> QED BY <3>1, <3>2, <3>3
  <2>3. Len(hText') = 2 * n
    BY <1>0, <1>4, <2>1
  <2> QED BY <1>0, <2>2, <2>3 DEF HexEncodes
<1>6. hAt' \in Nat /\ hAt' <= Len(hData') /\ hAt' = n
  BY <1>1, <1>2
<1>7. /\ hPc' = "encode" /\ hOut' = <<>> /\ hData' \in Seq(0..255) /\ hText' \in Seq(0..127)
      /\ hAt' \in 0..Len(hData')
  BY <1>1, <1>4, <1>6
<1>8. HexEncodes(hAt)'
  BY <1>5, <1>6
<1> QED BY <1>6, <1>7, <1>8 DEF HexInv, Hex!TypeOK

\* TryDecode takes any text whose length is even and that holds only digits, and
\* what Encode wrote is one.
LEMMA HexTryDecode ==
  ASSUME HexInv, Hex!TryDecode
  PROVE  HexInv'
<1>1. /\ hPc = "encoded" /\ UNCHANGED <<hData, hText, hAt, hOut>> /\ hAt = 0 /\ hOut = <<>>
      /\ hText \in Seq(0..127) /\ hData \in Seq(0..255)
  BY DEF Hex!TryDecode, HexInv, Hex!TypeOK
<1>2. ASSUME hData # <<>>
      PROVE  Len(hText) % 2 = 0 /\ \A i \in DOMAIN hText : hText[i] \in Hex!HexDigits
  <2>1. HexEncodes(Len(hData))
    BY <1>1, <1>2 DEF HexInv
  <2>2. ASSUME NEW i \in DOMAIN hText
        PROVE  hText[i] \in Hex!HexDigits
    <3>1. PICK k \in 1..Len(hData) : i = 2 * k - 1 \/ i = 2 * k
      <4>1. Len(hData) \in Nat /\ i \in 1..(2 * Len(hData))
        BY <1>1, <2>1 DEF HexEncodes
      <4> QED BY <4>1, Halves
    <3>2. hData[k] \in 0..255
      BY <1>1, Item
    <3>3. hData[k] \div 16 \in 0..15 /\ hData[k] % 16 \in 0..15
      BY <3>2, Nibbles
    <3>4. \/ hText[i] = Hex!CharFromNibble(hData[k] \div 16)
          \/ hText[i] = Hex!CharFromNibble(hData[k] % 16)
      BY <2>1, <3>1 DEF HexEncodes
    <3> QED BY <3>3, <3>4, HexDigit
  <2> QED BY <1>1, <2>1, <2>2 DEF HexEncodes
<1>3. /\ hPc' \in {"decode", "refused"}
      /\ hPc' = "decode" => Len(hText) % 2 = 0 /\ \A i \in DOMAIN hText : hText[i] \in Hex!HexDigits
      /\ hPc' = "refused" => hData = <<>>
  BY <1>2 DEF Hex!TryDecode
<1>4. HexDecoded(0)'
  BY <1>1 DEF HexDecoded
<1>5. hData # <<>> => HexEncodes(Len(hData))'
  BY <1>1 DEF HexInv, HexEncodes
<1> QED BY <1>1, <1>3, <1>4, <1>5 DEF HexInv, Hex!TypeOK

\* Decode appends the byte of the next two digits.
LEMMA HexDecode ==
  ASSUME HexInv, Hex!Decode
  PROVE  HexInv'
<1> DEFINE value(i) == (Hex!NibbleFromChar(hText[2 * i - 1]) * 16 + Hex!NibbleFromChar(hText[2 * i])) % 256
<1> PICK n : n = hAt + 1
  OBVIOUS
<1>1. /\ hPc = "decode" /\ UNCHANGED <<hPc, hData, hText>> /\ hAt' = n
      /\ hAt \in Nat /\ hAt < Len(hText) \div 2 /\ HexDecoded(hAt)
      /\ hText \in Seq(0..127) /\ hData \in Seq(0..255) /\ hOut \in Seq(0..255)
      /\ Len(hText) % 2 = 0 /\ \A i \in DOMAIN hText : hText[i] \in Hex!HexDigits
  BY DEF Hex!Decode, HexInv, Hex!TypeOK
<1>2. hAt * 2 + 1 = 2 * n - 1 /\ hAt * 2 + 2 = 2 * n
  BY <1>1
<1>3. 2 * n - 1 \in 1..Len(hText) /\ 2 * n \in 1..Len(hText)
  BY <1>1
<1>4. hOut' = Append(hOut, value(n))
  BY <1>2 DEF Hex!Decode
<1>5. value(n) \in 0..255
  <2>1. /\ Hex!NibbleFromChar(hText[2 * n - 1]) \in 0..15
        /\ Hex!NibbleFromChar(hText[2 * n]) \in 0..15
    <3>1. hText[2 * n - 1] \in Hex!HexDigits /\ hText[2 * n] \in Hex!HexDigits
      BY <1>1, <1>3
    <3> QED BY <3>1, HexDigit
  <2>2. PICK a \in 0..15, b \in 0..15 : /\ a = Hex!NibbleFromChar(hText[2 * n - 1])
                                     /\ b = Hex!NibbleFromChar(hText[2 * n])
    BY ONLY <2>1
  <2>3. (a * 16 + b) % 256 \in 0..255
    BY ONLY a \in 0..15, b \in 0..15
  <2> QED BY ONLY <2>2, <2>3
<1>6. HexDecoded(n)'
  <2> HIDE DEF value
  <2>1. ASSUME NEW i \in 1..n PROVE hOut'[i] = value(i)
    <3>1. Len(hOut) = hAt /\ hOut \in Seq(0..255)
      BY <1>1 DEF HexDecoded
    <3>2. CASE i \in 1..hAt
      BY <1>4, <3>1, <3>2, <1>1 DEF HexDecoded, value
    <3>3. CASE i = n
      BY <1>4, <3>1, <3>3
    <3> QED BY <1>1, <3>2, <3>3
  <2>2. Len(hOut') = n /\ 2 * n <= Len(hText)
    BY <1>1, <1>3, <1>4, <1>5 DEF HexDecoded
  <2>3. hText' = hText
    BY <1>1
  <2> QED BY <2>1, <2>2, <2>3 DEF HexDecoded, value
<1>7. hOut' \in Seq(0..255)
  <2> HIDE DEF value
  <2>1. hOut \in Seq(0..255)
    BY <1>1
  <2> QED BY ONLY <1>4, <1>5, <2>1, AppendProperties
<1>8. hData' # <<>> => HexEncodes(Len(hData))'
  BY <1>1 DEF HexInv, HexEncodes
<1>9. hAt' \in Nat /\ hAt' <= Len(hText') \div 2 /\ hAt' \in 0..Len(hText')
  BY <1>1, <1>3
<1>10. /\ hPc' = "decode" /\ hData' \in Seq(0..255) /\ hText' \in Seq(0..127)
       /\ Len(hText') % 2 = 0 /\ \A i \in DOMAIN hText' : hText'[i] \in Hex!HexDigits
  BY <1>1
<1>11. HexDecoded(hAt)'
  BY <1>1, <1>6
<1>12. Hex!TypeOK'
  BY <1>7, <1>9, <1>10 DEF Hex!TypeOK
<1> QED BY <1>8, <1>9, <1>10, <1>11, <1>12 DEF HexInv

\* Every step of Hexadecimal preserves its invariant.
LEMMA HexStepInvariant == HexInv /\ [Hex!Next]_hexVars => HexInv'
<1> SUFFICES ASSUME HexInv, [Hex!Next]_hexVars PROVE HexInv'
  OBVIOUS
<1>1. CASE Hex!Encode
  BY <1>1, HexEncode
<1>2. CASE Hex!Encoded
  <2>1. /\ hPc = "encode" /\ hPc' = "encoded" /\ hAt = Len(hData) /\ hAt' = 0
        /\ UNCHANGED <<hData, hText, hOut>>
    BY <1>2 DEF Hex!Encoded
  <2>2. HexEncodes(Len(hData)) /\ hOut = <<>>
    BY <2>1 DEF HexInv
  <2>3. HexEncodes(Len(hData))'
    BY <2>1, <2>2 DEF HexEncodes
  <2> QED BY <2>1, <2>2, <2>3 DEF HexInv, Hex!TypeOK
<1>3. CASE Hex!TryDecode
  BY <1>3, HexTryDecode
<1>4. CASE Hex!Decode
  BY <1>4, HexDecode
<1>5. CASE Hex!Return
  <2>1. /\ hPc = "decode" /\ hPc' = "done" /\ hAt = Len(hText) \div 2
        /\ UNCHANGED <<hData, hText, hAt, hOut>>
    BY <1>5 DEF Hex!Return
  <2>2. HexDecoded(Len(hText) \div 2)'
    BY <2>1 DEF HexInv, HexDecoded
  <2>3. hData # <<>> => HexEncodes(Len(hData))'
    BY <2>1 DEF HexInv, HexEncodes
  <2> QED BY <2>1, <2>2, <2>3 DEF HexInv, Hex!TypeOK
<1>6. CASE UNCHANGED hexVars
  BY <1>6 DEF hexVars, HexInv, Hex!TypeOK, HexEncodes, HexDecoded
<1> QED BY <1>1, <1>2, <1>3, <1>4, <1>5, <1>6 DEF Hex!Next

\* At the end the digits are the bytes', and the bytes are the ones encoded.
LEMMA HexPreserved == HexInv => Hex!DigitsArePreserved
<1> SUFFICES ASSUME HexInv PROVE Hex!DigitsArePreserved
  OBVIOUS
<1>1. /\ Hex!TypeOK /\ hText \in Seq(0..127) /\ hData \in Seq(0..255) /\ hOut \in Seq(0..255)
  BY DEF HexInv, Hex!TypeOK
<1>2. ASSUME hPc = "done"
      PROVE  /\ Len(hText) = 2 * Len(hOut)
             /\ \A i \in DOMAIN hText :
                  Hex!Value(hText[i]) = IF i % 2 = 1 THEN hOut[(i + 1) \div 2] \div 16
                                        ELSE hOut[i \div 2] % 16
             /\ hData # <<>> => hOut = hData
  <2>1. /\ Len(hText) % 2 = 0 /\ \A i \in DOMAIN hText : hText[i] \in Hex!HexDigits
        /\ HexDecoded(Len(hText) \div 2)
    BY <1>2 DEF HexInv
  <2>2. Len(hText) = 2 * Len(hOut)
    BY <1>1, <2>1 DEF HexDecoded
  <2>3. ASSUME NEW k \in 1..Len(hOut)
        PROVE  /\ Hex!Value(hText[2 * k - 1]) = hOut[k] \div 16
               /\ Hex!Value(hText[2 * k]) = hOut[k] % 16
    <3>1. 2 * k - 1 \in DOMAIN hText /\ 2 * k \in DOMAIN hText
      BY <1>1, <2>2
    <3>2. hOut[k] = (Hex!NibbleFromChar(hText[2 * k - 1]) * 16 + Hex!NibbleFromChar(hText[2 * k])) % 256
      BY <2>1 DEF HexDecoded
    <3>3. /\ Hex!NibbleFromChar(hText[2 * k - 1]) \in 0..15
          /\ Hex!NibbleFromChar(hText[2 * k]) \in 0..15
          /\ Hex!Value(hText[2 * k - 1]) = Hex!NibbleFromChar(hText[2 * k - 1])
          /\ Hex!Value(hText[2 * k]) = Hex!NibbleFromChar(hText[2 * k])
      BY <2>1, <3>1, HexDigit
    <3> DEFINE m == Hex!NibbleFromChar(hText[2 * k - 1])
               n == Hex!NibbleFromChar(hText[2 * k])
    <3>4. m \in 0..15 /\ n \in 0..15 /\ hOut[k] = (m * 16 + n) % 256
      BY <3>2, <3>3
    <3> HIDE DEF m, n
    <3>5. hOut[k] \div 16 = m /\ hOut[k] % 16 = n
      <4>1. (m * 16 + n) % 256 = m * 16 + n
        BY <3>4
      <4>2. hOut[k] = m * 16 + n
        BY <3>4, <4>1
      <4> QED BY <3>4, <4>2
    <3> QED BY <3>3, <3>5 DEF m, n
  <2>4. ASSUME NEW i \in DOMAIN hText
        PROVE  Hex!Value(hText[i]) = IF i % 2 = 1 THEN hOut[(i + 1) \div 2] \div 16
                                     ELSE hOut[i \div 2] % 16
    <3>0. Len(hOut) \in Nat /\ i \in 1..(2 * Len(hOut))
      BY <1>1, <2>2
    <3>1. CASE i % 2 = 1
      <4>1. (i + 1) \div 2 \in 1..Len(hOut) /\ i = 2 * ((i + 1) \div 2) - 1
        BY <3>0, <3>1, Halves
      <4> QED BY <2>3, <3>1, <4>1
    <3>2. CASE i % 2 # 1
      <4>1. i \div 2 \in 1..Len(hOut) /\ i = 2 * (i \div 2)
        BY <3>0, <3>2, Halves
      <4> QED BY <2>3, <3>2, <4>1
    <3> QED BY <3>1, <3>2
  <2>5. ASSUME hData # <<>> PROVE hOut = hData
    <3>1. HexEncodes(Len(hData))
      BY <1>2, <2>5 DEF HexInv
    <3>2. Len(hOut) = Len(hData)
      BY <1>1, <2>2, <3>1 DEF HexEncodes
    <3>3. ASSUME NEW k \in 1..Len(hOut) PROVE hOut[k] = hData[k]
      <4>1. hData[k] \in 0..255
        BY <1>1, <3>2
      <4>2. hOut[k] = (Hex!NibbleFromChar(hText[2 * k - 1]) * 16 + Hex!NibbleFromChar(hText[2 * k])) % 256
        BY <2>1 DEF HexDecoded
      <4>3. /\ hText[2 * k - 1] = Hex!CharFromNibble(hData[k] \div 16)
            /\ hText[2 * k] = Hex!CharFromNibble(hData[k] % 16)
        BY <3>1, <3>2 DEF HexEncodes
      <4>4. hData[k] \div 16 \in 0..15 /\ hData[k] % 16 \in 0..15
        BY <4>1, Nibbles
      <4>5. /\ Hex!NibbleFromChar(hText[2 * k - 1]) = hData[k] \div 16
            /\ Hex!NibbleFromChar(hText[2 * k]) = hData[k] % 16
        BY <4>3, <4>4, HexDigit
      <4>6. hOut[k] = ((hData[k] \div 16) * 16 + (hData[k] % 16)) % 256
        BY <4>2, <4>5
      <4> QED BY <4>1, <4>6, Nibbles
    <3> QED BY <1>1, <3>2, <3>3
  <2> QED BY <2>2, <2>4, <2>5
<1> QED BY <1>1, <1>2 DEF HexInv, Hex!DigitsArePreserved

-----------------------------------------------------------------------------
(* Base64: digits and bytes *)

\* What globDecodeLookup says of a character of a text (Base64.cpp:14-27).
Sextet(t, i) == Base64Of!DecodeLookup[t[i]]

\* DecodeLookup inverts EncodeLookup, and the padding is no digit.
LEMMA Lookups ==
  /\ \A s \in 0..63 : /\ Base64Of!EncodeLookup(s) \in 0..127
                      /\ Base64Of!DecodeLookup[Base64Of!EncodeLookup(s)] = s
  /\ \A c \in 0..127 : Base64Of!DecodeLookup[c] \in 0..63 \cup {Base64Of!Invalid}
  /\ Base64Of!Pad \in 0..127 /\ Base64Of!DecodeLookup[Base64Of!Pad] = Base64Of!Invalid
  /\ Base64Of!Invalid \notin 0..63
<1> DEFINE E(s) == Base64Of!EncodeLookup(s)
<1>1. \A s \in 0..63 : E(s) = IF s < 26 THEN 65 + s ELSE IF s < 52 THEN 71 + s
                              ELSE IF s < 62 THEN s - 4 ELSE IF s = 62 THEN 43 ELSE 47
  BY DEF Base64Of!EncodeLookup
<1> HIDE DEF E
<1>2. \A s \in 0..63 : E(s) \in 0..127 /\ E(s) # Base64Of!Pad
  BY <1>1 DEF Base64Of!Pad
<1>3. \A s, r \in 0..63 : E(s) = E(r) => s = r
  BY <1>1
<1>4. \A c \in 0..127 : Base64Of!DecodeLookup[c] = IF \E s \in 0..63 : E(s) = c
                                                   THEN CHOOSE s \in 0..63 : E(s) = c
                                                   ELSE Base64Of!Invalid
  BY DEF Base64Of!DecodeLookup, E
<1>5. ASSUME NEW s \in 0..63 PROVE Base64Of!DecodeLookup[E(s)] = s
  <2>1. (CHOOSE r \in 0..63 : E(r) = E(s)) = s
    BY <1>3
  <2> QED BY <1>2, <1>4, <2>1
<1>6. Base64Of!Pad \in 0..127 /\ Base64Of!DecodeLookup[Base64Of!Pad] = Base64Of!Invalid
  <2>1. Base64Of!Pad \in 0..127
    BY DEF Base64Of!Pad
  <2> QED BY <1>2, <1>4, <2>1
<1>7. ASSUME NEW c \in 0..127
      PROVE  Base64Of!DecodeLookup[c] \in 0..63 \cup {Base64Of!Invalid}
  <2>1. CASE \E s \in 0..63 : E(s) = c
    <3>1. PICK s \in 0..63 : E(s) = c
      BY <2>1
    <3> QED BY <1>5, <3>1
  <2>2. CASE ~\E s \in 0..63 : E(s) = c
    BY <1>4, <2>2
  <2> QED BY <2>1, <2>2
<1>8. Base64Of!Invalid \notin 0..63
  BY DEF Base64Of!Invalid
<1> QED BY <1>2, <1>5, <1>6, <1>7, <1>8 DEF E

\* The three bytes of the four digits of a block (Base64.cpp:76-108).
FirstByte(s, t) == (s * 4 + ((t \div 16) % 4)) % 256
SecondByte(t, u) == (t % 16) * 16 + ((u \div 4) % 16)
ThirdByte(u, v) == (u % 4) * 64 + v

\* They are bytes.
LEMMA ByteRange ==
  ASSUME NEW s \in 0..63, NEW t \in 0..63
  PROVE  FirstByte(s, t) \in 0..255 /\ SecondByte(s, t) \in 0..255 /\ ThirdByte(s, t) \in 0..255
BY DEF FirstByte, SecondByte, ThirdByte

\* The bits of a byte are those of its two digits.
Bit(number, width, k) == (number \div Base64Of!Places[width - k]) % 2

\* The first byte has the six bits of the first digit, and two of the second.
LEMMA FirstBits ==
  ASSUME NEW s \in 0..63, NEW t \in 0..63
  PROVE  /\ \A k \in 0..5 : Bit(FirstByte(s, t), 8, k) = Bit(s, 6, k)
         /\ \A k \in 6..7 : Bit(FirstByte(s, t), 8, k) = Bit(t, 6, k - 6)
<1>1. FirstByte(s, t) = s * 4 + (t \div 16)
  BY DEF FirstByte
<1>2. ASSUME NEW k \in 0..5 PROVE Bit(s * 4 + (t \div 16), 8, k) = Bit(s, 6, k)
  <2>1. k = 0 \/ k = 1 \/ k = 2 \/ k = 3 \/ k = 4 \/ k = 5
    OBVIOUS
  <2> QED BY <2>1 DEF Bit, Base64Of!Places
<1>3. ASSUME NEW k \in 6..7 PROVE Bit(s * 4 + (t \div 16), 8, k) = Bit(t, 6, k - 6)
  <2>1. k = 6 \/ k = 7
    OBVIOUS
  <2> QED BY <2>1 DEF Bit, Base64Of!Places
<1> QED BY <1>1, <1>2, <1>3

\* The second byte has the other four, and four of the third digit.
LEMMA SecondBits ==
  ASSUME NEW t \in 0..63, NEW u \in 0..63
  PROVE  /\ \A k \in 0..3 : Bit(SecondByte(t, u), 8, k) = Bit(t, 6, k + 2)
         /\ \A k \in 4..7 : Bit(SecondByte(t, u), 8, k) = Bit(u, 6, k - 4)
<1>1. PICK h \in 0..3, x \in 0..15 : t = 16 * h + x
  <2>1. t \div 16 \in 0..3 /\ t % 16 \in 0..15 /\ t = 16 * (t \div 16) + (t % 16)
    OBVIOUS
  <2> QED BY <2>1
<1>2. PICK y \in 0..15, l \in 0..3 : u = 4 * y + l
  <2>1. u \div 4 \in 0..15 /\ u % 4 \in 0..3 /\ u = 4 * (u \div 4) + (u % 4)
    OBVIOUS
  <2> QED BY <2>1
<1>3. SecondByte(t, u) = 16 * x + y
  <2>1. t % 16 = x /\ (u \div 4) % 16 = y
    BY <1>1, <1>2
  <2> QED BY <2>1 DEF SecondByte
<1>4. ASSUME NEW k \in 0..3 PROVE Bit(16 * x + y, 8, k) = Bit(16 * h + x, 6, k + 2)
  <2>1. CASE k = 0
    BY <2>1 DEF Bit, Base64Of!Places
  <2>2. CASE k = 1
    BY <2>2 DEF Bit, Base64Of!Places
  <2>3. CASE k = 2
    BY <2>3 DEF Bit, Base64Of!Places
  <2>4. CASE k = 3
    BY <2>4 DEF Bit, Base64Of!Places
  <2> QED BY <2>1, <2>2, <2>3, <2>4
<1>5. ASSUME NEW k \in 4..7 PROVE Bit(16 * x + y, 8, k) = Bit(4 * y + l, 6, k - 4)
  <2>1. CASE k = 4
    BY <2>1 DEF Bit, Base64Of!Places
  <2>2. CASE k = 5
    BY <2>2 DEF Bit, Base64Of!Places
  <2>3. CASE k = 6
    BY <2>3 DEF Bit, Base64Of!Places
  <2>4. CASE k = 7
    BY <2>4 DEF Bit, Base64Of!Places
  <2> QED BY <2>1, <2>2, <2>3, <2>4
<1> QED BY <1>1, <1>2, <1>3, <1>4, <1>5

\* The third byte has the other two, and all of the fourth digit.
LEMMA ThirdBits ==
  ASSUME NEW u \in 0..63, NEW v \in 0..63
  PROVE  /\ \A k \in 0..1 : Bit(ThirdByte(u, v), 8, k) = Bit(u, 6, k + 4)
         /\ \A k \in 2..7 : Bit(ThirdByte(u, v), 8, k) = Bit(v, 6, k - 2)
<1>1. ASSUME NEW k \in 0..1 PROVE Bit((u % 4) * 64 + v, 8, k) = Bit(u, 6, k + 4)
  <2>1. PICK h \in 0..15, x \in 0..3 : u = 4 * h + x
    <3>1. u \div 4 \in 0..15 /\ u % 4 \in 0..3 /\ u = 4 * (u \div 4) + (u % 4)
      OBVIOUS
    <3> QED BY <3>1
  <2>2. u % 4 = x
    BY <2>1
  <2>3. CASE k = 0
    BY <2>1, <2>2, <2>3 DEF Bit, Base64Of!Places
  <2>4. CASE k = 1
    BY <2>1, <2>2, <2>4 DEF Bit, Base64Of!Places
  <2> QED BY <2>3, <2>4
<1>2. ASSUME NEW k \in 2..7 PROVE Bit((u % 4) * 64 + v, 8, k) = Bit(v, 6, k - 2)
  <2>0. PICK x \in 0..3 : u % 4 = x
    OBVIOUS
  <2>1. CASE k = 2
    BY <2>0, <2>1 DEF Bit, Base64Of!Places
  <2>2. CASE k = 3
    BY <2>0, <2>2 DEF Bit, Base64Of!Places
  <2>3. CASE k = 4
    BY <2>0, <2>3 DEF Bit, Base64Of!Places
  <2>4. CASE k = 5
    BY <2>0, <2>4 DEF Bit, Base64Of!Places
  <2>5. CASE k = 6
    BY <2>0, <2>5 DEF Bit, Base64Of!Places
  <2>6. CASE k = 7
    BY <2>0, <2>6 DEF Bit, Base64Of!Places
  <2> QED BY <2>1, <2>2, <2>3, <2>4, <2>5, <2>6
<1> QED BY <1>1, <1>2 DEF ThirdByte

-----------------------------------------------------------------------------
(* Base64: texts *)

\* The first n characters of t are digits.
AreDigits(t, n) == \A i \in 1..n : Sextet(t, i) \in 0..63

\* The first n of these bytes are what the digits of t stand for, three for four.
StandFor(t, bytes, n) ==
  \A q \in Nat :
    /\ 3 * q + 1 <= n => bytes[3 * q + 1] = FirstByte(Sextet(t, 4 * q + 1), Sextet(t, 4 * q + 2))
    /\ 3 * q + 2 <= n => bytes[3 * q + 2] = SecondByte(Sextet(t, 4 * q + 2), Sextet(t, 4 * q + 3))
    /\ 3 * q + 3 <= n => bytes[3 * q + 3] = ThirdByte(Sextet(t, 4 * q + 3), Sextet(t, 4 * q + 4))

\* The first n characters of t are its digits: there are no more of them.
HasDigits(t, n) ==
  /\ t \in Seq(0..127) /\ n \in 0..Len(t) /\ AreDigits(t, n)
  /\ n < Len(t) => t[n + 1] = Base64Of!Pad

\* A text has one number of digits.
LEMMA DigitsUnique ==
  ASSUME NEW t, NEW m, NEW n, HasDigits(t, m), HasDigits(t, n)
  PROVE  m = n
<1>1. ASSUME NEW x, NEW y, HasDigits(t, x), HasDigits(t, y), x < y PROVE FALSE
  <2>1. x + 1 \in 1..y /\ x < Len(t) /\ t[x + 1] = Base64Of!Pad
    BY <1>1 DEF HasDigits
  <2>2. Sextet(t, x + 1) \in 0..63
    BY <1>1, <2>1 DEF HasDigits, AreDigits
  <2> QED BY <2>1, <2>2, Lookups DEF Sextet
<1>2. m \in Nat /\ n \in Nat
  BY DEF HasDigits
<1> QED BY <1>1, <1>2

\* The digits of a text are those in front of its padding.
LEMMA DigitsOf ==
  ASSUME NEW t, NEW n, HasDigits(t, n)
  PROVE  Base64Of!Digits(t) = [i \in 1..n |-> Sextet(t, i)]
<1>a. /\ t \in Seq(0..127) /\ n \in 0..Len(t) /\ AreDigits(t, n)
      /\ n < Len(t) => t[n + 1] = Base64Of!Pad
  BY DEF HasDigits
<1> USE <1>a
<1>1. \A i \in 1..n : t[i] # Base64Of!Pad
  BY Lookups DEF AreDigits, Sextet
<1>2. \A k \in 0..Len(t) :
        /\ \A i \in 1..k : t[i] # Base64Of!Pad
        /\ k = Len(t) \/ t[k + 1] = Base64Of!Pad
        <=> k = n
  <2> SUFFICES ASSUME NEW k \in 0..Len(t), \A i \in 1..k : t[i] # Base64Of!Pad,
                      k = Len(t) \/ t[k + 1] = Base64Of!Pad
               PROVE  k = n
    BY <1>1
  <2>1. CASE k < n
    <3>1. k + 1 \in 1..n /\ k # Len(t)
      BY <2>1
    <3> QED BY <1>1, <3>1
  <2>2. CASE k > n
    <3>1. n + 1 \in 1..k /\ n < Len(t)
      BY <2>2
    <3> QED BY <3>1
  <2> QED BY <2>1, <2>2
<1>3. (CHOOSE k \in 0..Len(t) : /\ \A i \in 1..k : t[i] # Base64Of!Pad
                                /\ k = Len(t) \/ t[k + 1] = Base64Of!Pad) = n
  BY <1>2
<1> QED BY <1>3 DEF Base64Of!Digits, Sextet

\* Where the x-th bit of a text is, from 0: in which byte and in which digit.
LEMMA BitPlace ==
  ASSUME NEW x \in Nat
  PROVE  \E q \in Nat, m \in 0..23 :
           /\ x = 24 * q + m
           /\ x \div 8 = 3 * q + (m \div 8) /\ x % 8 = m % 8
           /\ x \div 6 = 4 * q + (m \div 6) /\ x % 6 = m % 6
<1>1. PICK q \in Nat, m \in 0..23 : x = 24 * q + m
  <2>1. x \div 24 \in Nat /\ x % 24 \in 0..23 /\ x = 24 * (x \div 24) + (x % 24)
    OBVIOUS
  <2> QED BY <2>1
<1>2. /\ x \div 8 = 3 * q + (m \div 8) /\ x % 8 = m % 8
      /\ x \div 6 = 4 * q + (m \div 6) /\ x % 6 = m % 6
  BY <1>1
<1> QED BY <1>1, <1>2

\* The bits of bytes that the digits of a text stand for are the digits' bits.
AreBytes(t, n, bytes) ==
  /\ t \in Seq(0..127) /\ n \in Nat /\ AreDigits(t, n)
  /\ bytes \in Seq(0..255) /\ StandFor(t, bytes, Len(bytes)) /\ 8 * Len(bytes) <= 6 * n

DigitBit(d, i) == Bit(d[(i - 1) \div 6 + 1], 6, (i - 1) % 6)

\* They are the first bits of the digits, as many as the bytes have.
LEMMA BitsOfBytes ==
  ASSUME NEW t, NEW n, NEW bytes, AreBytes(t, n, bytes), NEW d, d = [i \in 1..n |-> Sextet(t, i)]
  PROVE  /\ \A i \in 1..(6 * n) : Base64Of!Bits(d, 6)[i] = DigitBit(d, i)
         /\ Len(Base64Of!Bits(d, 6)) = 6 * n
         /\ Base64Of!Bits(bytes, 8) = SubSeq(Base64Of!Bits(d, 6), 1, 8 * Len(bytes))
<1>a. /\ t \in Seq(0..127) /\ n \in Nat /\ AreDigits(t, n)
      /\ bytes \in Seq(0..255) /\ StandFor(t, bytes, Len(bytes)) /\ 8 * Len(bytes) <= 6 * n
  BY DEF AreBytes
<1> USE <1>a
<1> DEFINE L == Len(bytes)
<1>1. Len(d) = n /\ L \in Nat
  OBVIOUS
<1>2. Base64Of!Bits(d, 6) = [i \in 1..(6 * n) |-> Bit(d[(i - 1) \div 6 + 1], 6, (i - 1) % 6)]
  BY <1>1 DEF Base64Of!Bits, Bit
<1>3. Base64Of!Bits(bytes, 8) = [i \in 1..(8 * L) |-> Bit(bytes[(i - 1) \div 8 + 1], 8, (i - 1) % 8)]
  BY <1>1 DEF Base64Of!Bits, Bit
<1>4. ASSUME NEW i \in 1..(8 * L)
      PROVE  Bit(bytes[(i - 1) \div 8 + 1], 8, (i - 1) % 8) = Bit(d[(i - 1) \div 6 + 1], 6, (i - 1) % 6)
  <2>0. PICK x \in Nat : x = i - 1
    OBVIOUS
  <2>1. PICK q \in Nat, m \in 0..23 :
          /\ x = 24 * q + m
          /\ x \div 8 = 3 * q + (m \div 8) /\ x % 8 = m % 8
          /\ x \div 6 = 4 * q + (m \div 6) /\ x % 6 = m % 6
    BY BitPlace
  <2>2. x < 8 * L /\ x < 6 * n
    BY <1>1, <2>0
  <2>3. ASSUME NEW j \in 1..n PROVE d[j] = Sextet(t, j) /\ d[j] \in 0..63
    BY DEF AreDigits
  <2> SUFFICES Bit(bytes[x \div 8 + 1], 8, x % 8) = Bit(d[x \div 6 + 1], 6, x % 6)
    BY <2>0
  <2>4. CASE m \in 0..7
    <3>1. 3 * q + 1 <= L /\ m \div 8 = 0 /\ m % 8 = m
      <4>1. 24 * q + m < 8 * L
        BY <2>1, <2>2
      <4>2. 3 * q + 1 <= L
        BY <1>1, <2>4, <4>1
      <4>3. m \div 8 = 0 /\ m % 8 = m
        BY <2>4
      <4> QED BY <4>2, <4>3
    <3>2. 4 * q + 1 \in 1..n /\ 4 * q + 2 \in 1..n
      BY <1>1, <3>1
    <3>3. PICK a \in 0..63, b \in 0..63 : a = d[4 * q + 1] /\ b = d[4 * q + 2]
      BY <2>3, <3>2
    <3>4. bytes[3 * q + 1] = FirstByte(a, b)
      BY <2>3, <3>1, <3>2, <3>3 DEF StandFor
    <3>5. bytes[x \div 8 + 1] = FirstByte(a, b) /\ x % 8 = m
      <4>1. x \div 8 + 1 = 3 * q + 1
        BY <2>1, <3>1
      <4> QED BY <2>1, <3>1, <3>4, <4>1
    <3>6. CASE m \in 0..5
      <4>1. m \div 6 = 0 /\ m % 6 = m /\ m \in 0..5
        BY <3>6
      <4>2. x \div 6 + 1 = 4 * q + 1 /\ x % 6 = m
        BY <2>1, <4>1
      <4>3. Bit(FirstByte(a, b), 8, m) = Bit(a, 6, m)
        BY <4>1, FirstBits
      <4> QED BY <3>3, <3>5, <4>2, <4>3
    <3>7. CASE m \in 6..7
      <4>1. m \div 6 = 1 /\ m % 6 = m - 6 /\ m \in 6..7
        BY <3>7
      <4>2. x \div 6 + 1 = 4 * q + 2 /\ x % 6 = m - 6
        BY <2>1, <4>1
      <4>3. Bit(FirstByte(a, b), 8, m) = Bit(b, 6, m - 6)
        BY <4>1, FirstBits
      <4> QED BY <3>3, <3>5, <4>2, <4>3
    <3> QED BY <2>4, <3>6, <3>7
  <2>5. CASE m \in 8..15
    <3>1. 3 * q + 2 <= L /\ m \div 8 = 1 /\ m % 8 = m - 8
      <4>1. 24 * q + m < 8 * L
        BY <2>1, <2>2
      <4>2. 3 * q + 2 <= L
        BY <1>1, <2>5, <4>1
      <4>3. m \div 8 = 1 /\ m % 8 = m - 8
        BY <2>5
      <4> QED BY <4>2, <4>3
    <3>2. 4 * q + 2 \in 1..n /\ 4 * q + 3 \in 1..n
      BY <1>1, <3>1
    <3>3. PICK a \in 0..63, b \in 0..63 : a = d[4 * q + 2] /\ b = d[4 * q + 3]
      BY <2>3, <3>2
    <3>4. bytes[3 * q + 2] = SecondByte(a, b)
      BY <2>3, <3>1, <3>2, <3>3 DEF StandFor
    <3>5. bytes[x \div 8 + 1] = SecondByte(a, b) /\ x % 8 = m - 8
      <4>1. x \div 8 + 1 = 3 * q + 2
        BY <2>1, <3>1
      <4> QED BY <2>1, <3>1, <3>4, <4>1
    <3>6. CASE m \in 8..11
      <4>1. m \div 6 = 1 /\ m % 6 = (m - 8) + 2 /\ m - 8 \in 0..3
        BY <3>6
      <4>2. x \div 6 + 1 = 4 * q + 2 /\ x % 6 = (m - 8) + 2
        BY <2>1, <4>1
      <4>3. Bit(SecondByte(a, b), 8, m - 8) = Bit(a, 6, (m - 8) + 2)
        BY <4>1, SecondBits
      <4> QED BY <3>3, <3>5, <4>2, <4>3
    <3>7. CASE m \in 12..15
      <4>1. m \div 6 = 2 /\ m % 6 = (m - 8) - 4 /\ m - 8 \in 4..7
        BY <3>7
      <4>2. x \div 6 + 1 = 4 * q + 3 /\ x % 6 = (m - 8) - 4
        BY <2>1, <4>1
      <4>3. Bit(SecondByte(a, b), 8, m - 8) = Bit(b, 6, (m - 8) - 4)
        BY <4>1, SecondBits
      <4> QED BY <3>3, <3>5, <4>2, <4>3
    <3> QED BY <2>5, <3>6, <3>7
  <2>6. CASE m \in 16..23
    <3>1. 3 * q + 3 <= L /\ m \div 8 = 2 /\ m % 8 = m - 16
      <4>1. 24 * q + m < 8 * L
        BY <2>1, <2>2
      <4>2. 3 * q + 3 <= L
        BY <1>1, <2>6, <4>1
      <4>3. m \div 8 = 2 /\ m % 8 = m - 16
        BY <2>6
      <4> QED BY <4>2, <4>3
    <3>2. 4 * q + 3 \in 1..n /\ 4 * q + 4 \in 1..n
      BY <1>1, <3>1
    <3>3. PICK a \in 0..63, b \in 0..63 : a = d[4 * q + 3] /\ b = d[4 * q + 4]
      BY <2>3, <3>2
    <3>4. bytes[3 * q + 3] = ThirdByte(a, b)
      BY <2>3, <3>1, <3>2, <3>3 DEF StandFor
    <3>5. bytes[x \div 8 + 1] = ThirdByte(a, b) /\ x % 8 = m - 16
      <4>1. x \div 8 + 1 = 3 * q + 3
        BY <2>1, <3>1
      <4> QED BY <2>1, <3>1, <3>4, <4>1
    <3>6. CASE m \in 16..17
      <4>1. m \div 6 = 2 /\ m % 6 = (m - 16) + 4 /\ m - 16 \in 0..1
        BY <3>6
      <4>2. x \div 6 + 1 = 4 * q + 3 /\ x % 6 = (m - 16) + 4
        BY <2>1, <4>1
      <4>3. Bit(ThirdByte(a, b), 8, m - 16) = Bit(a, 6, (m - 16) + 4)
        BY <4>1, ThirdBits
      <4> QED BY <3>3, <3>5, <4>2, <4>3
    <3>7. CASE m \in 18..23
      <4>1. m \div 6 = 3 /\ m % 6 = (m - 16) - 2 /\ m - 16 \in 2..7
        BY <3>7
      <4>2. x \div 6 + 1 = 4 * q + 4 /\ x % 6 = (m - 16) - 2
        BY <2>1, <4>1
      <4>3. Bit(ThirdByte(a, b), 8, m - 16) = Bit(b, 6, (m - 16) - 2)
        BY <4>1, ThirdBits
      <4> QED BY <3>3, <3>5, <4>2, <4>3
    <3> QED BY <2>6, <3>6, <3>7
  <2> QED BY <2>4, <2>5, <2>6
<1> DEFINE f(i) == Bit(d[(i - 1) \div 6 + 1], 6, (i - 1) % 6)
           S == {f(i) : i \in 1..(6 * n)}
<1>5. Base64Of!Bits(d, 6) \in Seq(S) /\ Len(Base64Of!Bits(d, 6)) = 6 * n
  <2>1. PICK k \in Nat : k = 6 * n
    OBVIOUS
  <2> HIDE DEF f
  <2>2. Base64Of!Bits(d, 6) = [i \in 1..k |-> f(i)]
    BY <1>2, <2>1 DEF f
  <2>3. Base64Of!Bits(d, 6) \in [1..k -> S]
    BY <2>1, <2>2
  <2> HIDE DEF S
  <2>4. Base64Of!Bits(d, 6) \in Seq(S)
    BY <2>1, <2>3
  <2> QED BY <2>1, <2>2, <2>4
<1>6. SubSeq(Base64Of!Bits(d, 6), 1, 8 * L) = [i \in 1..(8 * L) |-> Base64Of!Bits(d, 6)[i]]
  BY <1>1, <1>5
<1>7. ASSUME NEW i \in 1..(8 * L)
      PROVE  Base64Of!Bits(d, 6)[i] = Bit(bytes[(i - 1) \div 8 + 1], 8, (i - 1) % 8)
  <2>1. i \in 1..(6 * n)
    BY <1>1
  <2> QED BY <1>2, <1>4, <2>1
<1>8. \A i \in 1..(6 * n) : Base64Of!Bits(d, 6)[i] = DigitBit(d, i)
  BY <1>2 DEF DigitBit
<1> QED BY ZenonT(30), <1>2, <1>3, <1>5, <1>6, <1>7, <1>8

-----------------------------------------------------------------------------
(* Base64: blocks *)

\* Encode takes a block apart into four digits that stand for its bytes; a zero
\* at its end leaves zeros in a digit (Base64.cpp:30-48).
LEMMA EncodedBlock ==
  ASSUME NEW block \in Seq(0..255), Len(block) = 3, NEW e, e = Base64Of!EncodeBlock(block)
  PROVE  /\ e \in Seq(0..127) /\ Len(e) = 4 /\ AreDigits(e, 4)
         /\ FirstByte(Sextet(e, 1), Sextet(e, 2)) = block[1]
         /\ SecondByte(Sextet(e, 2), Sextet(e, 3)) = block[2]
         /\ ThirdByte(Sextet(e, 3), Sextet(e, 4)) = block[3]
         /\ block[2] = 0 => Sextet(e, 2) % 16 = 0
         /\ block[3] = 0 => Sextet(e, 3) % 4 = 0
<1>p. block \in [1..3 -> 0..255]
  <2>1. block \in [1..Len(block) -> 0..255]
    BY LenProperties
  <2> QED BY <2>1
<1>q. block[1] \in 0..255 /\ block[2] \in 0..255 /\ block[3] \in 0..255
  BY ONLY <1>p
<1>a. PICK a \in 0..255 : a = block[1]
  BY <1>q
<1>b. PICK b \in 0..255 : b = block[2]
  BY <1>q
<1>c. PICK c \in 0..255 : c = block[3]
  BY <1>q
<1>0. PICK s, t, u, v : /\ s = a \div 4 /\ t = (a % 4) * 16 + (b \div 16)
                        /\ u = (b % 16) * 4 + (c \div 64) /\ v = c % 64
  OBVIOUS
<1>1. e = <<Base64Of!EncodeLookup(s), Base64Of!EncodeLookup(t), Base64Of!EncodeLookup(u),
            Base64Of!EncodeLookup(v)>>
  BY <1>a, <1>b, <1>c, <1>0 DEF Base64Of!EncodeBlock, Base64Of!ThirdSextet
<1>2. /\ s \in 0..63 /\ t \in 0..63 /\ u \in 0..63 /\ v \in 0..63
      /\ FirstByte(s, t) = a /\ SecondByte(t, u) = b /\ ThirdByte(u, v) = c
      /\ b = 0 => t % 16 = 0
      /\ c = 0 => u % 4 = 0
  <2>1. /\ s \in 0..63 /\ t \in 0..63 /\ u \in 0..63 /\ v \in 0..63
    BY ONLY <1>0, a \in 0..255, b \in 0..255, c \in 0..255
  <2>2. FirstByte(s, t) = a
    <3>1. (t \div 16) % 4 = a % 4
      BY ONLY <1>0, a \in 0..255, b \in 0..255, c \in 0..255
    <3> QED BY ONLY <1>0, <3>1, a \in 0..255, b \in 0..255, c \in 0..255 DEF FirstByte
  <2>3. SecondByte(t, u) = b
    <3>1. t % 16 = b \div 16 /\ (u \div 4) % 16 = b % 16
      BY ONLY <1>0, a \in 0..255, b \in 0..255, c \in 0..255
    <3> QED BY <3>1 DEF SecondByte
  <2>4. ThirdByte(u, v) = c
    <3>1. u % 4 = c \div 64
      BY ONLY <1>0, a \in 0..255, b \in 0..255, c \in 0..255
    <3> QED BY ONLY <1>0, <3>1, a \in 0..255, b \in 0..255, c \in 0..255 DEF ThirdByte
  <2>5. (b = 0 => t % 16 = 0) /\ (c = 0 => u % 4 = 0)
    BY ONLY <1>0, a \in 0..255, b \in 0..255, c \in 0..255
  <2> QED BY <2>1, <2>2, <2>3, <2>4, <2>5
<1>3. /\ Base64Of!EncodeLookup(s) \in 0..127 /\ Base64Of!EncodeLookup(t) \in 0..127
      /\ Base64Of!EncodeLookup(u) \in 0..127 /\ Base64Of!EncodeLookup(v) \in 0..127
      /\ Base64Of!DecodeLookup[Base64Of!EncodeLookup(s)] = s
      /\ Base64Of!DecodeLookup[Base64Of!EncodeLookup(t)] = t
      /\ Base64Of!DecodeLookup[Base64Of!EncodeLookup(u)] = u
      /\ Base64Of!DecodeLookup[Base64Of!EncodeLookup(v)] = v
  BY ZenonT(30), <1>2, Lookups
<1>4. /\ e \in Seq(0..127) /\ Len(e) = 4
      /\ Sextet(e, 1) = s /\ Sextet(e, 2) = t /\ Sextet(e, 3) = u /\ Sextet(e, 4) = v
  <2>1. /\ e \in Seq(0..127) /\ Len(e) = 4
        /\ e[1] = Base64Of!EncodeLookup(s) /\ e[2] = Base64Of!EncodeLookup(t)
        /\ e[3] = Base64Of!EncodeLookup(u) /\ e[4] = Base64Of!EncodeLookup(v)
    <3>1. PICK w \in 0..127, x \in 0..127, y \in 0..127, z \in 0..127 :
             /\ w = Base64Of!EncodeLookup(s) /\ x = Base64Of!EncodeLookup(t)
             /\ y = Base64Of!EncodeLookup(u) /\ z = Base64Of!EncodeLookup(v)
      BY <1>3
    <3>2. e = <<w, x, y, z>>
      BY <1>1, <3>1
    <3>3. e \in Seq(0..127) /\ Len(e) = 4 /\ e[1] = w /\ e[2] = x /\ e[3] = y /\ e[4] = z
      BY ONLY <3>2, w \in 0..127, x \in 0..127, y \in 0..127, z \in 0..127
    <3> QED BY <3>1, <3>3
  <2> QED BY <1>3, <2>1 DEF Sextet
<1>5. AreDigits(e, 4)
  <2> SUFFICES ASSUME NEW i \in 1..4 PROVE Sextet(e, i) \in 0..63
    BY DEF AreDigits
  <2>1. /\ Sextet(e, 1) \in 0..63 /\ Sextet(e, 2) \in 0..63
        /\ Sextet(e, 3) \in 0..63 /\ Sextet(e, 4) \in 0..63
    BY <1>2, <1>4
  <2>2. CASE i = 1
    BY <2>1, <2>2
  <2>3. CASE i = 2
    BY <2>1, <2>3
  <2>4. CASE i = 3
    BY <2>1, <2>4
  <2>5. CASE i = 4
    BY <2>1, <2>5
  <2> QED BY <2>2, <2>3, <2>4, <2>5
<1> QED BY <1>a, <1>b, <1>c, <1>2, <1>4, <1>5

\* The digits and the padding of one or two last bytes (Base64.cpp:50-74).
LEMMA PartialBlock ==
  ASSUME NEW block \in Seq(0..255), NEW k \in 1..2, Len(block) = k,
         NEW e, e = Base64Of!EncodePartialBlock(block)
  PROVE  /\ e \in Seq(0..127) /\ Len(e) = 4 /\ AreDigits(e, k + 1)
         /\ \A i \in (k + 2)..4 : e[i] = Base64Of!Pad
         /\ FirstByte(Sextet(e, 1), Sextet(e, 2)) = block[1]
         /\ k = 2 => SecondByte(Sextet(e, 2), Sextet(e, 3)) = block[2]
         /\ k = 1 => Sextet(e, 2) % 16 = 0
         /\ k = 2 => Sextet(e, 3) % 4 = 0
<1> DEFINE b == IF k = 1 THEN 0 ELSE block[2]
           f == Base64Of!EncodeBlock(<<block[1], b, 0>>)
<1> DEFINE zeros == [i \in 1..(3 - k) |-> 0]
<1>1. block[1] \in 0..255 /\ b \in 0..255 /\ (k = 2 => b = block[2]) /\ (k = 1 => b = 0)
  <2>1. 1 \in 1..Len(block) /\ (k = 2 => 2 \in 1..Len(block))
    OBVIOUS
  <2> QED BY <2>1, Item
<1>2. block \o zeros = <<block[1], b, 0>>
  <2>1. zeros \in Seq(0..255) /\ Len(zeros) = 3 - k /\ \A i \in 1..(3 - k) : zeros[i] = 0
    OBVIOUS
  <2> HIDE DEF zeros, b
  <2> DEFINE new == block \o zeros
  <2>2. /\ new \in Seq(0..255) /\ Len(new) = 3
        /\ \A i \in 1..k : new[i] = block[i]
        /\ \A i \in 1..(3 - k) : new[k + i] = zeros[i]
    <3> HIDE DEF new
    <3>1. new = block \o zeros
      BY DEF new
    <3>2. new \in Seq(0..255) /\ Len(new) = k + (3 - k)
      BY <2>1, <3>1
    <3> QED BY <2>1, <3>1, <3>2, Concat
  <2> HIDE DEF new
  <2>3. new[1] = block[1] /\ new[2] = b /\ new[3] = 0
    <3>1. CASE k = 1
      <4>1. 1 \in 1..(3 - k) /\ 2 \in 1..(3 - k) /\ k + 1 = 2 /\ k + 2 = 3 /\ 1 \in 1..k
        BY <3>1
      <4> QED BY <1>1, <2>1, <2>2, <3>1, <4>1
    <3>2. CASE k = 2
      <4>1. 1 \in 1..(3 - k) /\ k + 1 = 3 /\ 1 \in 1..k /\ 2 \in 1..k
        BY <3>2
      <4> QED BY <1>1, <2>1, <2>2, <3>2, <4>1
    <3> QED BY <3>1, <3>2
  <2>4. new = <<new[1], new[2], new[3]>>
    BY <2>2
  <2> QED BY <2>3, <2>4 DEF new
<1>3. e = SubSeq(f, 1, k + 1) \o [i \in 1..(3 - k) |-> Base64Of!Pad]
  BY <1>2, 3 - Len(block) = 3 - k DEF Base64Of!EncodePartialBlock
<1> HIDE DEF b
<1>4. /\ f \in Seq(0..127) /\ Len(f) = 4 /\ AreDigits(f, 4)
      /\ FirstByte(Sextet(f, 1), Sextet(f, 2)) = block[1]
      /\ SecondByte(Sextet(f, 2), Sextet(f, 3)) = b
      /\ b = 0 => Sextet(f, 2) % 16 = 0
      /\ Sextet(f, 3) % 4 = 0
  <2> DEFINE new == <<block[1], b, 0>>
  <2>1. new \in Seq(0..255) /\ Len(new) = 3 /\ new[1] = block[1] /\ new[2] = b /\ new[3] = 0
    <3>1. PICK x \in 0..255 : x = block[1]
      BY <1>1
    <3>2. new = <<x, b, 0>>
      BY <3>1
    <3>3. new \in Seq(0..255) /\ Len(new) = 3 /\ new[1] = x /\ new[2] = b /\ new[3] = 0
      BY <1>1, <3>2
    <3> QED BY <3>1, <3>3
  <2>2. f = Base64Of!EncodeBlock(new)
    OBVIOUS
  <2> HIDE DEF f, new
  <2> QED BY <2>1, <2>2, EncodedBlock
<1> HIDE DEF f
<1>5. /\ e \in Seq(0..127) /\ Len(e) = 4
      /\ \A i \in 1..(k + 1) : e[i] = f[i]
      /\ \A i \in (k + 2)..4 : e[i] = Base64Of!Pad
  <2> DEFINE front == SubSeq(f, 1, k + 1)
             pads == [i \in 1..(3 - k) |-> Base64Of!Pad]
  <2>1. /\ front \in Seq(0..127) /\ Len(front) = k + 1
        /\ \A i \in 1..(k + 1) : front[i] = f[i]
    <3>1. PICK m \in 2..3 : m = k + 1
      OBVIOUS
    <3>2. /\ f \in Seq(0..127) /\ m \in Nat /\ m <= Len(f) /\ 1 \in 1..(m + 1)
          /\ front = SubSeq(f, 1, m)
      BY <1>4, <3>1
    <3> HIDE DEF front
    <3>3. front \in Seq(0..127) /\ Len(front) = m /\ \A i \in 1..m : front[i] = f[i]
      <4>1. \A i \in 1..m : f[i] \in 0..127
        <5>1. \A i \in 1..m : i \in 1..Len(f)
          BY ONLY <3>2
        <5> QED BY ONLY <3>2, <5>1, Item
      <4>2. front = [i \in 1..m |-> f[i]]
        BY <3>2, SubSeqProperties
      <4>3. front \in [1..m -> 0..127]
        BY <4>1, <4>2
      <4>4. front \in Seq(0..127) /\ Len(front) = m
        BY ONLY m \in 2..3, <4>3
      <4> QED BY <4>2, <4>4
    <3> QED BY <3>1, <3>3
  <2>2. /\ pads \in Seq(0..127) /\ Len(pads) = 3 - k
        /\ \A i \in 1..(3 - k) : pads[i] = Base64Of!Pad
    <3>1. PICK p \in 0..127 : p = Base64Of!Pad
      BY Lookups
    <3>2. PICK m \in 1..2 : m = 3 - k
      OBVIOUS
    <3>3. pads = [i \in 1..m |-> p]
      BY <3>1, <3>2
    <3>4. pads \in Seq(0..127) /\ Len(pads) = m /\ \A i \in 1..m : pads[i] = p
      <4>1. pads \in [1..m -> 0..127] /\ \A i \in 1..m : pads[i] = p
        BY <3>3
      <4> HIDE DEF pads
      <4> QED BY <4>1
    <3> QED BY <3>1, <3>2, <3>4
  <2>3. e = front \o pads
    BY <1>3
  <2> HIDE DEF front, pads
  <2>4. /\ e \in Seq(0..127) /\ Len(e) = (k + 1) + (3 - k)
        /\ \A i \in 1..(k + 1) : e[i] = front[i]
        /\ \A i \in 1..(3 - k) : e[(k + 1) + i] = pads[i]
    BY <2>1, <2>2, <2>3, Concat
  <2>5. ASSUME NEW i \in (k + 2)..4 PROVE e[i] = Base64Of!Pad
    <3>1. i - (k + 1) \in 1..(3 - k) /\ i = (k + 1) + (i - (k + 1))
      OBVIOUS
    <3> QED BY <2>2, <2>4, <3>1
  <2> QED BY <2>1, <2>4, <2>5
<1>6. \A i \in 1..(k + 1) : Sextet(e, i) = Sextet(f, i)
  BY <1>5 DEF Sextet
<1>7. AreDigits(e, k + 1)
  <2> SUFFICES ASSUME NEW i \in 1..(k + 1) PROVE Sextet(e, i) \in 0..63
    BY DEF AreDigits
  <2>1. i \in 1..4
    OBVIOUS
  <2> QED BY <1>4, <1>6, <2>1 DEF AreDigits
<1>8. /\ Sextet(e, 1) = Sextet(f, 1) /\ Sextet(e, 2) = Sextet(f, 2)
      /\ k = 2 => Sextet(e, 3) = Sextet(f, 3)
  BY <1>6
<1> QED BY <1>1, <1>4, <1>5, <1>7, <1>8

\* The k bytes behind q whole blocks are what the digits of a block stand for.
BlockFor(e, bytes, q, k) ==
  /\ bytes[3 * q + 1] = FirstByte(Sextet(e, 1), Sextet(e, 2))
  /\ k >= 2 => bytes[3 * q + 2] = SecondByte(Sextet(e, 2), Sextet(e, 3))
  /\ k >= 3 => bytes[3 * q + 3] = ThirdByte(Sextet(e, 3), Sextet(e, 4))

\* A text of q whole blocks, and a block of k bytes that comes behind it.
Joined(t, e) == t \o e

Fits(t, bytes, q, e, k) ==
  /\ q \in Nat /\ t \in Seq(0..127) /\ Len(t) = 4 * q /\ AreDigits(t, 4 * q)
  /\ StandFor(t, bytes, 3 * q)
  /\ e \in Seq(0..127) /\ Len(e) = 4 /\ k \in 1..3 /\ AreDigits(e, k + 1)
  /\ BlockFor(e, bytes, q, k)

Fitted(t, bytes, q, e, k) ==
  /\ t \in Seq(0..127) /\ Len(t) = 4 * q + 4
  /\ \A i \in 1..4 : t[4 * q + i] = e[i] /\ Sextet(t, 4 * q + i) = Sextet(e, i)
  /\ AreDigits(t, 4 * q + k + 1)
  /\ StandFor(t, bytes, 3 * q + k)

\* The text goes on as the bytes do.
LEMMA TextAndBlock ==
  ASSUME NEW t, NEW bytes, NEW q, NEW e, NEW k, Fits(t, bytes, q, e, k), NEW new, new = Joined(t, e)
  PROVE  Fitted(new, bytes, q, e, k)
<1>a. /\ q \in Nat /\ t \in Seq(0..127) /\ Len(t) = 4 * q /\ AreDigits(t, 4 * q)
      /\ StandFor(t, bytes, 3 * q)
      /\ e \in Seq(0..127) /\ Len(e) = 4 /\ k \in 1..3 /\ AreDigits(e, k + 1)
      /\ BlockFor(e, bytes, q, k)
  BY DEF Fits
<1> USE <1>a
<1>1. /\ new \in Seq(0..127) /\ Len(new) = 4 * q + 4
      /\ \A i \in 1..(4 * q) : new[i] = t[i]
      /\ \A i \in 1..4 : new[4 * q + i] = e[i]
  <2>1. PICK m \in Nat : m = 4 * q
    OBVIOUS
  <2>2. PICK n \in Nat : n = 4
    OBVIOUS
  <2>3. /\ t \in Seq(0..127) /\ m = Len(t) /\ e \in Seq(0..127) /\ n = Len(e)
        /\ new = t \o e
    BY <2>1, <2>2 DEF Joined
  <2>4. /\ new \in Seq(0..127) /\ Len(new) = m + n
        /\ \A i \in 1..m : new[i] = t[i]
        /\ \A i \in 1..n : new[m + i] = e[i]
    BY ONLY <2>3, Concat
  <2> QED BY <2>1, <2>2, <2>4
<1>2. /\ \A i \in 1..(4 * q) : Sextet(new, i) = Sextet(t, i)
      /\ \A i \in 1..4 : Sextet(new, 4 * q + i) = Sextet(e, i)
  BY <1>1 DEF Sextet
<1>3. ASSUME NEW i \in 1..(4 * q + k + 1) PROVE Sextet(new, i) \in 0..63
  <2>1. CASE i <= 4 * q
    <3>1. i \in 1..(4 * q)
      BY <2>1
    <3> QED BY <1>2, <3>1 DEF AreDigits
  <2>2. CASE i > 4 * q
    <3>1. PICK j \in 1..(k + 1) : i = 4 * q + j
      <4>1. i - 4 * q \in 1..(k + 1) /\ i = 4 * q + (i - 4 * q)
        BY <2>2
      <4> QED BY <4>1
    <3>2. j \in 1..4
      OBVIOUS
    <3> QED BY <1>2, <3>1, <3>2 DEF AreDigits
  <2> QED BY <2>1, <2>2
<1>4. ASSUME NEW r \in Nat
      PROVE  /\ 3 * r + 1 <= 3 * q + k =>
                  bytes[3 * r + 1] = FirstByte(Sextet(new, 4 * r + 1), Sextet(new, 4 * r + 2))
             /\ 3 * r + 2 <= 3 * q + k =>
                  bytes[3 * r + 2] = SecondByte(Sextet(new, 4 * r + 2), Sextet(new, 4 * r + 3))
             /\ 3 * r + 3 <= 3 * q + k =>
                  bytes[3 * r + 3] = ThirdByte(Sextet(new, 4 * r + 3), Sextet(new, 4 * r + 4))
  <2>1. CASE r < q
    <3>1. 4 * r + 1 \in 1..(4 * q) /\ 4 * r + 2 \in 1..(4 * q) /\ 4 * r + 3 \in 1..(4 * q)
          /\ 4 * r + 4 \in 1..(4 * q) /\ 3 * r + 3 <= 3 * q
      BY <2>1
    <3>2. /\ Sextet(new, 4 * r + 1) = Sextet(t, 4 * r + 1) /\ Sextet(new, 4 * r + 2) = Sextet(t, 4 * r + 2)
          /\ Sextet(new, 4 * r + 3) = Sextet(t, 4 * r + 3) /\ Sextet(new, 4 * r + 4) = Sextet(t, 4 * r + 4)
      BY <1>2, <3>1
    <3> QED BY <3>1, <3>2 DEF StandFor
  <2>2. CASE r = q
    <3>1. /\ Sextet(new, 4 * r + 1) = Sextet(e, 1) /\ Sextet(new, 4 * r + 2) = Sextet(e, 2)
          /\ Sextet(new, 4 * r + 3) = Sextet(e, 3) /\ Sextet(new, 4 * r + 4) = Sextet(e, 4)
      BY <1>2, <2>2
    <3> QED BY <2>2, <3>1 DEF BlockFor
  <2>3. CASE r > q
    <3>1. ~(3 * r + 1 <= 3 * q + k) /\ ~(3 * r + 2 <= 3 * q + k) /\ ~(3 * r + 3 <= 3 * q + k)
      BY <2>3
    <3> QED BY <3>1
  <2> QED BY <2>1, <2>2, <2>3
<1>5. AreDigits(new, 4 * q + k + 1) /\ StandFor(new, bytes, 3 * q + k)
  BY ONLY <1>3, <1>4 DEF AreDigits, StandFor
<1> QED BY <1>1, <1>2, <1>5 DEF Fitted

\* The bytes of q whole blocks, and those of a block that come behind them.
BytesFit(t, bytes, q, block, k) ==
  /\ q \in Nat /\ bytes \in Seq(0..255) /\ Len(bytes) = 3 * q /\ StandFor(t, bytes, 3 * q)
  /\ k \in 1..3 /\ block \in Seq(0..255) /\ Len(block) = k
  /\ block[1] = FirstByte(Sextet(t, 4 * q + 1), Sextet(t, 4 * q + 2))
  /\ k >= 2 => block[2] = SecondByte(Sextet(t, 4 * q + 2), Sextet(t, 4 * q + 3))
  /\ k >= 3 => block[3] = ThirdByte(Sextet(t, 4 * q + 3), Sextet(t, 4 * q + 4))

\* The bytes go on as the text does.
LEMMA BytesAndBlock ==
  ASSUME NEW t, NEW bytes, NEW q, NEW block, NEW k, BytesFit(t, bytes, q, block, k),
         NEW new, new = Joined(bytes, block)
  PROVE  new \in Seq(0..255) /\ Len(new) = 3 * q + k /\ StandFor(t, new, 3 * q + k)
<1>a. /\ q \in Nat /\ bytes \in Seq(0..255) /\ Len(bytes) = 3 * q /\ StandFor(t, bytes, 3 * q)
      /\ k \in 1..3 /\ block \in Seq(0..255) /\ Len(block) = k
      /\ block[1] = FirstByte(Sextet(t, 4 * q + 1), Sextet(t, 4 * q + 2))
      /\ k >= 2 => block[2] = SecondByte(Sextet(t, 4 * q + 2), Sextet(t, 4 * q + 3))
      /\ k >= 3 => block[3] = ThirdByte(Sextet(t, 4 * q + 3), Sextet(t, 4 * q + 4))
  BY DEF BytesFit
<1> USE <1>a
<1>1. /\ new \in Seq(0..255) /\ Len(new) = 3 * q + k
      /\ \A i \in 1..(3 * q) : new[i] = bytes[i]
      /\ \A i \in 1..k : new[3 * q + i] = block[i]
  <2>1. PICK m \in Nat : m = 3 * q
    OBVIOUS
  <2>2. /\ bytes \in Seq(0..255) /\ m = Len(bytes) /\ block \in Seq(0..255) /\ k = Len(block)
        /\ new = bytes \o block
    BY <2>1 DEF Joined
  <2>3. /\ new \in Seq(0..255) /\ Len(new) = m + k
        /\ \A i \in 1..m : new[i] = bytes[i]
        /\ \A i \in 1..k : new[m + i] = block[i]
    BY ONLY <2>2, Concat
  <2> QED BY <2>1, <2>3
<1>2. ASSUME NEW r \in Nat
      PROVE  /\ 3 * r + 1 <= 3 * q + k =>
                  new[3 * r + 1] = FirstByte(Sextet(t, 4 * r + 1), Sextet(t, 4 * r + 2))
             /\ 3 * r + 2 <= 3 * q + k =>
                  new[3 * r + 2] = SecondByte(Sextet(t, 4 * r + 2), Sextet(t, 4 * r + 3))
             /\ 3 * r + 3 <= 3 * q + k =>
                  new[3 * r + 3] = ThirdByte(Sextet(t, 4 * r + 3), Sextet(t, 4 * r + 4))
  <2>1. CASE r < q
    <3>1. 3 * r + 1 \in 1..(3 * q) /\ 3 * r + 2 \in 1..(3 * q) /\ 3 * r + 3 \in 1..(3 * q)
      BY <2>1
    <3>2. /\ new[3 * r + 1] = bytes[3 * r + 1] /\ new[3 * r + 2] = bytes[3 * r + 2]
          /\ new[3 * r + 3] = bytes[3 * r + 3]
      BY <1>1, <3>1
    <3>3. 3 * r + 1 <= 3 * q /\ 3 * r + 2 <= 3 * q /\ 3 * r + 3 <= 3 * q
      BY <2>1
    <3> QED BY <3>2, <3>3 DEF StandFor
  <2>2. CASE r = q
    <3>1. /\ new[3 * r + 1] = block[1]
          /\ k >= 2 => new[3 * r + 2] = block[2]
          /\ k >= 3 => new[3 * r + 3] = block[3]
      <4>1. 1 \in 1..k /\ (k >= 2 => 2 \in 1..k) /\ (k >= 3 => 3 \in 1..k)
        OBVIOUS
      <4> QED BY <1>1, <2>2, <4>1
    <3> QED BY <2>2, <3>1
  <2>3. CASE r > q
    <3>1. ~(3 * r + 1 <= 3 * q + k) /\ ~(3 * r + 2 <= 3 * q + k) /\ ~(3 * r + 3 <= 3 * q + k)
      BY <2>3
    <3> QED BY <3>1
  <2>4. r < q \/ r = q \/ r > q
    OBVIOUS
  <2> QED BY ZenonT(40), <2>1, <2>2, <2>3, <2>4
<1>3. StandFor(t, new, 3 * q + k)
  BY ONLY <1>2 DEF StandFor
<1> QED BY <1>1, <1>3

\* The characters or bytes of a block that begins behind the first a.
Block(s, a, n) == SubSeq(s, a + 1, a + n)

HasBlock(S, s, a, n) == s \in Seq(S) /\ a \in Nat /\ n \in 1..4 /\ a + n <= Len(s)

\* It has the items of the sequence that it was taken from.
LEMMA BlockAt ==
  ASSUME NEW S, NEW s, NEW a, NEW n, HasBlock(S, s, a, n), NEW new, new = Block(s, a, n)
  PROVE  new \in Seq(S) /\ Len(new) = n /\ \A i \in 1..n : new[i] = s[a + i]
<1>a. s \in Seq(S) /\ a \in Nat /\ n \in 1..4 /\ a + n <= Len(s)
  BY DEF HasBlock
<1> USE <1>a
<1>0. PICK lo \in Int, hi \in Int : lo = a + 1 /\ hi = a + n /\ new = SubSeq(s, lo, hi)
  BY DEF Block
<1>1. lo \in Int /\ hi \in Int /\ \A i \in lo..hi : s[i] \in S
  <2>1. \A i \in lo..hi : i \in 1..Len(s)
    BY <1>0
  <2> QED BY <2>1, Item
<1>2. /\ new \in Seq(S) /\ Len(new) = IF lo <= hi THEN hi - lo + 1 ELSE 0
      /\ \A i \in 1..(hi - lo + 1) : new[i] = s[lo + i - 1]
  BY <1>0, <1>1, SubSeqProperties
<1>3. lo <= hi /\ hi - lo + 1 = n /\ \A i \in 1..n : lo + i - 1 = a + i
  BY <1>0
<1> QED BY <1>2, <1>3

\* What the asserts of Decode let through: digits, two at least, and padding
\* behind them (Base64.cpp:76-147).
IsBlock(chars, k) == AreDigits(chars, k + 1) /\ (k < 3 => chars[k + 2] = Base64Of!Pad)

\* Decode makes bytes of exactly these, as many as it has digits but one.
LEMMA DecodedBlock ==
  ASSUME NEW chars \in Seq(0..127), Len(chars) = 4, NEW block, block = Base64Of!DecodeBlock(chars)
  PROVE  /\ block # <<>> =>
              /\ block \in Seq(0..255) /\ Len(block) \in 1..3 /\ IsBlock(chars, Len(block))
              /\ block[1] = FirstByte(Sextet(chars, 1), Sextet(chars, 2))
              /\ Len(block) >= 2 => block[2] = SecondByte(Sextet(chars, 2), Sextet(chars, 3))
              /\ Len(block) >= 3 => block[3] = ThirdByte(Sextet(chars, 3), Sextet(chars, 4))
         /\ \A k \in 1..3 : IsBlock(chars, k) => block # <<>> /\ Len(block) = k
<1>1. \A i \in 1..4 : chars[i] \in 0..127
  BY Item
<1>2. PICK s1, s2, s3, s4 : /\ s1 = Sextet(chars, 1) /\ s2 = Sextet(chars, 2)
                            /\ s3 = Sextet(chars, 3) /\ s4 = Sextet(chars, 4)
  OBVIOUS
<1>3. /\ {s1, s2, s3, s4} \subseteq 0..63 \cup {Base64Of!Invalid}
      /\ chars[3] = Base64Of!Pad => s3 = Base64Of!Invalid
      /\ chars[4] = Base64Of!Pad => s4 = Base64Of!Invalid
      /\ Base64Of!Invalid \notin 0..63
  <2>1. \A i \in 1..4 : Sextet(chars, i) \in 0..63 \cup {Base64Of!Invalid}
    BY <1>1, Lookups DEF Sextet
  <2>2. /\ chars[3] = Base64Of!Pad => s3 = Base64Of!Invalid
        /\ chars[4] = Base64Of!Pad => s4 = Base64Of!Invalid
    BY <1>2, Lookups DEF Sextet
  <2>3. Base64Of!Invalid \notin 0..63
    BY Lookups
  <2> QED BY <1>2, <2>1, <2>2, <2>3
<1>4. block = IF Base64Of!Invalid \in {s1, s2} THEN <<>>
              ELSE IF chars[3] = Base64Of!Pad THEN <<FirstByte(s1, s2)>>
              ELSE IF s3 = Base64Of!Invalid THEN <<>>
              ELSE IF chars[4] = Base64Of!Pad THEN <<FirstByte(s1, s2), SecondByte(s2, s3)>>
              ELSE IF s4 = Base64Of!Invalid THEN <<>>
              ELSE <<FirstByte(s1, s2), SecondByte(s2, s3), ThirdByte(s3, s4)>>
  <2> DEFINE s == [i \in 1..4 |-> Base64Of!DecodeLookup[chars[i]]]
  <2>1. s[1] = s1 /\ s[2] = s2 /\ s[3] = s3 /\ s[4] = s4
    BY <1>2 DEF Sextet
  <2>2. block = IF Base64Of!Invalid \in {s[1], s[2]} THEN <<>>
                ELSE IF chars[3] = Base64Of!Pad THEN <<FirstByte(s[1], s[2])>>
                ELSE IF s[3] = Base64Of!Invalid THEN <<>>
                ELSE IF chars[4] = Base64Of!Pad THEN <<FirstByte(s[1], s[2]), SecondByte(s[2], s[3])>>
                ELSE IF s[4] = Base64Of!Invalid THEN <<>>
                ELSE <<FirstByte(s[1], s[2]), SecondByte(s[2], s[3]), ThirdByte(s[3], s[4])>>
    BY ZenonT(40) DEF Base64Of!DecodeBlock, FirstByte, SecondByte, ThirdByte
  <2> HIDE DEF s
  <2> QED BY ZenonT(40), <2>1, <2>2
<1>5. /\ AreDigits(chars, 2) <=> s1 \in 0..63 /\ s2 \in 0..63
      /\ AreDigits(chars, 3) <=> s1 \in 0..63 /\ s2 \in 0..63 /\ s3 \in 0..63
      /\ AreDigits(chars, 4) <=> s1 \in 0..63 /\ s2 \in 0..63 /\ s3 \in 0..63 /\ s4 \in 0..63
  <2>1. 1..2 = {1, 2} /\ 1..3 = {1, 2, 3} /\ 1..4 = {1, 2, 3, 4}
    OBVIOUS
  <2> QED BY <1>2, <2>1 DEF AreDigits
<1>6. /\ IsBlock(chars, 1) <=> s1 \in 0..63 /\ s2 \in 0..63 /\ chars[3] = Base64Of!Pad
      /\ IsBlock(chars, 2) <=> /\ s1 \in 0..63 /\ s2 \in 0..63 /\ s3 \in 0..63
                               /\ chars[4] = Base64Of!Pad
      /\ IsBlock(chars, 3) <=> s1 \in 0..63 /\ s2 \in 0..63 /\ s3 \in 0..63 /\ s4 \in 0..63
  <2>1. 1 + 1 = 2 /\ 1 + 2 = 3 /\ 2 + 1 = 3 /\ 2 + 2 = 4 /\ 3 + 1 = 4 /\ 1 < 3 /\ 2 < 3 /\ ~(3 < 3)
    OBVIOUS
  <2> QED BY <1>5, <2>1 DEF IsBlock
<1> DEFINE Found(k) == /\ block \in Seq(0..255) /\ Len(block) = k /\ block # <<>>
                       /\ block[1] = FirstByte(s1, s2)
                       /\ k >= 2 => block[2] = SecondByte(s2, s3)
                       /\ k >= 3 => block[3] = ThirdByte(s3, s4)
<1>7. \/ block = <<>> /\ ~IsBlock(chars, 1) /\ ~IsBlock(chars, 2) /\ ~IsBlock(chars, 3)
      \/ Found(1) /\ IsBlock(chars, 1) /\ ~IsBlock(chars, 2) /\ ~IsBlock(chars, 3)
      \/ Found(2) /\ ~IsBlock(chars, 1) /\ IsBlock(chars, 2) /\ ~IsBlock(chars, 3)
      \/ Found(3) /\ ~IsBlock(chars, 1) /\ ~IsBlock(chars, 2) /\ IsBlock(chars, 3)
  <2>1. CASE Base64Of!Invalid \in {s1, s2}
    <3>1. block = <<>>
      BY <1>4, <2>1
    <3> QED BY <1>3, <1>6, <2>1, <3>1
  <2>2. CASE Base64Of!Invalid \notin {s1, s2} /\ chars[3] = Base64Of!Pad
    <3>1. PICK a \in 0..255 : a = FirstByte(s1, s2)
      BY <1>3, <2>2, ByteRange
    <3>2. block = <<a>>
      BY <1>4, <2>2, <3>1
    <3>3. Found(1)
      BY <3>1, <3>2
    <3> HIDE DEF Found
    <3>4. s1 \in 0..63 /\ s2 \in 0..63 /\ s3 \notin 0..63
      <4>1. s1 \in 0..63 \cup {Base64Of!Invalid} /\ s2 \in 0..63 \cup {Base64Of!Invalid}
        BY ONLY <1>3
      <4>2. s1 # Base64Of!Invalid /\ s2 # Base64Of!Invalid /\ s3 = Base64Of!Invalid
        BY ONLY <1>3, <2>2
      <4> QED BY ONLY <1>3, <4>1, <4>2
    <3>5. IsBlock(chars, 1) /\ ~IsBlock(chars, 2) /\ ~IsBlock(chars, 3)
      BY ONLY <1>6, <2>2, <3>4
    <3> QED BY ONLY <3>3, <3>5
  <2>3. CASE Base64Of!Invalid \notin {s1, s2} /\ chars[3] # Base64Of!Pad /\ s3 = Base64Of!Invalid
    <3>1. block = <<>>
      BY <1>4, <2>3
    <3> QED BY <1>3, <1>6, <2>3, <3>1
  <2>4. CASE /\ Base64Of!Invalid \notin {s1, s2, s3} /\ chars[3] # Base64Of!Pad
             /\ chars[4] = Base64Of!Pad
    <3>1. PICK a \in 0..255, b \in 0..255 : a = FirstByte(s1, s2) /\ b = SecondByte(s2, s3)
      BY <1>3, <2>4, ByteRange
    <3>2. block = <<a, b>>
      BY <1>4, <2>4, <3>1
    <3>3. Found(2)
      BY <3>1, <3>2
    <3>4. s1 \in 0..63 /\ s2 \in 0..63 /\ s3 \in 0..63
      BY <1>3, <2>4
    <3>5. ~IsBlock(chars, 1) /\ IsBlock(chars, 2) /\ ~IsBlock(chars, 3)
      BY <1>3, <1>6, <2>4, <3>4
    <3> QED BY <3>3, <3>5
  <2>5. CASE /\ Base64Of!Invalid \notin {s1, s2, s3} /\ chars[3] # Base64Of!Pad
             /\ chars[4] # Base64Of!Pad /\ s4 = Base64Of!Invalid
    <3>1. block = <<>>
      BY <1>4, <2>5
    <3> QED BY <1>3, <1>6, <2>5, <3>1
  <2>6. CASE /\ Base64Of!Invalid \notin {s1, s2, s3, s4} /\ chars[3] # Base64Of!Pad
             /\ chars[4] # Base64Of!Pad
    <3>1. PICK a \in 0..255, b \in 0..255, c \in 0..255 :
             a = FirstByte(s1, s2) /\ b = SecondByte(s2, s3) /\ c = ThirdByte(s3, s4)
      BY ZenonT(30), <1>3, <2>6, ByteRange
    <3>2. block = <<a, b, c>>
      BY <1>4, <2>6, <3>1
    <3>3. Found(3)
      BY <3>1, <3>2
    <3> HIDE DEF Found
    <3> QED BY <1>3, <1>6, <2>6, <3>3
  <2> QED BY <2>1, <2>2, <2>3, <2>4, <2>5, <2>6
<1>8. \A k \in 1..3 : IsBlock(chars, k) => block # <<>> /\ Len(block) = k
  <2> SUFFICES ASSUME NEW k \in 1..3, IsBlock(chars, k) PROVE block # <<>> /\ Len(block) = k
    OBVIOUS
  <2>1. k = 1 \/ k = 2 \/ k = 3
    OBVIOUS
  <2> QED BY <1>7, <2>1
<1>9. ASSUME block # <<>> PROVE \E k \in 1..3 : Found(k) /\ IsBlock(chars, k)
  <2>1. 1 \in 1..3 /\ 2 \in 1..3 /\ 3 \in 1..3
    OBVIOUS
  <2> HIDE DEF Found
  <2> QED BY <1>7, <1>9, <2>1
<1> QED BY <1>2, <1>8, <1>9

-----------------------------------------------------------------------------
(* Base64: the invariant *)

\* The first q whole blocks of the data have been encoded.
Encoding(t, d, q) ==
  Len(t) = 4 * q /\ 3 * q <= Len(d) /\ AreDigits(t, 4 * q) /\ StandFor(t, d, 3 * q)

\* All of the data has been encoded, q whole blocks and r bytes, into n digits.
EncodedAs(t, d, q, r, n) ==
  /\ Len(d) = 3 * q + r
  /\ r = 0 => n = 4 * q /\ Len(t) = 4 * q
  /\ r # 0 => n = 4 * q + r + 1 /\ Len(t) = 4 * q + 4
  /\ AreDigits(t, n)
  /\ \A i \in (n + 1)..Len(t) : t[i] = Base64Of!Pad
  /\ StandFor(t, d, Len(d))
  /\ r = 1 => Sextet(t, 4 * q + 2) % 16 = 0
  /\ r = 2 => Sextet(t, 4 * q + 3) % 4 = 0

Encoded(t, d) == \E q \in Nat, r \in 0..2, n \in Nat : EncodedAs(t, d, q, r, n)

\* The first k blocks of the text have been decoded; all but the last are whole.
Decoded(t, o, k) ==
  /\ 4 * k <= Len(t) /\ Len(o) <= 3 * k
  /\ AreDigits(t, Len(o) + k)
  /\ Len(o) < 3 * k => /\ Len(t) = 4 * k /\ Len(o) >= 3 * k - 2
                       /\ t[Len(o) + k + 1] = Base64Of!Pad
  /\ StandFor(t, o, Len(o))

BaseInv ==
  /\ Base64Of!TypeOK
  /\ bPc = "encode" => bOut = <<>> /\ \E q \in Nat : bAt = 3 * q /\ Encoding(bText, bData, q)
  /\ bPc = "encoded" => bAt = 0 /\ bOut = <<>>
  /\ bPc # "encode" /\ bData # <<>> => Encoded(bText, bData)
  /\ bPc = "decode" => \E blocks \in Nat : /\ Len(bText) = 4 * blocks /\ bAt \in 0..blocks
                                           /\ Decoded(bText, bOut, bAt)
  /\ bPc = "done" => \E blocks \in Nat : Len(bText) = 4 * blocks /\ Decoded(bText, bOut, blocks)
  /\ bPc = "aborted" => bData = <<>>

\* At the start, nothing is encoded or decoded.
LEMMA BaseInitInvariant == Base64Of!Init \/ NoBase64 => BaseInv
<1>1. CASE Base64Of!Init
  <2>1. /\ \A d \in Data : d \in Seq(0..255)
        /\ \A t \in Texts : t \in Seq(0..127)
    BY EncodingsAssumption DEF Base64Of!Base64Assumption
  <2>2. CASE bPc = "encode"
    <3>1. bAt = 0 /\ bOut = <<>> /\ bText = <<>> /\ bData \in Data
      BY <1>1, <2>2 DEF Base64Of!Init
    <3>2. bData \in Seq(0..255)
      BY <2>1, <3>1
    <3>3. Encoding(bText, bData, 0)
      BY <3>1, <3>2 DEF Encoding, AreDigits, StandFor
    <3>4. Base64Of!TypeOK
      BY <2>2, <3>1, <3>2 DEF Base64Of!TypeOK
    <3>5. 0 \in Nat /\ bAt = 3 * 0
      BY <3>1
    <3> QED BY <2>2, <3>1, <3>3, <3>4, <3>5 DEF BaseInv
  <2>3. CASE bPc = "encoded"
    <3>1. bAt = 0 /\ bOut = <<>> /\ bText \in Texts /\ bData = <<>>
      BY <1>1, <2>3 DEF Base64Of!Init
    <3>2. bText \in Seq(0..127)
      BY <2>1, <3>1
    <3>3. Base64Of!TypeOK
      BY <2>3, <3>1, <3>2 DEF Base64Of!TypeOK
    <3> QED BY <2>3, <3>1, <3>3 DEF BaseInv
  <2> QED BY <1>1, <2>2, <2>3 DEF Base64Of!Init
<1>2. CASE NoBase64
  <2>1. /\ bPc = "done" /\ bData = <<>> /\ bOut = <<>> /\ bText = <<>> /\ bAt = 0
    BY <1>2 DEF NoBase64
  <2>2. Decoded(bText, bOut, 0) /\ Len(bText) = 4 * 0
    BY <2>1 DEF Decoded, AreDigits, StandFor
  <2>3. Base64Of!TypeOK
    BY <2>1 DEF Base64Of!TypeOK
  <2> QED BY <2>1, <2>2, <2>3 DEF BaseInv
<1> QED BY <1>1, <1>2

\* Encode appends the four digits of the next three bytes.
LEMMA BaseEncode ==
  ASSUME BaseInv, Base64Of!Encode
  PROVE  BaseInv'
<1>1. /\ bPc = "encode" /\ bAt + 2 < Len(bData) /\ bAt' = bAt + 3
      /\ bText' = bText \o Base64Of!EncodeBlock(SubSeq(bData, bAt + 1, bAt + 3))
      /\ bPc' = bPc /\ bData' = bData /\ bOut' = bOut
  BY DEF Base64Of!Encode
<1>2. bData \in Seq(0..255) /\ bText \in Seq(0..127) /\ bOut = <<>>
  BY <1>1 DEF BaseInv, Base64Of!TypeOK
<1>3. PICK q \in Nat : bAt = 3 * q /\ Encoding(bText, bData, q)
  BY <1>1 DEF BaseInv
<1>4. PICK block : block = SubSeq(bData, bAt + 1, bAt + 3)
  OBVIOUS
<1>5. /\ block \in Seq(0..255) /\ Len(block) = 3
      /\ block[1] = bData[3 * q + 1] /\ block[2] = bData[3 * q + 2] /\ block[3] = bData[3 * q + 3]
  <2>1. bAt \in Nat /\ bAt + 3 <= Len(bData)
    BY <1>1, <1>2, <1>3
  <2>2. block \in Seq(0..255) /\ Len(block) = 3 /\ \A i \in 1..3 : block[i] = bData[bAt + i]
    <3>1. PICK n \in 1..4 : n = 3
      OBVIOUS
    <3>2. HasBlock(0..255, bData, bAt, n) /\ block = Block(bData, bAt, n)
      BY <1>2, <1>4, <2>1, <3>1 DEF Block, HasBlock
    <3>3. block \in Seq(0..255) /\ Len(block) = n /\ \A i \in 1..n : block[i] = bData[bAt + i]
      BY <3>2, BlockAt
    <3> QED BY <3>1, <3>3
  <2> QED BY <1>3, <2>2
<1>6. PICK e : e = Base64Of!EncodeBlock(block)
  OBVIOUS
<1>7. /\ e \in Seq(0..127) /\ Len(e) = 4 /\ AreDigits(e, 4)
      /\ FirstByte(Sextet(e, 1), Sextet(e, 2)) = block[1]
      /\ SecondByte(Sextet(e, 2), Sextet(e, 3)) = block[2]
      /\ ThirdByte(Sextet(e, 3), Sextet(e, 4)) = block[3]
  BY <1>5, <1>6, EncodedBlock
<1>8. PICK new : new = bText \o e /\ new = bText'
  BY <1>1, <1>4, <1>6
<1>9. PICK k \in 1..3 : k = 3
  OBVIOUS
<1>10. /\ new \in Seq(0..127) /\ Len(new) = 4 * q + 4
       /\ AreDigits(new, 4 * q + k + 1) /\ StandFor(new, bData, 3 * q + k)
  <2>1. Len(bText) = 4 * q /\ AreDigits(bText, 4 * q) /\ StandFor(bText, bData, 3 * q)
    BY <1>3 DEF Encoding
  <2>2. new = Joined(bText, e)
    BY <1>8 DEF Joined
  <2>3. AreDigits(e, k + 1)
    BY <1>7, <1>9
  <2>4. BlockFor(e, bData, q, k)
    BY <1>5, <1>7 DEF BlockFor
  <2>5. bText \in Seq(0..127) /\ e \in Seq(0..127) /\ Len(e) = 4
    BY <1>2, <1>7
  <2>6. Fits(bText, bData, q, e, k)
    BY <2>1, <2>3, <2>4, <2>5 DEF Fits
  <2>7. Fitted(new, bData, q, e, k)
    BY <2>2, <2>6, TextAndBlock
  <2> QED BY <2>7 DEF Fitted
<1>11. Encoding(new, bData, q + 1) /\ q + 1 \in Nat /\ bAt' = 3 * (q + 1)
  <2>1. 4 * q + k + 1 = 4 * (q + 1) /\ 3 * q + k = 3 * (q + 1) /\ 4 * q + 4 = 4 * (q + 1)
    BY <1>9
  <2>2. 3 * (q + 1) <= Len(bData) /\ q + 1 \in Nat /\ bAt' = 3 * (q + 1)
    BY <1>1, <1>2, <1>3
  <2> QED BY <1>10, <2>1, <2>2 DEF Encoding
<1>12. Base64Of!TypeOK'
  <2>1. bAt' \in 0..Len(bData)
    BY <1>1, <1>2, <1>3
  <2> QED BY <1>1, <1>2, <1>8, <1>10, <2>1 DEF Base64Of!TypeOK
<1> QED BY <1>1, <1>2, <1>8, <1>11, <1>12 DEF BaseInv

\* EncodeRest appends the last one or two bytes, and padding.
LEMMA BaseEncodeRest ==
  ASSUME BaseInv, Base64Of!EncodeRest
  PROVE  BaseInv'
<1>1. /\ bPc = "encode" /\ bAt + 2 >= Len(bData) /\ bPc' = "encoded" /\ bAt' = 0
      /\ bData' = bData /\ bOut' = bOut
      /\ bText' = IF bAt = Len(bData) THEN bText
                  ELSE bText \o Base64Of!EncodePartialBlock(SubSeq(bData, bAt + 1, Len(bData)))
  BY DEF Base64Of!EncodeRest
<1>2. bData \in Seq(0..255) /\ bText \in Seq(0..127) /\ bOut = <<>>
  BY <1>1 DEF BaseInv, Base64Of!TypeOK
<1>3. PICK q \in Nat : bAt = 3 * q /\ Encoding(bText, bData, q)
  BY <1>1 DEF BaseInv
<1>4. /\ Len(bText) = 4 * q /\ 3 * q <= Len(bData) /\ AreDigits(bText, 4 * q)
      /\ StandFor(bText, bData, 3 * q)
  BY <1>3 DEF Encoding
<1>5. bText' \in Seq(0..127) /\ Encoded(bText', bData)
  <2>1. CASE bAt = Len(bData)
    <3>1. bText' = bText /\ Len(bData) = 3 * q + 0 /\ Len(bData) = 3 * q
      BY <1>1, <1>3, <2>1
    <3>2. 4 * q \in Nat /\ \A i \in (4 * q + 1)..(4 * q) : FALSE
      OBVIOUS
    <3>3. EncodedAs(bText, bData, q, 0, 4 * q)
      BY <1>4, <3>1, <3>2 DEF EncodedAs
    <3> QED BY <1>2, <3>1, <3>2, <3>3 DEF Encoded
  <2>2. CASE bAt # Len(bData)
    <3>1. PICK k \in 1..2 : Len(bData) = 3 * q + k
      <4>1. Len(bData) - 3 * q \in 1..2 /\ Len(bData) = 3 * q + (Len(bData) - 3 * q)
        BY <1>1, <1>2, <1>3, <1>4, <2>2
      <4> QED BY <4>1
    <3>2. PICK block : block = SubSeq(bData, bAt + 1, Len(bData))
      OBVIOUS
    <3>3. /\ block \in Seq(0..255) /\ Len(block) = k
          /\ block[1] = bData[3 * q + 1] /\ (k = 2 => block[2] = bData[3 * q + 2])
      <4>1. /\ bAt \in Nat /\ k \in 1..4 /\ bAt + k <= Len(bData)
            /\ block = Block(bData, bAt, k)
        BY <1>3, <3>1, <3>2 DEF Block
      <4>2. block \in Seq(0..255) /\ Len(block) = k /\ \A i \in 1..k : block[i] = bData[bAt + i]
        <5>1. PICK m \in 1..4 : m = k
          OBVIOUS
        <5>2. HasBlock(0..255, bData, bAt, m) /\ block = Block(bData, bAt, m)
          BY <1>2, <4>1, <5>1 DEF HasBlock
        <5>3. block \in Seq(0..255) /\ Len(block) = m /\ \A i \in 1..m : block[i] = bData[bAt + i]
          BY <5>2, BlockAt
        <5> QED BY <5>1, <5>3
      <4>3. 1 \in 1..k /\ (k = 2 => 2 \in 1..k)
        OBVIOUS
      <4> QED BY <1>3, <4>2, <4>3
    <3>4. PICK e : e = Base64Of!EncodePartialBlock(block)
      OBVIOUS
    <3>5. /\ e \in Seq(0..127) /\ Len(e) = 4 /\ AreDigits(e, k + 1)
          /\ \A i \in (k + 2)..4 : e[i] = Base64Of!Pad
          /\ FirstByte(Sextet(e, 1), Sextet(e, 2)) = block[1]
          /\ k = 2 => SecondByte(Sextet(e, 2), Sextet(e, 3)) = block[2]
          /\ k = 1 => Sextet(e, 2) % 16 = 0
          /\ k = 2 => Sextet(e, 3) % 4 = 0
      BY ZenonT(30), <3>3, <3>4, PartialBlock
    <3>6. PICK new : new = Joined(bText, e) /\ new = bText'
      BY <1>1, <2>2, <3>2, <3>4 DEF Joined
    <3>7. Fits(bText, bData, q, e, k)
      <4>1. (k >= 2 <=> k = 2) /\ ~(k >= 3) /\ k \in 1..3
        OBVIOUS
      <4>2. BlockFor(e, bData, q, k)
        BY <3>3, <3>5, <4>1 DEF BlockFor
      <4> QED BY <1>2, <1>4, <3>5, <4>1, <4>2 DEF Fits
    <3>8. Fitted(new, bData, q, e, k)
      BY <3>6, <3>7, TextAndBlock
    <3>9. EncodedAs(new, bData, q, k, 4 * q + k + 1)
      <4>1. /\ Len(new) = 4 * q + 4 /\ AreDigits(new, 4 * q + k + 1)
            /\ StandFor(new, bData, 3 * q + k)
            /\ \A i \in 1..4 : new[4 * q + i] = e[i] /\ Sextet(new, 4 * q + i) = Sextet(e, i)
        BY <3>8 DEF Fitted
      <4>2. ASSUME NEW i \in ((4 * q + k + 1) + 1)..Len(new) PROVE new[i] = Base64Of!Pad
        <5>1. PICK j \in (k + 2)..4 : i = 4 * q + j
          <6>1. i - 4 * q \in (k + 2)..4 /\ i = 4 * q + (i - 4 * q)
            BY <4>1
          <6> QED BY <6>1
        <5>2. j \in 1..4
          OBVIOUS
        <5> QED BY <3>5, <4>1, <5>1, <5>2
      <4>3. /\ k = 1 => Sextet(new, 4 * q + 2) % 16 = 0
            /\ k = 2 => Sextet(new, 4 * q + 3) % 4 = 0
        <5>1. Sextet(new, 4 * q + 2) = Sextet(e, 2) /\ Sextet(new, 4 * q + 3) = Sextet(e, 3)
          BY <4>1
        <5> QED BY <3>5, <5>1
      <4>4. k # 0
        OBVIOUS
      <4> QED BY <3>1, <4>1, <4>2, <4>3, <4>4 DEF EncodedAs
    <3>10. k \in 0..2 /\ 4 * q + k + 1 \in Nat
      OBVIOUS
    <3>11. new \in Seq(0..127)
      BY <3>8 DEF Fitted
    <3> QED BY <3>6, <3>9, <3>10, <3>11 DEF Encoded
  <2> QED BY <2>1, <2>2
<1>6. Base64Of!TypeOK'
  <2>1. 0 \in 0..Len(bData)
    BY <1>2
  <2> QED BY <1>1, <1>2, <1>5, <2>1 DEF Base64Of!TypeOK
<1> QED BY <1>1, <1>2, <1>5, <1>6 DEF BaseInv

\* Decode is called with whole blocks; what Encode returned consists of them.
LEMMA BaseBegin ==
  ASSUME BaseInv, Base64Of!Begin
  PROVE  BaseInv'
<1>1. /\ bPc = "encoded" /\ bPc' = IF Len(bText) % 4 = 0 THEN "decode" ELSE "aborted"
      /\ bData' = bData /\ bText' = bText /\ bAt' = bAt /\ bOut' = bOut
  BY DEF Base64Of!Begin
<1>2. bData \in Seq(0..255) /\ bText \in Seq(0..127) /\ bOut = <<>> /\ bAt = 0
  BY <1>1 DEF BaseInv, Base64Of!TypeOK
<1>3. Base64Of!TypeOK'
  <2>1. 0 \in 0..Len(bData)
    BY <1>2
  <2> QED BY <1>1, <1>2, <2>1 DEF Base64Of!TypeOK
<1>4. bData # <<>> => Encoded(bText, bData)
  BY <1>1 DEF BaseInv
<1>5. CASE Len(bText) % 4 = 0
  <2>1. PICK blocks \in Nat : Len(bText) = 4 * blocks
    <3>1. Len(bText) \div 4 \in Nat /\ Len(bText) = 4 * (Len(bText) \div 4)
      BY <1>2, <1>5
    <3> QED BY <3>1
  <2>2. Decoded(bText, bOut, bAt) /\ bAt \in 0..blocks
    BY <1>2, <2>1 DEF Decoded, AreDigits, StandFor
  <2> QED BY <1>1, <1>3, <1>4, <1>5, <2>1, <2>2 DEF BaseInv
<1>6. CASE Len(bText) % 4 # 0
  <2>1. ASSUME bData # <<>> PROVE FALSE
    <3>1. PICK q \in Nat, r \in 0..2, n \in Nat : EncodedAs(bText, bData, q, r, n)
      BY <1>4, <2>1 DEF Encoded
    <3>2. Len(bText) = 4 * q \/ Len(bText) = 4 * q + 4
      BY <3>1 DEF EncodedAs
    <3> QED BY <1>6, <3>2
  <2> QED BY <1>1, <1>2, <1>3, <1>6, <2>1 DEF BaseInv
<1> QED BY <1>5, <1>6

\* All blocks are decoded when Decode returns.
LEMMA BaseReturn ==
  ASSUME BaseInv, Base64Of!Return
  PROVE  BaseInv'
<1>1. /\ bPc = "decode" /\ bAt = Len(bText) \div 4 /\ bPc' = "done"
      /\ bData' = bData /\ bText' = bText /\ bAt' = bAt /\ bOut' = bOut
  BY DEF Base64Of!Return
<1>2. PICK blocks \in Nat : Len(bText) = 4 * blocks /\ Decoded(bText, bOut, bAt)
  BY <1>1 DEF BaseInv
<1>3. bAt = blocks
  BY <1>1, <1>2
<1>4. Base64Of!TypeOK' /\ (bData # <<>> => Encoded(bText, bData))
  BY <1>1 DEF BaseInv, Base64Of!TypeOK
<1> QED BY <1>1, <1>2, <1>3, <1>4 DEF BaseInv

\* Decode appends the bytes of the next block, or ends the process; it does not
\* end it over what Encode returned.
LEMMA BaseDecode ==
  ASSUME BaseInv, Base64Of!Decode
  PROVE  BaseInv'
<1>1. PICK blocks \in Nat : /\ Len(bText) = 4 * blocks /\ bAt \in 0..blocks
                            /\ Decoded(bText, bOut, bAt)
  BY DEF BaseInv, Base64Of!Decode
<1>2. /\ bData \in Seq(0..255) /\ bText \in Seq(0..127) /\ bOut \in Seq(0..255)
      /\ bData # <<>> => Encoded(bText, bData)
      /\ bPc = "decode"
  BY DEF BaseInv, Base64Of!TypeOK, Base64Of!Decode
<1>3. Len(bText) \div 4 = blocks
  BY <1>1
<1>4. PICK chars : chars = SubSeq(bText, bAt * 4 + 1, bAt * 4 + 4)
  OBVIOUS
<1>5. PICK block : block = Base64Of!DecodeBlock(chars)
  OBVIOUS
<1>6. /\ bAt < blocks /\ bData' = bData /\ bText' = bText
      /\ IF block = <<>> \/ (Len(block) # 3 /\ bAt + 1 # blocks)
         THEN bPc' = "aborted" /\ bAt' = bAt /\ bOut' = bOut
         ELSE bOut' = SubSeq(bOut, 1, bAt * 3) \o block /\ bAt' = bAt + 1 /\ bPc' = bPc
  BY <1>3, <1>4, <1>5 DEF Base64Of!Decode
<1>7. chars \in Seq(0..127) /\ Len(chars) = 4 /\ \A i \in 1..4 : chars[i] = bText[4 * bAt + i]
  <2>1. PICK a \in Nat, n \in 1..4 : a = bAt * 4 /\ n = 4
    BY <1>1
  <2>2. HasBlock(0..127, bText, a, n) /\ chars = Block(bText, a, n)
    BY <1>1, <1>2, <1>4, <1>6, <2>1 DEF Block, HasBlock
  <2>3. chars \in Seq(0..127) /\ Len(chars) = n /\ \A i \in 1..n : chars[i] = bText[a + i]
    BY <2>2, BlockAt
  <2> QED BY <1>1, <2>1, <2>3
<1>8. \A i \in 1..4 : Sextet(chars, i) = Sextet(bText, 4 * bAt + i)
  BY <1>7 DEF Sextet
<1>9. /\ block # <<>> =>
           /\ block \in Seq(0..255) /\ Len(block) \in 1..3 /\ IsBlock(chars, Len(block))
           /\ block[1] = FirstByte(Sextet(chars, 1), Sextet(chars, 2))
           /\ Len(block) >= 2 => block[2] = SecondByte(Sextet(chars, 2), Sextet(chars, 3))
           /\ Len(block) >= 3 => block[3] = ThirdByte(Sextet(chars, 3), Sextet(chars, 4))
      /\ \A k \in 1..3 : IsBlock(chars, k) => block # <<>> /\ Len(block) = k
  BY <1>5, <1>7, DecodedBlock
<1>10. /\ Len(bOut) = 3 * bAt /\ AreDigits(bText, 4 * bAt) /\ StandFor(bText, bOut, 3 * bAt)
  <2>1. Len(bOut) = 3 * bAt
    BY <1>1, <1>2, <1>6 DEF Decoded
  <2>2. Len(bOut) + bAt = 4 * bAt
    BY <1>1, <2>1
  <2> QED BY <1>1, <2>1, <2>2 DEF Decoded
<1>11. CASE block = <<>> \/ (Len(block) # 3 /\ bAt + 1 # blocks)
  <2>1. ASSUME bData # <<>> PROVE FALSE
    <3>1. PICK q \in Nat, r \in 0..2, n \in Nat : EncodedAs(bText, bData, q, r, n)
      BY <1>2, <2>1 DEF Encoded
    <3>2. /\ r = 0 => n = 4 * q /\ blocks = q
          /\ r # 0 => n = 4 * q + r + 1 /\ blocks = q + 1
          /\ AreDigits(bText, n)
          /\ \A i \in (n + 1)..(4 * blocks) : bText[i] = Base64Of!Pad
      BY <1>1, <3>1 DEF EncodedAs
    <3>3. CASE bAt < q
      <4>1. IsBlock(chars, 3)
        <5>1. ASSUME NEW i \in 1..(3 + 1) PROVE Sextet(chars, i) \in 0..63
          <6>1. i \in 1..4 /\ 4 * bAt + i \in 1..n
            BY <1>1, <3>2, <3>3
          <6> QED BY <1>8, <3>2, <6>1 DEF AreDigits
        <5> QED BY <5>1 DEF IsBlock, AreDigits
      <4> QED BY <1>9, <1>11, <4>1
    <3>4. CASE bAt >= q
      <4>1. bAt = q /\ r \in 1..2 /\ n = 4 * bAt + r + 1 /\ blocks = bAt + 1
        BY <1>1, <1>6, <3>2, <3>4
      <4>2. IsBlock(chars, r)
        <5>1. ASSUME NEW i \in 1..(r + 1) PROVE Sextet(chars, i) \in 0..63
          <6>1. i \in 1..4 /\ 4 * bAt + i \in 1..n
            BY <1>1, <4>1
          <6> QED BY <1>8, <3>2, <6>1 DEF AreDigits
        <5>2. chars[r + 2] = Base64Of!Pad
          <6>1. r + 2 \in 1..4 /\ 4 * bAt + (r + 2) \in (n + 1)..(4 * blocks)
            BY <1>1, <4>1
          <6> QED BY <1>7, <3>2, <6>1
        <5> QED BY <5>1, <5>2 DEF IsBlock, AreDigits
      <4> QED BY <1>9, <1>11, <4>1, <4>2
    <3> QED BY <1>1, <3>3, <3>4
  <2>2. bPc' = "aborted" /\ bAt' = bAt /\ bOut' = bOut
    BY <1>6, <1>11
  <2>3. Base64Of!TypeOK'
    BY <1>6, <2>2 DEF BaseInv, Base64Of!TypeOK
  <2> QED BY <1>6, <2>1, <2>2, <2>3 DEF BaseInv
<1>12. CASE block # <<>> /\ (Len(block) = 3 \/ bAt + 1 = blocks)
  <2>1. PICK k \in 1..3 : /\ k = Len(block) /\ block \in Seq(0..255) /\ IsBlock(chars, k)
                          /\ block[1] = FirstByte(Sextet(chars, 1), Sextet(chars, 2))
                          /\ k >= 2 => block[2] = SecondByte(Sextet(chars, 2), Sextet(chars, 3))
                          /\ k >= 3 => block[3] = ThirdByte(Sextet(chars, 3), Sextet(chars, 4))
    BY <1>9, <1>12
  <2>2. /\ Sextet(chars, 1) = Sextet(bText, 4 * bAt + 1) /\ Sextet(chars, 2) = Sextet(bText, 4 * bAt + 2)
        /\ Sextet(chars, 3) = Sextet(bText, 4 * bAt + 3) /\ Sextet(chars, 4) = Sextet(bText, 4 * bAt + 4)
    BY <1>8
  <2>3. /\ bAt' = bAt + 1 /\ bPc' = "decode"
        /\ bOut' = SubSeq(bOut, 1, bAt * 3) \o block
    BY <1>2, <1>6, <1>12
  <2>4. SubSeq(bOut, 1, bAt * 3) = bOut
    <3>1. bAt * 3 = Len(bOut)
      BY <1>1, <1>10
    <3> QED BY <1>2, <3>1, SubSeqFull
  <2>5. PICK new : new = Joined(bOut, block) /\ new = bOut'
    BY <2>3, <2>4 DEF Joined
  <2>6. BytesFit(bText, bOut, bAt, block, k)
    BY SMTT(30), <1>1, <1>2, <1>10, <2>1, <2>2 DEF BytesFit
  <2>7. new \in Seq(0..255) /\ Len(new) = 3 * bAt + k /\ StandFor(bText, new, 3 * bAt + k)
    <3>1. PICK q \in Nat : q = bAt
      BY <1>1
    <3>2. BytesFit(bText, bOut, q, block, k) /\ new = Joined(bOut, block)
      BY <2>5, <2>6, <3>1
    <3>3. new \in Seq(0..255) /\ Len(new) = 3 * q + k /\ StandFor(bText, new, 3 * q + k)
      BY <3>2, BytesAndBlock
    <3> QED BY <3>1, <3>3
  <2>8. Decoded(bText, new, bAt + 1)
    <3>1. AreDigits(bText, Len(new) + (bAt + 1))
      <4>1. Len(new) + (bAt + 1) = 4 * bAt + k + 1
        BY <1>1, <2>7
      <4>2. ASSUME NEW i \in 1..(4 * bAt + k + 1) PROVE Sextet(bText, i) \in 0..63
        <5>1. CASE i <= 4 * bAt
          <6>1. i \in 1..(4 * bAt)
            BY <5>1
          <6> QED BY <1>10, <6>1 DEF AreDigits
        <5>2. CASE i > 4 * bAt
          <6>1. PICK j \in 1..(k + 1) : i = 4 * bAt + j
            <7>1. i - 4 * bAt \in 1..(k + 1) /\ i = 4 * bAt + (i - 4 * bAt)
              BY <1>1, <5>2
            <7> QED BY <7>1
          <6>2. j \in 1..4
            OBVIOUS
          <6> QED BY <1>8, <2>1, <6>1, <6>2 DEF IsBlock, AreDigits
        <5> QED BY <1>1, <5>1, <5>2
      <4> QED BY <4>1, <4>2 DEF AreDigits
    <3>2. ASSUME Len(new) < 3 * (bAt + 1)
          PROVE  /\ Len(bText) = 4 * (bAt + 1) /\ Len(new) >= 3 * (bAt + 1) - 2
                 /\ bText[Len(new) + (bAt + 1) + 1] = Base64Of!Pad
      <4>1. k < 3
        BY <1>1, <2>7, <3>2
      <4>2. chars[k + 2] = Base64Of!Pad /\ k + 2 \in 1..4
        BY <2>1, <4>1 DEF IsBlock
      <4>3. Len(new) + (bAt + 1) + 1 = 4 * bAt + (k + 2)
        BY <1>1, <2>7
      <4>4. Len(bText) = 4 * (bAt + 1)
        BY <1>1, <1>12, <2>1, <4>1
      <4>5. Len(new) >= 3 * (bAt + 1) - 2
        BY <1>1, <2>7
      <4> QED BY <1>7, <4>2, <4>3, <4>4, <4>5
    <3>3. 4 * (bAt + 1) <= Len(bText) /\ Len(new) <= 3 * (bAt + 1)
      BY <1>1, <1>6, <2>7
    <3>4. StandFor(bText, new, Len(new))
      BY <2>7
    <3> QED BY <3>1, <3>2, <3>3, <3>4 DEF Decoded
  <2>9. bAt + 1 \in 0..blocks /\ bAt + 1 \in 0..Len(bText)
    BY <1>1, <1>6
  <2>10. Base64Of!TypeOK'
    BY <1>2, <1>6, <2>3, <2>5, <2>7, <2>9 DEF Base64Of!TypeOK
  <2> QED BY <1>1, <1>2, <1>6, <2>3, <2>5, <2>8, <2>9, <2>10 DEF BaseInv
<1> QED BY <1>11, <1>12

\* Every step of Base64 preserves its invariant.
LEMMA BaseStepInvariant == BaseInv /\ [Base64Of!Next]_baseVars => BaseInv'
<1> SUFFICES ASSUME BaseInv, [Base64Of!Next]_baseVars PROVE BaseInv'
  OBVIOUS
<1>1. CASE Base64Of!Encode
  BY <1>1, BaseEncode
<1>2. CASE Base64Of!EncodeRest
  BY <1>2, BaseEncodeRest
<1>3. CASE Base64Of!Begin
  BY <1>3, BaseBegin
<1>4. CASE Base64Of!Decode
  BY <1>4, BaseDecode
<1>5. CASE Base64Of!Return
  BY <1>5, BaseReturn
<1>6. CASE UNCHANGED baseVars
  BY <1>6 DEF BaseInv, Base64Of!TypeOK, baseVars
<1> QED BY <1>1, <1>2, <1>3, <1>4, <1>5, <1>6 DEF Base64Of!Next

\* The place of a bit among those of a digit.
LEMMA Sixths ==
  ASSUME NEW a \in Nat, NEW b \in 0..5, NEW x, x = 6 * a + b
  PROVE  x \div 6 = a /\ x % 6 = b
OBVIOUS

\* The bits of the digits of what was encoded are those of the data, filled up
\* with zeros, and behind the digits there is padding.
LEMMA EncodedBits ==
  ASSUME NEW t \in Seq(0..127), NEW d \in Seq(0..255), Encoded(t, d)
  PROVE  LET bits == Base64Of!Bits(Base64Of!Digits(t), 6)
             n    == 8 * Len(d)
         IN /\ SubSeq(bits, 1, n) = Base64Of!Bits(d, 8)
            /\ Len(bits) - n \in 0..5
            /\ \A i \in (n + 1)..Len(bits) : bits[i] = 0
            /\ Len(t) % 4 = 0
            /\ \A i \in (Len(Base64Of!Digits(t)) + 1)..Len(t) : t[i] = Base64Of!Pad
<1>1. PICK q \in Nat, r \in 0..2, n \in Nat : EncodedAs(t, d, q, r, n)
  BY DEF Encoded
<1>2. /\ Len(d) = 3 * q + r
      /\ r = 0 => n = 4 * q /\ Len(t) = 4 * q
      /\ r # 0 => n = 4 * q + r + 1 /\ Len(t) = 4 * q + 4
      /\ AreDigits(t, n)
      /\ \A i \in (n + 1)..Len(t) : t[i] = Base64Of!Pad
      /\ StandFor(t, d, Len(d))
      /\ r = 1 => Sextet(t, 4 * q + 2) % 16 = 0
      /\ r = 2 => Sextet(t, 4 * q + 3) % 4 = 0
  BY <1>1 DEF EncodedAs
<1>3. HasDigits(t, n) /\ AreBytes(t, n, d)
  <2>1. n \in 0..Len(t) /\ 8 * Len(d) <= 6 * n
    BY <1>2
  <2>2. n < Len(t) => t[n + 1] = Base64Of!Pad
    <3>1. n < Len(t) => n + 1 \in (n + 1)..Len(t)
      OBVIOUS
    <3> QED BY <1>2, <3>1
  <2> QED BY <1>2, <2>1, <2>2 DEF HasDigits, AreBytes
<1>4. PICK digits : digits = [i \in 1..n |-> Sextet(t, i)]
  OBVIOUS
<1>5. Base64Of!Digits(t) = digits
  BY <1>3, <1>4, DigitsOf
<1>6. PICK bits : bits = Base64Of!Bits(digits, 6)
  OBVIOUS
<1>7. /\ \A i \in 1..(6 * n) : bits[i] = DigitBit(digits, i)
      /\ Len(bits) = 6 * n
      /\ Base64Of!Bits(d, 8) = SubSeq(bits, 1, 8 * Len(d))
  <2>1. \A i \in 1..(6 * n) : Base64Of!Bits(digits, 6)[i] = DigitBit(digits, i)
    BY <1>3, <1>4, BitsOfBytes
  <2>2. /\ Len(Base64Of!Bits(digits, 6)) = 6 * n
        /\ Base64Of!Bits(d, 8) = SubSeq(Base64Of!Bits(digits, 6), 1, 8 * Len(d))
    BY ONLY SMTT(30), <1>3, <1>4, BitsOfBytes
  <2> QED BY ONLY <1>6, <2>1, <2>2
<1>8. Len(bits) - 8 * Len(d) \in 0..5
  BY <1>2, <1>7
<1>9. ASSUME NEW i \in (8 * Len(d) + 1)..Len(bits) PROVE bits[i] = 0
  <2>1. i \in 1..(6 * n)
    BY <1>7
  <2>2. bits[i] = Bit(digits[(i - 1) \div 6 + 1], 6, (i - 1) % 6)
    BY <1>7, <2>1 DEF DigitBit
  <2>3. CASE r = 0
    BY <1>2, <1>7, <2>3
  <2>4. CASE r = 1
    <3>1. PICK j \in 1..4 : i = 24 * q + 8 + j
      <4>1. i - (24 * q + 8) \in 1..4 /\ i = 24 * q + 8 + (i - (24 * q + 8))
        BY <1>2, <1>7, <2>4
      <4> QED BY <4>1
    <3>2. (i - 1) \div 6 = 4 * q + 1 /\ (i - 1) % 6 = j + 1
      <4>1. PICK a \in Nat, b \in 0..5 : a = 4 * q + 1 /\ b = j + 1
        <5>1. 4 * q + 1 \in Nat /\ j + 1 \in 0..5
          OBVIOUS
        <5> QED BY ONLY <5>1
      <4>2. i - 1 = 6 * a + b
        BY <3>1, <4>1
      <4>3. (i - 1) \div 6 = a /\ (i - 1) % 6 = b
        BY ONLY <4>2, a \in Nat, b \in 0..5, Sixths
      <4> QED BY <4>1, <4>3
    <3>3. PICK x \in 0..63 : x = Sextet(t, 4 * q + 2)
      <4>1. 4 * q + 2 \in 1..n
        BY <1>2, <2>4
      <4> QED BY <1>2, <4>1 DEF AreDigits
    <3>a. x % 16 = 0
      BY <1>2, <2>4, <3>3
    <3>4. digits[(i - 1) \div 6 + 1] = x
      <4>1. (i - 1) \div 6 + 1 = 4 * q + 2 /\ 4 * q + 2 \in 1..n
        BY <1>2, <2>4, <3>2
      <4> QED BY <1>4, <3>3, <4>1
    <3>5. Bit(x, 6, j + 1) = 0
      <4>1. PICK y \in 0..3 : x = 16 * y
        <5>1. x \div 16 \in 0..3 /\ x = 16 * (x \div 16)
          BY ONLY <3>a, x \in 0..63
        <5> QED BY <5>1
      <4>2. CASE j = 1
        BY <4>1, <4>2 DEF Bit, Base64Of!Places
      <4>3. CASE j = 2
        BY <4>1, <4>3 DEF Bit, Base64Of!Places
      <4>4. CASE j = 3
        BY <4>1, <4>4 DEF Bit, Base64Of!Places
      <4>5. CASE j = 4
        BY <4>1, <4>5 DEF Bit, Base64Of!Places
      <4> QED BY <4>2, <4>3, <4>4, <4>5
    <3> QED BY <2>2, <3>2, <3>4, <3>5
  <2>5. CASE r = 2
    <3>1. PICK j \in 1..2 : i = 24 * q + 16 + j
      <4>1. i - (24 * q + 16) \in 1..2 /\ i = 24 * q + 16 + (i - (24 * q + 16))
        BY <1>2, <1>7, <2>5
      <4> QED BY <4>1
    <3>2. (i - 1) \div 6 = 4 * q + 2 /\ (i - 1) % 6 = j + 3
      <4>1. PICK a \in Nat, b \in 0..5 : a = 4 * q + 2 /\ b = j + 3
        BY SMTT(30)
      <4>2. i - 1 = 6 * a + b
        BY <3>1, <4>1
      <4>3. (i - 1) \div 6 = a /\ (i - 1) % 6 = b
        BY ONLY <4>2, a \in Nat, b \in 0..5, Sixths
      <4> QED BY <4>1, <4>3
    <3>3. PICK x \in 0..63 : x = Sextet(t, 4 * q + 3)
      <4>1. 4 * q + 3 \in 1..n
        BY <1>2, <2>5
      <4> QED BY <1>2, <4>1 DEF AreDigits
    <3>a. x % 4 = 0
      BY <1>2, <2>5, <3>3
    <3>4. digits[(i - 1) \div 6 + 1] = x
      <4>1. (i - 1) \div 6 + 1 = 4 * q + 3 /\ 4 * q + 3 \in 1..n
        BY <1>2, <2>5, <3>2
      <4> QED BY <1>4, <3>3, <4>1
    <3>5. Bit(x, 6, j + 3) = 0
      <4>1. PICK y \in 0..15 : x = 4 * y
        <5>1. x \div 4 \in 0..15 /\ x = 4 * (x \div 4)
          BY ONLY <3>a, x \in 0..63
        <5> QED BY <5>1
      <4>2. CASE j = 1
        BY <4>1, <4>2 DEF Bit, Base64Of!Places
      <4>3. CASE j = 2
        BY <4>1, <4>3 DEF Bit, Base64Of!Places
      <4> QED BY <4>2, <4>3
    <3> QED BY <2>2, <3>2, <3>4, <3>5
  <2>6. r = 0 \/ r = 1 \/ r = 2
    OBVIOUS
  <2> QED BY <2>3, <2>4, <2>5, <2>6
<1>10. Len(t) % 4 = 0
  <2>1. PICK k \in Nat : Len(t) = 4 * k
    <3>1. (Len(t) = 4 * q \/ Len(t) = 4 * (q + 1)) /\ q + 1 \in Nat
      BY <1>2
    <3> QED BY <3>1
  <2> QED BY ONLY <2>1, k \in Nat
<1>11. \A i \in (Len(digits) + 1)..Len(t) : t[i] = Base64Of!Pad
  <2>1. Len(digits) = n
    BY <1>4
  <2> QED BY <1>2, <2>1
<1> QED BY <1>5, <1>6, <1>7, <1>8, <1>9, <1>10, <1>11

\* What a whole text decodes to is the bits of its digits, without those that do
\* not fill a byte.
LEMMA DecodedBits ==
  ASSUME NEW t \in Seq(0..127), NEW o \in Seq(0..255), NEW k \in Nat, Len(t) = 4 * k, Decoded(t, o, k)
  PROVE  LET bits == Base64Of!Bits(Base64Of!Digits(t), 6)
         IN /\ Base64Of!Bits(o, 8) = SubSeq(bits, 1, 8 * Len(o))
            /\ Len(bits) - 8 * Len(o) < 8
            /\ HasDigits(t, Len(o) + k)
<1>1. PICK n \in Nat : n = Len(o) + k
  OBVIOUS
<1>2. /\ Len(o) <= 3 * k /\ AreDigits(t, n) /\ StandFor(t, o, Len(o))
      /\ Len(o) < 3 * k => Len(o) >= 3 * k - 2 /\ t[n + 1] = Base64Of!Pad
  BY <1>1 DEF Decoded
<1>3. HasDigits(t, n) /\ AreBytes(t, n, o)
  <2>1. n \in 0..Len(t) /\ 8 * Len(o) <= 6 * n /\ (n < Len(t) => Len(o) < 3 * k)
    BY <1>1, <1>2
  <2> QED BY <1>2, <2>1 DEF HasDigits, AreBytes
<1>4. PICK digits : digits = [i \in 1..n |-> Sextet(t, i)]
  OBVIOUS
<1>5. Base64Of!Digits(t) = digits
  BY <1>3, <1>4, DigitsOf
<1>6. /\ Len(Base64Of!Bits(digits, 6)) = 6 * n
      /\ Base64Of!Bits(o, 8) = SubSeq(Base64Of!Bits(digits, 6), 1, 8 * Len(o))
  BY SMTT(30), <1>3, <1>4, BitsOfBytes
<1>7. 6 * n - 8 * Len(o) < 8
  BY <1>1, <1>2
<1> QED BY <1>1, <1>3, <1>5, <1>6, <1>7

\* And of what was encoded, this is the data.
LEMMA DecodedIsEncoded ==
  ASSUME NEW t \in Seq(0..127), NEW d \in Seq(0..255), Encoded(t, d),
         NEW o \in Seq(0..255), NEW k \in Nat, Len(t) = 4 * k, Decoded(t, o, k)
  PROVE  o = d
<1>1. PICK q \in Nat, r \in 0..2, n \in Nat : EncodedAs(t, d, q, r, n)
  BY DEF Encoded
<1>2. /\ Len(d) = 3 * q + r
      /\ r = 0 => n = 4 * q /\ Len(t) = 4 * q
      /\ r # 0 => n = 4 * q + r + 1 /\ Len(t) = 4 * q + 4
      /\ AreDigits(t, n)
      /\ \A i \in (n + 1)..Len(t) : t[i] = Base64Of!Pad
      /\ StandFor(t, d, Len(d))
  BY <1>1 DEF EncodedAs
<1>3. HasDigits(t, n)
  <2>1. n \in 0..Len(t) /\ (n < Len(t) => n + 1 \in (n + 1)..Len(t))
    BY <1>2
  <2> QED BY <1>2, <2>1 DEF HasDigits
<1>4. HasDigits(t, Len(o) + k)
  BY DecodedBits
<1>5. Len(o) + k = n
  BY <1>3, <1>4, DigitsUnique
<1>6. PICK L \in Nat : L = Len(d) /\ L = Len(o)
  BY <1>2, <1>5
<1>7. StandFor(t, o, L) /\ StandFor(t, d, L)
  BY <1>2, <1>6 DEF Decoded
<1>8. ASSUME NEW i \in 1..L PROVE o[i] = d[i]
  <2>1. PICK b \in Nat, j \in 1..3 : i = 3 * b + j
    <3>1. PICK x \in Nat : i = x + 1
      BY i - 1 \in Nat /\ i = (i - 1) + 1
    <3>2. x \div 3 \in Nat /\ x % 3 \in 0..2 /\ x = 3 * (x \div 3) + (x % 3)
      BY ONLY x \in Nat
    <3>3. (x % 3) + 1 \in 1..3 /\ i = 3 * (x \div 3) + ((x % 3) + 1)
      BY <3>1, <3>2
    <3> QED BY <3>2, <3>3
  <2>2. j = 1 \/ j = 2 \/ j = 3
    OBVIOUS
  <2>3. 3 * b + j <= L
    BY <2>1
  <2>4. CASE j = 1
    BY <1>7, <2>1, <2>3, <2>4 DEF StandFor
  <2>5. CASE j = 2
    BY <1>7, <2>1, <2>3, <2>5 DEF StandFor
  <2>6. CASE j = 3
    BY <1>7, <2>1, <2>3, <2>6 DEF StandFor
  <2> QED BY <2>2, <2>4, <2>5, <2>6
<1>9. Len(o) = Len(d) /\ \A i \in 1..Len(o) : o[i] = d[i]
  BY <1>6, <1>8
<1> QED BY ONLY <1>9, o \in Seq(0..255), d \in Seq(0..255), SeqEqual

\* The invariant implies the property of the runs.
LEMMA BasePreserved == BaseInv => Base64Of!BitsArePreserved
<1> SUFFICES ASSUME BaseInv PROVE Base64Of!BitsArePreserved
  OBVIOUS
<1>1. /\ Base64Of!TypeOK /\ bData \in Seq(0..255) /\ bText \in Seq(0..127) /\ bOut \in Seq(0..255)
      /\ bPc # "encode" /\ bData # <<>> => Encoded(bText, bData)
      /\ bPc = "aborted" => bData = <<>>
  BY DEF BaseInv, Base64Of!TypeOK
<1>2. ASSUME bPc # "encode", bData # <<>>
      PROVE  LET bits == Base64Of!Bits(Base64Of!Digits(bText), 6)
                 n    == 8 * Len(bData)
             IN /\ SubSeq(bits, 1, n) = Base64Of!Bits(bData, 8)
                /\ Len(bits) - n \in 0..5
                /\ \A i \in (n + 1)..Len(bits) : bits[i] = 0
                /\ Len(bText) % 4 = 0
                /\ \A i \in (Len(Base64Of!Digits(bText)) + 1)..Len(bText) : bText[i] = Base64Of!Pad
  BY <1>1, <1>2, EncodedBits
<1>3. ASSUME bPc = "done"
      PROVE  LET bits == Base64Of!Bits(Base64Of!Digits(bText), 6)
             IN /\ Base64Of!Bits(bOut, 8) = SubSeq(bits, 1, 8 * Len(bOut))
                /\ Len(bits) - 8 * Len(bOut) < 8
                /\ bData # <<>> => bOut = bData
  <2>1. PICK k \in Nat : Len(bText) = 4 * k /\ Decoded(bText, bOut, k)
    BY <1>3 DEF BaseInv
  <2>2. /\ Base64Of!Bits(bOut, 8) = SubSeq(Base64Of!Bits(Base64Of!Digits(bText), 6), 1, 8 * Len(bOut))
        /\ Len(Base64Of!Bits(Base64Of!Digits(bText), 6)) - 8 * Len(bOut) < 8
    BY <1>1, <2>1, DecodedBits
  <2>3. bData # <<>> => bOut = bData
    BY <1>1, <1>3, <2>1, DecodedIsEncoded
  <2> QED BY <2>2, <2>3
<1> QED BY <1>1, <1>2, <1>3 DEF Base64Of!BitsArePreserved

-----------------------------------------------------------------------------
(* Encodings *)

\* Whatever is encoded or decoded, and however long it is, the text that Base64
\* or Hexadecimal makes has the bits of the data, decoding takes them out again
\* and refuses no encoder's text (Base64.cpp, Hexadecimal.cpp).
THEOREM EncodingsPreserved == EncodingsSpec => []EncodingsPreserveData
<1>1. EncodingsInit => BaseInv /\ HexInv
  BY BaseInitInvariant, HexInitInvariant DEF EncodingsInit
<1>2. BaseInv /\ HexInv /\ [EncodingsNext]_<<subject, baseVars, hexVars>> => BaseInv' /\ HexInv'
  <2>1. [EncodingsNext]_<<subject, baseVars, hexVars>> => [Base64Of!Next]_baseVars /\ [Hex!Next]_hexVars
    BY DEF EncodingsNext
  <2> QED BY <2>1, BaseStepInvariant, HexStepInvariant
<1>3. BaseInv /\ HexInv => EncodingsPreserveData
  BY BasePreserved, HexPreserved DEF EncodingsPreserveData
<1> QED BY <1>1, <1>2, <1>3, PTL DEF EncodingsSpec
================================================================================
