------------------------------- MODULE MCFormats -------------------------------
(***************************************************************************)
(* What turns objects into bytes and texts, and back, for TLC: a behaviour *)
(* is one of StreamIO, of Encodings (Base64 and Hexadecimal) or of         *)
(* JsonText.                                                               *)
(*                                                                         *)
(* StreamIO: bytes of three values, sizes of two bytes, strings read by    *)
(* two bytes.  The objects nest the types in each other; their strings are *)
(* shorter than a chunk, exactly one or two chunks, and longer.            *)
(*                                                                         *)
(* Base64: data of up to four bytes (a whole block and a partial one), of  *)
(* values whose sextets differ in every place; any text of up to five      *)
(* characters over two digits, the padding and a character that is none,   *)
(* and texts of two blocks.  Hexadecimal: data of up to two bytes at the   *)
(* ends of the digits' ranges, texts of both cases, odd ones and bad ones. *)
(*                                                                         *)
(* JsonText: every text of up to three tokens, of four brackets, commas    *)
(* and digits, and of five in a string; numbers of up to three characters, *)
(* and longer ones with an exponent; strings with two escapes or one by a  *)
(* code; words in both cases, alone and in containers; and the texts of    *)
(* some trees, with one token changed, dropped or put in at every place.   *)
(***************************************************************************)
EXTENDS StreamIO, Encodings

CONSTANTS JsonTexts, Behind, Earlier, Precision

VARIABLES jPc, jText, jBehind, jRoot, jOk, jWritten

jsonVars == <<jPc, jText, jBehind, jRoot, jOk, jWritten>>
encodingVars == <<baseVars, hexVars>>
allVars == <<subject, vars, encodingVars, jsonVars>>

Json == INSTANCE JsonText
          WITH Texts <- JsonTexts, pc <- jPc, text <- jText, behind <- jBehind,
               root <- jRoot, ok <- jOk, written <- jWritten

ASSUME Json!JsonTextAssumption

NoJson == jPc = "done" /\ jText = <<>> /\ jBehind = <<>> /\ jRoot = Json!Null /\ jOk = FALSE /\ jWritten = Json!Null

MCInit ==
  /\ Init
  /\ \/ subject = "StreamIO" /\ NoBase64 /\ NoHex /\ NoJson
     \/ EncodingsInit /\ NoJson
     \/ subject = "JsonText" /\ NoBase64 /\ NoHex /\ Json!Init

MCNext ==
  \/ subject = "StreamIO" /\ Next /\ UNCHANGED <<subject, encodingVars, jsonVars>>
  \/ EncodingsNext /\ UNCHANGED <<vars, jsonVars>>
  \/ subject = "JsonText" /\ Json!Next /\ UNCHANGED <<subject, vars, encodingVars>>

\* The fairness of StreamIO's FairSpec, in the behaviours that are of StreamIO.
ArriveStep == subject = "StreamIO" /\ (\E n \in 1..Len(wire) : Arrive(n)) /\ UNCHANGED <<subject, encodingVars, jsonVars>>
ReadStep == subject = "StreamIO" /\ ProcessAndCommit /\ UNCHANGED <<subject, encodingVars, jsonVars>>

MCSpec ==
  /\ MCInit /\ [][MCNext]_allVars
  /\ WF_allVars(ArriveStep)
  /\ WF_allVars(ReadStep)

\* Parse accepts the texts that denote a value, and reads that value, whatever
\* the Json held before ("Parses a json string", DOCUMENTATION.md:250).
ParsesJson == Json!ParsesJson

\* Parse makes of a text that Serialize wrote the value that was serialized.
ReadsWhatItWrote == Json!ReadsWhatItWrote

-----------------------------------------------------------------------------

MCNumber == [kind |-> "numeric", width |-> 2]
MCString == [kind |-> "string"]
VectorOf(item) == [kind |-> "vector", item |-> item]
OptionalOf(item) == [kind |-> "optional", item |-> item]
Tuple(items) == [kind |-> "tuple", items |-> items]

MCSchema == <<OptionalOf(Tuple(<<MCNumber, MCString>>)), VectorOf(OptionalOf(MCNumber)), VectorOf(MCString)>>

MCObjects ==
  <<{<<>>, << <<<<1, 2>>, <<1, 2, 1>>>> >>, << <<<<0, 1>>, <<2, 1>>>> >>},
    {<<>>, << <<>>, << <<0, 2>> >> >>, << << <<2, 1>> >> >>},
    {<<>>, << <<1, 2, 2, 1>>, <<>> >>, << <<2>>, <<1, 1>>, <<2>> >>}>>

MCChunk == 2
MCBase == 3
MCSizeWidth == 2

UpTo(S, n) == UNION {[1..k -> S] : k \in 0..n}

MCData == UpTo({0, 27, 129, 255}, 4)
MCTexts == UpTo({65, 47, 61, 33}, 5) \cup [1..8 -> {81, 61}]
MCHexData == UpTo({0, 9, 10, 159, 160, 255}, 2)
MCHexTexts == UpTo({48, 57, 65, 70, 97, 102, 71}, 4)

\* What serializes the texts to be parsed: JsonText without a text of its own.
Writer == INSTANCE JsonText
            WITH Texts <- {}, Behind <- {}, Earlier <- {}, Precision <- 2, pc <- jPc, text <- jText,
                 behind <- jBehind, root <- jRoot, ok <- jOk, written <- jWritten

One(n) == Writer!Number([i \in 1..n |-> "1"])
Tokens == {"{", "}", "[", "]", ",", ":", "\"", "\\", "a", "n", "1", "-", "e", " ", "true", "null"}

Trees ==
  {Writer!Array(<<One(1), One(2), One(3)>>),
   Writer!Array(<<Writer!Array(<<One(1)>>), Writer!Object(<<"a">> :> Writer!Null)>>),
   Writer!Object((<<"a">> :> Writer!Array(<<Writer!Boolean(TRUE), Writer!String(<<"a">>)>>))
               @@ (<<"n">> :> Writer!String(<<"newline">>))),
   Writer!Object(<<"a">> :> Writer!Object(<<>> :> One(1)))}

Changed(t) ==
  {t} \cup UNION {{[t EXCEPT ![i] = c] : c \in Tokens} \cup {RemoveAt(t, i)}
                  \cup {InsertAt(t, i, c) : c \in {" ", ",", "]", "}"}} : i \in DOMAIN t}

Numbers == UpTo({"0", "1", ".", "e", "E", "+", "-"}, 3)
           \cup {<<"1", e, sign, "1">> : e \in {"e", "E"}, sign \in {"+", "-"}}
           \cup {m \o <<"e", "1">> : m \in {<<"1", ".", "1">>, <<".", "1">>, <<"1", ".">>, <<"-", "1">>}}

Escaped == {<<"n">>, <<"r">>, <<"t">>, <<"b">>, <<"f">>, <<"\\">>, <<"\"">>, <<"'">>, <<"/">>, <<"a">>,
            <<"u">>, <<"u", "0", "1", "a", "e">>}
Quoted(t) == <<"\"">> \o t \o <<"\"">>
Strings == UNION {{Quoted(<<"\\">> \o c \o <<"\\">> \o d), Quoted(<<"a", "\\">> \o c \o d)} : c, d \in Escaped}

Words == {<<w>> : w \in {"true", "false", "null", "TRUE", "FALSE", "NULL", "t", "T", "f", "F", "n", "N"}}

InContainers(t) == {t, <<"[">> \o t \o <<"]">>, <<"{">> \o Quoted(<<"a">>) \o <<":">> \o t \o <<"}">>}

MCJsonTexts ==
  {t \in UpTo(Tokens, 3) \cup UpTo({"[", "]", ",", "1"}, 4) \cup UpTo({"{", "}", ",", "\""}, 4)
         \cup {<<"\"">> \o t : t \in [1..4 -> {"\"", "\\", "a", "n"}]}
         \cup Numbers \cup Strings \cup UNION {InContainers(w) : w \in Words}
         \cup UNION {InContainers(Quoted(<<"\\">> \o c)) : c \in Escaped}
         \cup {<<"{">> \o Quoted(<<"\\">> \o c) \o <<":", "1", "}">> : c \in Escaped}
         \cup UNION {Changed(t) : t \in UNION {Writer!Serialize(v, p) : v \in Trees, p \in BOOLEAN}} :
     Writer!Sensible(t)}
MCBehind == {<<>>, <<",", "1", "]", "]">>}
MCEarlier == {Writer!Null, Writer!Array(<<One(1)>>), Writer!Object(<<"a">> :> One(1))}
MCPrecision == 2
================================================================================
