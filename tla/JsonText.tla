-------------------------------- MODULE JsonText --------------------------------
(***************************************************************************)
(* tools/Json.cpp: Json::Parse and Json::Serialize.                        *)
(*                                                                         *)
(* A text is a sequence of tokens: characters, and the words true, false   *)
(* and null, in lower case or, as TRUE, FALSE and NULL, in any other.  A   *)
(* number is the run of its characters, a string or a key the sequence of  *)
(* its characters, an object a function from keys.                         *)
(***************************************************************************)
EXTENDS Integers, Sequences, SequencesExt, FiniteSetsExt, TLC

CONSTANTS Texts,     \* bound: what is parsed first
          Behind,    \* bound: what may be in memory behind the end of a text
          Earlier,   \* bound: what the Json may hold before it is parsed into
          Precision  \* digits that an ostream prints of a double

LowerCase == {"true", "false", "null"}
OtherCase == {"TRUE", "FALSE", "NULL"}

\* bound: no word is taken apart by an escape.
Sensible(t) == \A i \in 1..(Len(t) - 1) : t[i] = "\\" => t[i + 1] \notin LowerCase \cup OtherCase

JsonTextAssumption == Precision \in Nat \ {0} /\ \A t \in Texts : Sensible(t)

VARIABLES pc, text, behind, root, ok, written

vars == <<pc, text, behind, root, ok, written>>

Quote == "\""
Backslash == "\\"
NUL == "NUL"

\* What \n, \t, \r, \b and \f stand for.
Controls == {"newline", "tab", "return", "backspace", "formfeed"}

Null           == [kind |-> "null"]
Boolean(b)     == [kind |-> "boolean", is |-> b]
Number(run)    == [kind |-> "number", run |-> run]
String(chars)  == [kind |-> "string", chars |-> chars]
Array(items)   == [kind |-> "array", items |-> items]
Object(fields) == [kind |-> "object", fields |-> fields]

\* A double that was declared and never set (Json.cpp:660).
Uninitialised == Number(<<"?">>)

IsContainer(v) == v.kind \in {"array", "object"}
Children(v) == IF v.kind = "array" THEN ToSet(v.items)
               ELSE IF v.kind = "object" THEN {v.fields[k] : k \in DOMAIN v.fields} ELSE {}

-----------------------------------------------------------------------------
(* Parse reads characters of a memory m, from a position on.  What is read *)
(* from behind the terminator is whatever lies there.                      *)

Char(m, at) == IF at <= Len(m) THEN m[at] ELSE NUL

\* Whatever cannot be printed.
IsWhiteSpace(c) == c \in Controls \cup {" "}

FirstFrom(m, at, Test(_)) == IF at > Len(m) THEN at ELSE Min({i \in at..(Len(m) + 1) : Test(Char(m, i))})

FindStart(m, at) == FirstFrom(m, at, LAMBDA c : ~IsWhiteSpace(c))

\* The step over a backslash does not step over the character behind it.
FindEndOfString(m, at) == FirstFrom(m, at, LAMBDA c : c \in {Quote, NUL})

Escapes == ("n" :> "newline") @@ ("r" :> "return") @@ ("t" :> "tab") @@ ("b" :> "backspace") @@ ("f" :> "formfeed")
           @@ (Backslash :> Backslash) @@ (Quote :> Quote) @@ ("'" :> "'")

RECURSIVE EscapeString(_)
EscapeString(chars) ==
  IF chars = <<>> THEN [ok |-> TRUE, chars |-> <<>>]
  ELSE LET escaped == Head(chars) = Backslash
           char    == Char(chars, IF escaped THEN 2 ELSE 1)
           rest    == EscapeString(SubSeq(chars, IF escaped THEN 3 ELSE 2, Len(chars)))
       IN IF escaped /\ char \notin DOMAIN Escapes THEN [ok |-> FALSE, chars |-> <<>>]
          ELSE [rest EXCEPT !.chars = <<IF escaped THEN Escapes[char] ELSE char>> \o @]

\* What a call returns: where it stopped, and what the Json then holds.
Parsed(at, value) == [ok |-> TRUE, at |-> at, value |-> value]
Failed(value) == [ok |-> FALSE, at |-> 0, value |-> value]

Digits == {"0", "1"}
DigitsOf(t) == t # <<>> /\ ToSet(t) \subseteq Digits

\* std::from_chars takes digits with a point among them or not, and an exponent; the
\* caller wants the whole run to be one number, in the range of a double.  An empty
\* run is "an invalid argument", which nobody looks at (Json.cpp:661-667), and leaves
\* the double as it is.
FromChars(run) ==
  LET e        == SelectInSeq(run, LAMBDA c : c = "e")
      mantissa == IF e = 0 THEN run ELSE SubSeq(run, 1, e - 1)
      exponent == SubSeq(run, e + 1, Len(run))
  IN IF run = <<>> THEN {Uninitialised}
     ELSE IF /\ DigitsOf(SelectSeq(mantissa, LAMBDA c : c # "."))
             /\ Cardinality({i \in DOMAIN mantissa : mantissa[i] = "."}) <= 1
             /\ e # 0 => DigitsOf(exponent)
     THEN {Number(run)} ELSE {}

ParseAsString(m, start, old) ==
  LET end     == FindEndOfString(m, start)
      escaped == EscapeString(SubSeq(m, start, end - 1))
  IN IF Char(m, end) = Quote /\ escaped.ok THEN Parsed(end + 1, String(escaped.chars)) ELSE Failed(old)

ParseAsNumber(m, at, old) ==
  LET end == FirstFrom(m, at, LAMBDA c : c \notin Digits \cup {".", "e"})
      val == FromChars(SubSeq(m, at, end - 1))
  IN IF val = {} THEN Failed(old) ELSE Parsed(end, CHOOSE v \in val : TRUE)

\* A word in any case; what only begins like one is refused.
ParseAsValue(m, at, old) ==
  LET c == Char(m, at)
  IN CASE c = Quote                -> ParseAsString(m, at + 1, old)
       [] c \in {"true", "TRUE"}   -> Parsed(at + 1, Boolean(TRUE))
       [] c \in {"null", "NULL"}   -> Parsed(at + 1, Null)
       [] c \in {"false", "FALSE"} -> Parsed(at + 1, Boolean(FALSE))
       [] c \in {"t", "T", "n", "N", "f", "F"} -> Failed(old)
       [] OTHER                    -> ParseAsNumber(m, at, old)

\* A member's name, up to the colon and the start of its value.
ParseName(m, at) ==
  LET end   == FindEndOfString(m, at + 1)
      colon == FindStart(m, end + 1)
      value == FindStart(m, colon + 1)
  IN IF /\ Char(m, at) = Quote /\ Char(m, end) = Quote
        /\ Char(m, colon) = ":" /\ Char(m, value) # NUL
     THEN Parsed(value, SubSeq(m, at + 1, end - 1)) ELSE Failed(<<>>)

\* Faulty variant, for mutation: a container of the right type is not emptied.
OpenedAgain(c, old) ==
  IF c = "[" THEN IF old.kind = "array" THEN old ELSE Array(<<>>)
  ELSE IF old.kind = "object" THEN old ELSE Object(<<>>)

Opened(c, old) == IF c = "[" THEN Array(<<>>) ELSE Object(<<>>)
Closing(container) == IF container.kind = "array" THEN "]" ELSE "}"

\* PushChild, or AddChild: a name that is there is assigned again.
Added(container, name, value) ==
  IF container.kind = "array" THEN Array(Append(container.items, value))
  ELSE Object((name :> value) @@ container.fields)

\* ParseElements is the loop of ParseInternal, from its head.
RECURSIVE ParseInternal(_, _, _), ParseElements(_, _, _)
ParseInternal(m, from, old) ==
  LET at       == FindStart(m, from)
      opened   == Opened(Char(m, at), old)
      elements == FindStart(m, at + 1)
  IN CASE Char(m, at) = NUL              -> Failed(old)
       [] Char(m, at) \notin {"[", "{"}  -> ParseAsValue(m, at, old)
       [] Char(m, elements) = NUL        -> Failed(opened)
       [] Char(m, elements) = Closing(opened) -> Parsed(elements, opened)
       [] OTHER                          -> ParseElements(m, elements, opened)

ParseElements(m, at, container) ==
  LET start == FindStart(m, at)
      name  == IF container.kind = "object" THEN ParseName(m, start) ELSE Parsed(start, <<>>)
      child == ParseInternal(m, name.at, Null)
      added == Added(container, name.value, child.value)
      end   == FindStart(m, child.at)
  IN CASE Char(m, at) = NUL               -> Parsed(at + 1, container)
       [] ~name.ok \/ ~child.ok           -> Failed(container)
       [] Char(m, end) = Closing(added)   -> Parsed(end + 1, added)
       [] Char(m, end) # ","              -> Failed(added)
       [] OTHER                           -> ParseElements(m, end + 1, added)

-----------------------------------------------------------------------------
(* Serialize: the set of texts it may write, as an unordered_map has no     *)
(* order.  A pretty text has white space in it.                            *)

\* The number is a whole one and has no more digits than an ostream prints.
InFull(run) == DigitsOf(run) /\ (run[1] = "0" => Len(run) = 1) /\ Len(run) <= Precision

\* Such a number is printed digit by digit, any other in one of these forms.
Printed(run) == IF InFull(run) THEN {run} ELSE {<<"1">>, <<"1", ".", "1">>, <<"1", "e", "+", "1">>}

\* Faulty variant, for mutation: a comma behind every child.
SeparatedAtTheEnd(parts) == FlattenSeq([i \in DOMAIN parts |-> parts[i] \o <<",">>])

Separated(parts) == FlattenSeq([i \in DOMAIN parts |-> (IF i = 1 THEN <<>> ELSE <<",">>) \o parts[i]])

\* One text of every set, in order.
TextsOf(sets) == FoldLeft(LAMBDA chosen, set : {Append(c, t) : c \in chosen, t \in set}, {<<>>}, sets)

RECURSIVE Serialize(_, _)
Serialize(v, pretty) ==
  LET gap(when)    == IF pretty /\ when THEN <<" ">> ELSE <<>>
      Item(child)  == {gap(\E c \in Children(v) : IsContainer(c)) \o t : t \in Serialize(child, pretty)}
      Field(name)  == {gap(TRUE) \o <<Quote>> \o name \o <<Quote, ":">> \o gap(TRUE) \o t :
                         t \in Serialize(v.fields[name], pretty)}
  IN CASE v.kind = "null"    -> {<<"null">>}
       [] v.kind = "number"  -> Printed(v.run)
       [] v.kind = "string"  -> {<<Quote>> \o v.chars \o <<Quote>>}
       [] v.kind = "boolean" -> {<<IF v.is THEN "true" ELSE "false">>}
       [] v.kind = "array"   ->
            {<<"[">> \o Separated(c) \o <<"]">> : c \in TextsOf([i \in DOMAIN v.items |-> Item(v.items[i])])}
       [] v.kind = "object"  ->
            {<<"{">> \o Separated(c) \o <<"}">> :
               c \in UNION {TextsOf([i \in DOMAIN names |-> Field(names[i])]) : names \in SetToSeqs(DOMAIN v.fields)}}

-----------------------------------------------------------------------------
(* A Json that holds something is parsed into, serialized, and parsed into *)
(* from its own text.                                                      *)

Init ==
  /\ pc = "start" /\ text \in Texts /\ behind \in Behind /\ root \in Earlier
  /\ ok = FALSE /\ written = Null

Parse ==
  /\ pc \in {"start", "serialized"}
  /\ \E result \in {ParseInternal(text \o <<NUL>> \o behind, 1, root)} :
       ok' = result.ok /\ root' = result.value
  /\ pc' = IF pc = "start" THEN "parsed" ELSE "parsed again"
  /\ UNCHANGED <<text, behind, written>>

SerializeRoot(pretty) ==
  /\ pc = "parsed"
  /\ text' \in Serialize(root, pretty)
  /\ written' = root
  /\ pc' = "serialized"
  /\ UNCHANGED <<behind, root, ok>>

Next == Parse \/ \E pretty \in BOOLEAN : SerializeRoot(pretty)

Spec == Init /\ [][Next]_vars

-----------------------------------------------------------------------------
(* Reference: the values that a text denotes in JSON (RFC 8259).            *)

Space == {" ", "newline", "tab", "return"}
Blank(t) == ToSet(t) \subseteq Space
Trimmed(t) == IF Blank(t) THEN <<>>
              ELSE LET inked == {i \in DOMAIN t : t[i] \notin Space} IN SubSeq(t, Min(inked), Max(inked))
Inner(t) == SubSeq(t, 2, Len(t) - 1)

EscapesInJson == ("n" :> "newline") @@ ("r" :> "return") @@ ("t" :> "tab") @@ ("b" :> "backspace") @@ ("f" :> "formfeed")
                 @@ (Backslash :> Backslash) @@ (Quote :> Quote) @@ ("/" :> "/")

\* A character by its code: which one it is makes no difference here.
CodeOf(t) == Len(t) >= 6 /\ t[2] = "u" /\ \A i \in 3..6 : t[i] \in Digits \cup {"a", "b", "e", "f"}

RECURSIVE Unescaped(_)
Unescaped(t) ==
  CASE t = <<>> -> {<<>>}
    [] t # <<>> /\ t[1] \in Controls \cup {Quote} -> {}
    [] t # <<>> /\ t[1] = Backslash ->
         IF CodeOf(t) THEN {<<"code">> \o u : u \in Unescaped(SubSeq(t, 7, Len(t)))}
         ELSE IF Len(t) >= 2 /\ t[2] \in DOMAIN EscapesInJson
         THEN {<<EscapesInJson[t[2]]>> \o u : u \in Unescaped(SubSeq(t, 3, Len(t)))} ELSE {}
    [] OTHER -> {<<t[1]>> \o u : u \in Unescaped(Tail(t))}

Denotes(t, open, close) == Len(t) >= 2 /\ t[1] = open /\ t[Len(t)] = close

Unsigned(t, signs) == IF t # <<>> /\ t[1] \in signs THEN Tail(t) ELSE t

\* A whole number without leading zeros, and perhaps a fraction and an exponent.
IsNumber(signed) ==
  LET t == Unsigned(signed, {"-"})
  IN \E i \in DOMAIN t : \E j \in i..Len(t) :
       /\ DigitsOf(SubSeq(t, 1, i)) /\ (t[1] = "0" => i = 1)
       /\ i # j => t[i + 1] = "." /\ DigitsOf(SubSeq(t, i + 2, j))
       /\ j # Len(t) => /\ t[j + 1] \in {"e", "E"}
                        /\ DigitsOf(Unsigned(SubSeq(t, j + 2, Len(t)), {"+", "-"}))

RECURSIVE Denoted(_), Items(_), Fields(_)
Denoted(untrimmed) ==
  LET t == Trimmed(untrimmed)
  IN UNION {
       IF t = <<"null">> THEN {Null} ELSE {},
       {Boolean(b) : b \in {x \in BOOLEAN : t = <<IF x THEN "true" ELSE "false">>}},
       IF IsNumber(t) THEN {Number(t)} ELSE {},
       IF Denotes(t, Quote, Quote) THEN {String(u) : u \in Unescaped(Inner(t))} ELSE {},
       IF Denotes(t, "[", "]")
       THEN {Array(items) : items \in IF Blank(Inner(t)) THEN {<<>>} ELSE Items(Inner(t))} ELSE {},
       IF Denotes(t, "{", "}")
       THEN {Object(fields) : fields \in IF Blank(Inner(t)) THEN {<<>>} ELSE Fields(Inner(t))} ELSE {}}

Commas(t) == {i \in DOMAIN t : t[i] = ","}

Items(t) ==
  {<<v>> : v \in Denoted(t)}
  \cup UNION {{<<v>> \o rest : v \in Denoted(SubSeq(t, 1, i - 1)), rest \in Items(SubSeq(t, i + 1, Len(t)))} : i \in Commas(t)}

\* One member or several; of members with one name the last one counts.
Member(t) ==
  UNION {{name.chars :> v : name \in {n \in Denoted(SubSeq(t, 1, i - 1)) : n.kind = "string"},
                            v \in Denoted(SubSeq(t, i + 1, Len(t)))} : i \in {j \in DOMAIN t : t[j] = ":"}}

Fields(t) ==
  Member(t)
  \cup UNION {{rest @@ member : member \in Member(SubSeq(t, 1, i - 1)), rest \in Fields(SubSeq(t, i + 1, Len(t)))} : i \in Commas(t)}

-----------------------------------------------------------------------------
(* Properties *)

RECURSIVE Nodes(_)
Nodes(v) == {v} \cup UNION {Nodes(child) : child \in Children(v)}

Empty(v) == IsContainer(v) /\ Children(v) = {}

\* What this class can carry: an empty container only as the whole text, numbers
\* without a sign, an E, or anything that JSON does not have, strings without a quote,
\* names without an escape.
Usual(v) ==
  \A n \in Nodes(v) :
    /\ \A child \in Children(n) : ~Empty(child)
    /\ n.kind = "number" => IsNumber(n.run) /\ ToSet(n.run) \cap {"-", "+", "E"} = {}
    /\ n.kind = "string" => Quote \notin ToSet(n.chars)
    /\ n.kind = "object" => \A name \in DOMAIN n.fields : ToSet(name) \cap ({Backslash, Quote} \cup Controls) = {}

\* The characters that stand behind a backslash which is not itself escaped.
EscapesOf(t) ==
  LET escaped[i \in 0..Len(t)] == i > 1 /\ t[i - 1] = Backslash /\ ~escaped[i - 1]
  IN {t[i] : i \in {j \in DOMAIN t : escaped[j]}}

\* What Parse takes although JSON does not have it: a text that ends behind a comma,
\* \', words in capitals, and characters that cannot be printed, as they are.
Lenient(t) == \/ t # <<>> /\ Last(t) = ","
              \/ "'" \in EscapesOf(t)
              \/ ToSet(t) \cap (OtherCase \cup Controls) # {}

\* Parse reads JSON ("Parses a json string", DOCUMENTATION.md:250) up to these
\* departures: a text without the escapes \/ and \u that denotes a usual value is
\* accepted and leaves that value, whatever the Json held before; and what is accepted,
\* by no leniency, begins with a text that denotes the value.
ParsesJson ==
  pc = "parsed" =>
    /\ \A v \in Denoted(text) : Usual(v) /\ EscapesOf(text) \cap {"/", "u"} = {} => ok /\ root = v
    /\ ok /\ Usual(root) /\ ~Lenient(text) => \E k \in DOMAIN text : root \in Denoted(SubSeq(text, 1, k))

\* The same without the departures, which Parse does not do: it refuses \/, \u and
\* 1e+1, reads 1E1 as 1 and -1 as a double that was never set, and takes \', TRUE,
\* 01, .1 and 1. for values.
ParsesJsonExactly ==
  pc = "parsed" => IF Denoted(text) = {} THEN ~ok ELSE ok /\ root \in Denoted(text)

\* A usual value whose strings need no escape and whose numbers an ostream prints
\* in full is what Parse makes of its own text, compact or pretty, in any order of
\* its names.
ReadsWhatItWrote ==
  pc = "parsed again" /\ Usual(written)
    /\ (\A n \in Nodes(written) : /\ n.kind = "string" => Backslash \notin ToSet(n.chars)
                                  /\ n.kind = "number" => InFull(n.run))
    => ok /\ root = written
================================================================================
