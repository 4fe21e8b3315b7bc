----------------------------- MODULE WebsocketProofs -----------------------------
(***************************************************************************)
(* Proofs about Websocket, for every choice of the lengths at which the    *)
(* encoding changes, of frames the peer may send, and however they arrive: *)
(* the bytes of a frame are read as they came, masked or not, and nothing  *)
(* behind them is, messages and requests are handled in order, fragments   *)
(* are those of the open message, and what is written can be read.         *)
(***************************************************************************)
EXTENDS Websocket, SequenceTheorems, WellFoundedInduction, TLAPS

-----------------------------------------------------------------------------
(* Sequences that are put together *)

\* The least number that has a property, for the inductions below.
LEMMA LeastOf ==
  ASSUME NEW bad, bad \subseteq Nat, bad # {}
  PROVE  \E n \in bad : \A m \in bad : n <= m
<1>1. PICK n \in bad : \A m \in bad : <<m, n>> \notin OpToRel(<, Nat)
  BY NatLessThanWellFounded, WFMin, Zenon
<1>2. ASSUME NEW m \in bad PROVE n <= m
  <2>1. n \in Nat /\ m \in Nat
    OBVIOUS
  <2>2. ~(m < n)
    BY <1>1, <2>1, Zenon DEF OpToRel
  <2>3. QED
    BY <2>1, <2>2
<1>3. QED
  BY <1>2

\* A sequence that is cut in two.
LEMMA CutInTwo ==
  ASSUME NEW S, NEW s \in Seq(S), NEW n \in 0..Len(s)
  PROVE  /\ SubSeq(s, 1, n) \in Seq(S) /\ Len(SubSeq(s, 1, n)) = n
         /\ \A i \in 1..n : SubSeq(s, 1, n)[i] = s[i]
         /\ SubSeq(s, n + 1, Len(s)) \in Seq(S) /\ Len(SubSeq(s, n + 1, Len(s))) = Len(s) - n
         /\ \A i \in 1..(Len(s) - n) : SubSeq(s, n + 1, Len(s))[i] = s[n + i]
         /\ SubSeq(s, 1, n) \o SubSeq(s, n + 1, Len(s)) = s
<1> DEFINE front == SubSeq(s, 1, n)
           back == SubSeq(s, n + 1, Len(s))
<1>1. \A i \in 1..n : s[i] \in S
  OBVIOUS
<1>2. \A i \in (n + 1)..Len(s) : s[i] \in S
  OBVIOUS
<1>3. front \in Seq(S) /\ Len(front) = n
  BY <1>1, SubSeqProperties
<1>4. \A i \in 1..n : front[i] = s[i]
  BY <1>1
<1>5. back \in Seq(S) /\ Len(back) = Len(s) - n
  <2>1. n + 1 \in Int /\ Len(s) \in Int /\ n <= Len(s)
    OBVIOUS
  <2>2. back \in Seq(S) /\ Len(back) = IF n + 1 <= Len(s) THEN Len(s) - (n + 1) + 1 ELSE 0
    BY <1>2, <2>1, SubSeqProperties
  <2> HIDE DEF back
  <2>3. QED
    BY <2>1, <2>2
<1>6. \A i \in 1..(Len(s) - n) : back[i] = s[n + i]
  BY <1>2
<1> HIDE DEF front, back
<1>7. front \o back \in Seq(S) /\ Len(front \o back) = Len(s)
  BY <1>3, <1>5, ConcatProperties
<1>8. ASSUME NEW i \in 1..Len(s) PROVE (front \o back)[i] = s[i]
  <2>1. CASE i \in 1..n
    BY <1>3, <1>4, <1>5, <2>1
  <2>2. CASE i \notin 1..n
    <3>1. i - n \in 1..(Len(s) - n) /\ n + (i - n) = i
      BY <2>2
    <3>2. (front \o back)[i] = back[i - n]
      BY <1>3, <1>5, <2>2
    <3>3. QED
      BY <1>6, <3>1, <3>2
  <2>3. QED
    BY <2>1, <2>2
<1>9. front \o back = s
  BY <1>7, <1>8, SeqEqual
<1>10. QED
  BY <1>3, <1>4, <1>5, <1>6, <1>9 DEF front, back

\* What follows the first of two sequences is the second.
LEMMA SecondPart ==
  ASSUME NEW S, NEW c \in Seq(S), NEW rest \in Seq(S), NEW s, s = c \o rest
  PROVE  SubSeq(s, Len(c) + 1, Len(s)) = rest
<1> DEFINE back == SubSeq(s, Len(c) + 1, Len(s))
<1>1. /\ s \in Seq(S) /\ Len(s) = Len(c) + Len(rest)
      /\ \A i \in 1..Len(rest) : s[Len(c) + i] = rest[i]
  BY ConcatProperties
<1>2. Len(c) \in 0..Len(s) /\ Len(s) - Len(c) = Len(rest)
  BY <1>1
<1>3. back \in Seq(S) /\ Len(back) = Len(rest) /\ \A i \in 1..Len(rest) : back[i] = s[Len(c) + i]
  BY <1>1, <1>2, CutInTwo
<1> HIDE DEF back
<1>4. back = rest
  BY <1>1, <1>3, SeqEqual
<1>5. QED
  BY <1>4 DEF back

\* FlattenSeq is defined by a recursive function; this is the function.
LEMMA FlattenFunction ==
  ASSUME NEW S, NEW ss \in Seq(Seq(S)), Len(ss) # 0
  PROVE  \E f : /\ f = [i \in 1..Len(ss) |-> IF i = 1 THEN ss[i] ELSE f[i - 1] \o ss[i]]
                /\ FlattenSeq(ss) = f[Len(ss)]
<1> DEFINE Good(n) == \E f : f = [i \in 1..n |-> IF i = 1 THEN ss[i] ELSE f[i - 1] \o ss[i]]
           Bad == {n \in Nat : ~Good(n)}
<1>1. Good(0)
  <2>1. [i \in 1..0 |-> 0] = [i \in 1..0 |-> IF i = 1 THEN ss[i] ELSE [j \in 1..0 |-> 0][i - 1] \o ss[i]]
    OBVIOUS
  <2>2. QED
    BY <2>1
<1>2. ASSUME NEW n \in Nat, Good(n) PROVE Good(n + 1)
  <2>1. PICK f : f = [i \in 1..n |-> IF i = 1 THEN ss[i] ELSE f[i - 1] \o ss[i]]
    BY <1>2
  <2> DEFINE g == [i \in 1..(n + 1) |-> IF i = 1 THEN ss[i] ELSE f[i - 1] \o ss[i]]
  <2>2. ASSUME NEW i \in 1..n PROVE g[i] = f[i]
    <3>1. f[i] = IF i = 1 THEN ss[i] ELSE f[i - 1] \o ss[i]
      BY <2>1
    <3>2. i \in 1..(n + 1)
      OBVIOUS
    <3> HIDE <2>1
    <3>3. QED
      BY <3>1, <3>2
  <2>3. ASSUME NEW i \in 1..(n + 1) PROVE g[i] = IF i = 1 THEN ss[i] ELSE g[i - 1] \o ss[i]
    <3>1. CASE i = 1
      BY <3>1
    <3>2. CASE i # 1
      <4>1. i - 1 \in 1..n
        BY <3>2
      <4>2. QED
        BY <2>2, <3>2, <4>1
    <3>3. QED
      BY <3>1, <3>2
  <2>4. g = [i \in 1..(n + 1) |-> IF i = 1 THEN ss[i] ELSE g[i - 1] \o ss[i]]
    BY <2>3
  <2>5. QED
    BY <2>4
<1>3. Good(Len(ss))
  <2> HIDE DEF Good
  <2>1. Len(ss) \in Nat
    OBVIOUS
  <2>2. SUFFICES ASSUME ~Good(Len(ss)) PROVE FALSE
    OBVIOUS
  <2>3. Bad # {} /\ Bad \subseteq Nat
    BY <2>1, <2>2
  <2>4. PICK n \in Bad : \A m \in Bad : n <= m
    BY <2>3, LeastOf
  <2>5. n \in Nat /\ ~Good(n)
    BY <2>4
  <2>6. n # 0
    BY <1>1, <2>5
  <2>7. n - 1 \in Nat /\ ~(n <= n - 1)
    BY <2>5, <2>6
  <2>8. Good(n - 1)
    BY <2>4, <2>7
  <2>9. Good((n - 1) + 1)
    BY <1>2, <2>7, <2>8
  <2>10. (n - 1) + 1 = n
    BY <2>5
  <2>11. QED
    BY <2>5, <2>9, <2>10
<1> DEFINE flatten == CHOOSE f : f = [i \in 1..Len(ss) |-> IF i = 1 THEN ss[i] ELSE f[i - 1] \o ss[i]]
<1>4. flatten = [i \in 1..Len(ss) |-> IF i = 1 THEN ss[i] ELSE flatten[i - 1] \o ss[i]]
  BY <1>3
<1>5. FlattenSeq(ss) = flatten[Len(ss)]
  BY DEF FlattenSeq
<1>6. QED
  BY <1>4, <1>5

LEMMA FlattenSteps ==
  ASSUME NEW S, NEW ss \in Seq(Seq(S)),
         NEW f, f = [i \in 1..Len(ss) |-> IF i = 1 THEN ss[i] ELSE f[i - 1] \o ss[i]]
  PROVE  \A i \in 1..Len(ss) : f[i] = IF i = 1 THEN ss[i] ELSE f[i - 1] \o ss[i]
OBVIOUS

LEMMA FlattenEmpty ==
  ASSUME NEW S, NEW ss \in Seq(Seq(S)), Len(ss) = 0
  PROVE  FlattenSeq(ss) = <<>>
BY DEF FlattenSeq

LEMMA FlattenType ==
  ASSUME NEW S, NEW ss \in Seq(Seq(S))
  PROVE  FlattenSeq(ss) \in Seq(S)
<1>1. CASE Len(ss) = 0
  BY <1>1, FlattenEmpty, EmptySeq
<1>2. CASE Len(ss) # 0
  <2>1. PICK f : /\ f = [i \in 1..Len(ss) |-> IF i = 1 THEN ss[i] ELSE f[i - 1] \o ss[i]]
                 /\ FlattenSeq(ss) = f[Len(ss)]
    BY <1>2, FlattenFunction
  <2>2. \A i \in 1..Len(ss) : f[i] = IF i = 1 THEN ss[i] ELSE f[i - 1] \o ss[i]
    BY <2>1, FlattenSteps
  <2> HIDE <2>1
  <2> DEFINE Bad == {n \in Nat : n \in 1..Len(ss) /\ f[n] \notin Seq(S)}
  <2>3. ASSUME Bad # {} PROVE FALSE
    <3>1. PICK n \in Bad : \A m \in Bad : n <= m
      BY <2>3, LeastOf
    <3>2. n \in 1..Len(ss) /\ f[n] \notin Seq(S) /\ ss[n] \in Seq(S)
      BY <3>1
    <3>3. n # 1
      BY <2>2, <3>2
    <3>4. n - 1 \in 1..Len(ss) /\ n - 1 \in Nat /\ ~(n <= n - 1)
      BY <3>2, <3>3
    <3>5. f[n - 1] \in Seq(S)
      BY <3>1, <3>4
    <3>6. f[n] = f[n - 1] \o ss[n]
      BY <2>2, <3>2, <3>3
    <3>7. QED
      BY <3>2, <3>5, <3>6
  <2>4. Len(ss) \in 1..Len(ss) /\ Len(ss) \in Nat
    BY <1>2
  <2>5. f[Len(ss)] \in Seq(S)
    BY <2>3, <2>4
  <2>6. QED
    BY <2>1, <2>5
<1>3. QED
  BY <1>1, <1>2

\* One more sequence at the end.
LEMMA FlattenAppend ==
  ASSUME NEW S, NEW ss \in Seq(Seq(S)), NEW e \in Seq(S)
  PROVE  FlattenSeq(Append(ss, e)) = FlattenSeq(ss) \o e
<1> DEFINE n == Len(ss)
           all == Append(ss, e)
<1>0. /\ all \in Seq(Seq(S)) /\ Len(all) = n + 1 /\ n \in Nat /\ Len(all) # 0
      /\ all[n + 1] = e /\ \A i \in 1..n : all[i] = ss[i]
  OBVIOUS
<1> HIDE DEF all
<1>1. PICK g : /\ g = [i \in 1..Len(all) |-> IF i = 1 THEN all[i] ELSE g[i - 1] \o all[i]]
               /\ FlattenSeq(all) = g[Len(all)]
  BY <1>0, FlattenFunction
<1>2. \A i \in 1..(n + 1) : g[i] = IF i = 1 THEN all[i] ELSE g[i - 1] \o all[i]
  BY <1>0, <1>1, FlattenSteps
<1>3. CASE n = 0
  <2>1. g[1] = e
    BY <1>0, <1>2, <1>3
  <2>2. FlattenSeq(ss) = <<>>
    BY <1>3, FlattenEmpty
  <2>3. <<>> \o e = e
    OBVIOUS
  <2>4. QED
    BY <1>0, <1>1, <1>3, <2>1, <2>2, <2>3 DEF all
<1>4. CASE n # 0
  <2>1. PICK f : /\ f = [i \in 1..Len(ss) |-> IF i = 1 THEN ss[i] ELSE f[i - 1] \o ss[i]]
                 /\ FlattenSeq(ss) = f[Len(ss)]
    BY <1>4, FlattenFunction
  <2>2. \A i \in 1..n : f[i] = IF i = 1 THEN ss[i] ELSE f[i - 1] \o ss[i]
    BY <2>1, FlattenSteps
  <2> DEFINE Bad == {k \in Nat : k \in 1..n /\ f[k] # g[k]}
  <2>3. ASSUME Bad # {} PROVE FALSE
    <3>1. PICK k \in Bad : \A m \in Bad : k <= m
      BY <2>3, LeastOf
    <3>2. k \in 1..n /\ f[k] # g[k] /\ k \in 1..(n + 1) /\ all[k] = ss[k]
      BY <1>0, <3>1
    <3>3. k # 1
      BY <1>2, <2>2, <3>2
    <3>4. k - 1 \in 1..n /\ k - 1 \in Nat /\ ~(k <= k - 1)
      BY <1>0, <3>2, <3>3
    <3>5. f[k - 1] = g[k - 1]
      BY <3>1, <3>4
    <3>6. QED
      BY <1>2, <2>2, <3>2, <3>3, <3>5
  <2>4. n \in 1..n /\ n \in Nat
    BY <1>0, <1>4
  <2>5. f[n] = g[n]
    BY <2>3, <2>4
  <2>6. n + 1 \in 1..(n + 1) /\ n + 1 # 1 /\ (n + 1) - 1 = n
    BY <1>0, <1>4
  <2>7. g[n + 1] = g[n] \o e
    BY <1>0, <1>2, <2>6
  <2>8. QED
    BY <1>0, <1>1, <2>1, <2>5, <2>7 DEF all
<1>5. QED
  BY <1>3, <1>4

\* In which order three sequences are put together makes no difference.
Regroups(first, middle, last) == (first \o middle) \o last = first \o (middle \o last)

LEMMA Regrouped ==
  ASSUME NEW S, NEW first \in Seq(S), NEW middle \in Seq(S), NEW last \in Seq(S)
  PROVE  Regroups(first, middle, last)
BY ConcatAssociative DEF Regroups

\* What s begins and t goes on with is a code, and the rest.
Begins(s, t, code, rest) == s \o t = code \o rest

LEMMA CutOff ==
  ASSUME NEW S, NEW first \in Seq(S), NEW middle \in Seq(S), NEW last \in Seq(S), NEW rest \in Seq(S)
  PROVE  Begins(first \o middle, last, first, rest) => middle \o last = rest
<1>1. Regroups(first, middle, last)
  BY Regrouped
<1>2. middle \o last \in Seq(S)
  BY ConcatProperties
<1>3. first \o (middle \o last) = first \o rest => middle \o last = rest
  BY <1>2, ConcatSimplifications
<1>4. QED
  BY <1>1, <1>3, Zenon DEF Begins, Regroups

\* A piece of a sequence.
LEMMA Piece ==
  ASSUME NEW S, NEW s \in Seq(S), NEW a \in 1..(Len(s) + 1), NEW n \in 0..(Len(s) + 1 - a)
  PROVE  /\ SubSeq(s, a, a - 1 + n) \in Seq(S) /\ Len(SubSeq(s, a, a - 1 + n)) = n
         /\ \A i \in 1..n : SubSeq(s, a, a - 1 + n)[i] = s[a - 1 + i]
<1>1. \A i \in a..(a - 1 + n) : s[i] \in S
  OBVIOUS
<1>2. a \in Int /\ a - 1 + n \in Int
  OBVIOUS
<1>3. SubSeq(s, a, a - 1 + n) \in Seq(S) /\ Len(SubSeq(s, a, a - 1 + n)) = n
  BY <1>1, <1>2, SubSeqProperties
<1>4. \A i \in 1..n : SubSeq(s, a, a - 1 + n)[i] = s[a - 1 + i]
  BY <1>1
<1>5. QED
  BY <1>3, <1>4

\* And at the beginning.
LEMMA FlattenOne ==
  ASSUME NEW S, NEW t \in Seq(Seq(S)), Len(t) = 1
  PROVE  FlattenSeq(t) = t[1] \o FlattenSeq(Tail(t))
<1>1. <<>> \in Seq(Seq(S)) /\ Len(<<>>) = 0
  BY EmptySeq
<1>2. t[1] \in Seq(S)
  OBVIOUS
<1>3. t = Append(<<>>, t[1])
  OBVIOUS
<1>4. Tail(t) \in Seq(Seq(S)) /\ Len(Tail(t)) = 0
  <2>1. Len(<<>>) # Len(t)
    BY <1>1
  <2>2. t # <<>>
    BY <2>1, Zenon
  <2>3. QED
    BY <2>2, HeadTailProperties
<1>5. FlattenSeq(Append(<<>>, t[1])) = FlattenSeq(<<>>) \o t[1]
  BY <1>1, <1>2, FlattenAppend
<1>6. FlattenSeq(t) = FlattenSeq(<<>>) \o t[1]
  BY <1>3, <1>5, Zenon
<1>7. FlattenSeq(<<>>) = <<>> /\ FlattenSeq(Tail(t)) = <<>>
  BY <1>1, <1>4, FlattenEmpty
<1>8. <<>> \o t[1] = t[1] /\ t[1] \o <<>> = t[1]
  BY <1>2, ConcatEmptySeq
<1>9. QED
  BY <1>6, <1>7, <1>8

LEMMA FlattenMore ==
  ASSUME NEW S, NEW u \in Seq(Seq(S)), Len(u) # 0, NEW e \in Seq(S),
         FlattenSeq(u) = u[1] \o FlattenSeq(Tail(u))
  PROVE  FlattenSeq(Append(u, e)) = u[1] \o FlattenSeq(Tail(Append(u, e)))
<1>1. u[1] \in Seq(S)
  OBVIOUS
<1>2. u # <<>> /\ Append(u, e) # <<>> /\ Append(u, e) \in Seq(Seq(S))
  OBVIOUS
<1>3. /\ Tail(u) \in Seq(Seq(S)) /\ Len(Tail(u)) = Len(u) - 1
      /\ \A i \in 1..Len(Tail(u)) : Tail(u)[i] = u[i + 1]
  BY <1>2, HeadTailProperties
<1>4. Tail(Append(u, e)) = Append(Tail(u), e)
  <2> DEFINE all == Append(u, e)
  <2>1. Len(all) = Len(u) + 1 /\ \A i \in 1..Len(all) : all[i] = IF i <= Len(u) THEN u[i] ELSE e
    OBVIOUS
  <2>2. /\ Tail(all) \in Seq(Seq(S)) /\ Len(Tail(all)) = Len(all) - 1
        /\ \A i \in 1..Len(Tail(all)) : Tail(all)[i] = all[i + 1]
    BY <1>2, HeadTailProperties
  <2> HIDE DEF all
  <2>3. Append(Tail(u), e) \in Seq(Seq(S)) /\ Len(Append(Tail(u), e)) = Len(u)
    BY <1>3
  <2>4. ASSUME NEW i \in 1..Len(u) PROVE Tail(all)[i] = Append(Tail(u), e)[i]
    <3>1. Tail(all)[i] = all[i + 1]
      BY <2>1, <2>2
    <3>2. all[i + 1] = IF i + 1 <= Len(u) THEN u[i + 1] ELSE e
      BY <2>1
    <3>3. Append(Tail(u), e)[i] = IF i <= Len(Tail(u)) THEN Tail(u)[i] ELSE e
      BY <1>3
    <3>4. CASE i = Len(u)
      <4>1. ~(i <= Len(Tail(u))) /\ ~(i + 1 <= Len(u))
        BY <1>3, <3>4
      <4>2. QED
        BY <3>1, <3>2, <3>3, <4>1, Zenon
    <3>5. CASE i # Len(u)
      <4>1. i \in 1..Len(Tail(u))
        BY <1>3, <3>5
      <4>2. Tail(u)[i] = u[i + 1]
        BY <1>3, <4>1
      <4>3. i <= Len(Tail(u)) /\ i + 1 <= Len(u)
        <5>1. i + 1 <= Len(u)
          BY <3>5
        <5>2. QED
          BY <4>1, <5>1
      <4>4. QED
        BY <3>1, <3>2, <3>3, <4>2, <4>3, Zenon
    <3>6. QED
      BY <3>4, <3>5
  <2>5. Tail(all) = Append(Tail(u), e)
    <3>1. Len(Tail(all)) = Len(Append(Tail(u), e)) /\ Len(Tail(all)) = Len(u)
      BY <2>1, <2>2, <2>3
    <3>2. QED
      BY <2>2, <2>3, <2>4, <3>1, SeqEqual
  <2>6. QED
    BY <2>5 DEF all
<1>5. FlattenSeq(Append(u, e)) = FlattenSeq(u) \o e /\ FlattenSeq(Append(Tail(u), e)) = FlattenSeq(Tail(u)) \o e
  BY <1>3, FlattenAppend
<1>6. FlattenSeq(Tail(u)) \in Seq(S)
  BY <1>3, FlattenType
<1>7. (u[1] \o FlattenSeq(Tail(u))) \o e = u[1] \o (FlattenSeq(Tail(u)) \o e)
  <2>1. PICK first \in Seq(S) : first = u[1]
    BY <1>1
  <2>2. PICK middle \in Seq(S) : middle = FlattenSeq(Tail(u))
    BY <1>6
  <2>3. Regroups(first, middle, e)
    BY Regrouped
  <2>4. QED
    BY <2>1, <2>2, <2>3, Zenon DEF Regroups
<1>8. QED
  BY <1>4, <1>5, <1>7

LEMMA FlattenCons ==
  ASSUME NEW S, NEW ss \in Seq(Seq(S)), Len(ss) # 0
  PROVE  FlattenSeq(ss) = ss[1] \o FlattenSeq(Tail(ss))
<1> DEFINE Holds(n) == \A t \in Seq(Seq(S)) : Len(t) = n => FlattenSeq(t) = t[1] \o FlattenSeq(Tail(t))
           Bad == {n \in Nat : n # 0 /\ ~Holds(n)}
<1>1. Holds(1)
  BY FlattenOne
<1>2. ASSUME NEW n \in Nat \ {0}, Holds(n) PROVE Holds(n + 1)
  <2> SUFFICES ASSUME NEW t \in Seq(Seq(S)), Len(t) = n + 1
               PROVE  FlattenSeq(t) = t[1] \o FlattenSeq(Tail(t))
    OBVIOUS
  <2> DEFINE u == SubSeq(t, 1, n)
  <2>1. u \in Seq(Seq(S)) /\ Len(u) = n /\ u[1] = t[1] /\ t[n + 1] \in Seq(S) /\ t = Append(u, t[n + 1])
    OBVIOUS
  <2> HIDE DEF u
  <2>2. FlattenSeq(u) = u[1] \o FlattenSeq(Tail(u))
    BY <1>2, <2>1
  <2>3. FlattenSeq(Append(u, t[n + 1])) = u[1] \o FlattenSeq(Tail(Append(u, t[n + 1])))
    BY <2>1, <2>2, FlattenMore
  <2>4. QED
    BY <2>1, <2>3, Zenon
<1> HIDE DEF Holds
<1>3. ASSUME Bad # {} PROVE FALSE
  <2>1. PICK n \in Bad : \A m \in Bad : n <= m
    BY <1>3, LeastOf
  <2>2. n \in Nat /\ n # 0 /\ ~Holds(n)
    BY <2>1
  <2>3. n # 1
    BY <1>1, <2>2
  <2>4. n - 1 \in Nat \ {0} /\ ~(n <= n - 1) /\ (n - 1) + 1 = n
    BY <2>2, <2>3
  <2>5. Holds(n - 1)
    BY <2>1, <2>4
  <2>6. Holds((n - 1) + 1)
    BY <1>2, <2>4, <2>5
  <2>7. QED
    BY <2>2, <2>4, <2>6
<1>4. Len(ss) \in Nat
  OBVIOUS
<1>5. Holds(Len(ss))
  BY <1>3, <1>4
<1>6. QED
  BY <1>5 DEF Holds

-----------------------------------------------------------------------------
(* The fields of a frame *)

Flag == BOOLEAN
Byte == [kind : {"byte"}, value : Nat, masked : Flag]
Header == [kind : {"header"}, fin : Flag, op : 0..15]
Short == [kind : {"short"}, masked : Flag, value : Nat]
Long == [kind : {"long"}, value : Int]
Mask == [kind : {"mask"}]
Field == Byte \cup Header \cup Short \cup Long \cup Mask

\* The lengths that the peer writes, and how many bytes follow each.
AnyLength == Nat \cup {Malformed, TooLong}
Following(length) == IF length > 0 THEN length ELSE 0

LEMMA BytesAre ==
  ASSUME NEW n \in Nat, NEW size \in AnyLength, NEW masked \in Flag
  PROVE  /\ Bytes(n, size, masked) \in Seq(Byte) /\ Len(Bytes(n, size, masked)) = Following(size)
         /\ size > 0 => Bytes(n, size, masked) # <<>>
         /\ ~(size > 0) => Bytes(n, size, masked) = <<>>
<1>1. size \in Int
  BY DEF AnyLength, Malformed, TooLong
<1>2. CASE size > 0
  <2>1. Bytes(n, size, masked) \in Seq(Byte) /\ Len(Bytes(n, size, masked)) = size
    BY <1>1, <1>2 DEF Bytes, Byte
  <2>2. Len(<<>>) # Len(Bytes(n, size, masked))
    BY <1>2, <2>1
  <2>3. Bytes(n, size, masked) # <<>>
    BY <2>2, Zenon
  <2>4. QED
    BY <1>2, <2>1, <2>3 DEF Following
<1>3. CASE ~(size > 0)
  <2>1. Bytes(n, size, masked) = [i \in 1..0 |-> [kind |-> "byte", value |-> n, masked |-> masked]]
    BY <1>1, <1>3 DEF Bytes
  <2>2. Bytes(n, size, masked) \in Seq(Byte) /\ Len(Bytes(n, size, masked)) = 0
    BY <2>1 DEF Byte
  <2>3. Bytes(n, size, masked) = <<>>
    BY <2>2, EmptySeq
  <2>4. QED
    BY <1>3, <2>2, <2>3 DEF Following
<1>4. QED
  BY <1>2, <1>3

\* What is in front of the payload.
Lengths(masked, length) ==
  IF length \in 0..ShortMax
  THEN <<[kind |-> "short", masked |-> masked, value |-> length]>>
  ELSE IF length \in 0..WordMax
  THEN <<[kind |-> "short", masked |-> masked, value |-> Word], [kind |-> "long", value |-> length]>>
  ELSE <<[kind |-> "short", masked |-> masked, value |-> Quad], [kind |-> "long", value |-> length]>>

Heading(fin, op, masked, length) ==
  (<<[kind |-> "header", fin |-> fin, op |-> op]>> \o Lengths(masked, length))
  \o (IF masked THEN <<[kind |-> "mask"]>> ELSE <<>>)

LEMMA LengthsAre ==
  ASSUME NEW masked \in Flag, NEW length \in AnyLength
  PROVE  LET l == Lengths(masked, length)
         IN /\ l \in Seq(Field) /\ Len(l) = IF length \in 0..ShortMax THEN 1 ELSE 2
            /\ l[1] \in Short /\ l[1].masked = masked
            /\ l[1].value > ShortMax <=> length \notin 0..ShortMax
            /\ length \in 0..ShortMax => l[1].value = length
            /\ length \notin 0..ShortMax => l[2] = [kind |-> "long", value |-> length]
<1>1. ShortMax \in Nat /\ Word \in Nat /\ Quad \in Nat /\ Word > ShortMax /\ Quad > ShortMax
  BY WebsocketAssumption DEF Word, Quad
<1>2. length \in Int
  BY DEF AnyLength, Malformed, TooLong
<1>3. [kind |-> "long", value |-> length] \in Field
  BY <1>2 DEF Field, Long
<1> DEFINE short(n) == [kind |-> "short", masked |-> masked, value |-> n]
<1>4. ASSUME NEW n \in Nat PROVE short(n) \in Short /\ short(n) \in Field /\ short(n).masked = masked /\ short(n).value = n
  BY DEF Field, Short
<1> HIDE DEF short
<1>5. CASE length \in 0..ShortMax
  <2>1. Lengths(masked, length) = <<short(length)>> /\ length \in Nat /\ ~(length > ShortMax)
    BY <1>1, <1>5 DEF Lengths, short
  <2>2. QED
    BY <1>1, <1>4, <1>5, <2>1
<1>6. CASE length \notin 0..ShortMax
  <2>1. PICK n \in {Word, Quad} : Lengths(masked, length) = <<short(n), [kind |-> "long", value |-> length]>>
    BY <1>6 DEF Lengths, short
  <2>2. n \in Nat /\ n > ShortMax
    BY <1>1
  <2>3. QED
    BY <1>3, <1>4, <1>6, <2>1, <2>2
<1>7. QED
  BY <1>5, <1>6

\* What c, the code of a frame, is made of.
IsCode(c, fin, op, length, payload) ==
  /\ c \in Seq(Field)
  /\ c[1].fin = fin /\ c[1].op = op
  /\ c[2] \in Short
  /\ HasLong(c) <=> length \notin 0..ShortMax
  /\ Length(c) = length
  /\ PayloadAt(c) \in 3..5 /\ (HasLong(c) => PayloadAt(c) > 3)
  /\ Len(c) = PayloadAt(c) - 1 + Len(payload)
  /\ \A k \in 1..Len(payload) : c[PayloadAt(c) - 1 + k] = payload[k]

LEMMA EncodeIs ==
  ASSUME NEW fin \in Flag, NEW op \in 0..15, NEW masked \in Flag, NEW length \in AnyLength,
         NEW payload \in Seq(Byte), Len(payload) = Following(length)
  PROVE  IsCode(Encode(fin, op, masked, length, payload), fin, op, length, payload)
<1> DEFINE f == Heading(fin, op, masked, length)
           c == Encode(fin, op, masked, length, payload)
<1>1. /\ f \in Seq(Field)
      /\ Len(f) = (IF length \in 0..ShortMax THEN 2 ELSE 3) + (IF masked THEN 1 ELSE 0)
      /\ f[1] = [kind |-> "header", fin |-> fin, op |-> op]
      /\ f[2] \in Short /\ f[2].masked = masked
      /\ f[2].value > ShortMax <=> length \notin 0..ShortMax
      /\ length \in 0..ShortMax => f[2].value = length
      /\ length \notin 0..ShortMax => f[3] = [kind |-> "long", value |-> length]
  <2> DEFINE header == [kind |-> "header", fin |-> fin, op |-> op]
             l == Lengths(masked, length)
             mask == IF masked THEN <<[kind |-> "mask"]>> ELSE <<>>
  <2>1. header \in Field
    BY DEF Field, Header
  <2>2. mask \in Seq(Field) /\ Len(mask) = IF masked THEN 1 ELSE 0
    <3>1. [kind |-> "mask"] \in Field
      BY DEF Field, Mask
    <3>2. QED
      BY <3>1, EmptySeq
  <2>3. /\ l \in Seq(Field) /\ Len(l) = IF length \in 0..ShortMax THEN 1 ELSE 2
        /\ l[1] \in Short /\ l[1].masked = masked
        /\ l[1].value > ShortMax <=> length \notin 0..ShortMax
        /\ length \in 0..ShortMax => l[1].value = length
        /\ length \notin 0..ShortMax => l[2] = [kind |-> "long", value |-> length]
    BY LengthsAre
  <2>4. Heading(fin, op, masked, length) = (<<header>> \o l) \o mask
    BY DEF Heading
  <2> HIDE DEF header, l, mask
  <2>5. <<header>> \in Seq(Field) /\ Len(<<header>>) = 1 /\ <<header>>[1] = header
    BY <2>1
  <2> DEFINE front == <<header>> \o l
  <2>6. front \in Seq(Field) /\ Len(front) = 1 + Len(l) /\ front[1] = header /\ \A i \in 1..Len(l) : front[1 + i] = l[i]
    <3>1. <<header>> \o l \in Seq(Field) /\ Len(<<header>> \o l) = 1 + Len(l)
      BY <2>3, <2>5, ConcatProperties
    <3>2. (<<header>> \o l)[1] = header
      BY <2>3, <2>5
    <3>3. \A i \in 1..Len(l) : (<<header>> \o l)[1 + i] = l[i]
      BY <2>3, <2>5
    <3>4. QED
      BY <3>1, <3>2, <3>3
  <2> HIDE DEF front
  <2>7. front \o mask \in Seq(Field) /\ Len(front \o mask) = Len(front) + Len(mask) /\ \A i \in 1..Len(front) : (front \o mask)[i] = front[i]
    <3>1. front \o mask \in Seq(Field) /\ Len(front \o mask) = Len(front) + Len(mask)
      BY <2>2, <2>6, ConcatProperties
    <3>2. \A i \in 1..Len(front) : (front \o mask)[i] = front[i]
      BY <2>2, <2>6
    <3>3. QED
      BY <3>1, <3>2
  <2>8. Heading(fin, op, masked, length) = front \o mask
    BY <2>4 DEF front
  <2>9. /\ Len(l) \in {1, 2} /\ (front \o mask)[1] = header /\ (front \o mask)[2] = l[1]
        /\ Len(l) = 2 => (front \o mask)[3] = l[2]
    BY <2>3, <2>6, <2>7
  <2>10. Len(front \o mask) = (IF length \in 0..ShortMax THEN 2 ELSE 3) + (IF masked THEN 1 ELSE 0)
    BY <2>2, <2>3, <2>6, <2>7
  <2>11. length \notin 0..ShortMax => Len(l) = 2
    BY <2>3
  <2>12. QED
    BY <2>3, <2>7, <2>8, <2>9, <2>10, <2>11 DEF header
<1>2. c = f \o payload
  BY DEF Encode, Heading, Lengths
<1> HIDE DEF f, c
<1>3. payload \in Seq(Field)
  BY DEF Field
<1>4. /\ c \in Seq(Field) /\ Len(c) = Len(f) + Len(payload)
      /\ \A i \in 1..Len(f) : c[i] = f[i]
      /\ \A i \in 1..Len(payload) : c[Len(f) + i] = payload[i]
  <2>1. f \in Seq(Field)
    BY <1>1
  <2>2. f \o payload \in Seq(Field) /\ Len(f \o payload) = Len(f) + Len(payload)
    BY <1>3, <2>1, ConcatProperties
  <2>3. \A i \in 1..Len(f) : (f \o payload)[i] = f[i]
    BY <1>3, <2>1
  <2>4. \A i \in 1..Len(payload) : (f \o payload)[Len(f) + i] = payload[i]
    BY <1>3, <2>1
  <2>5. QED
    BY <1>2, <2>2, <2>3, <2>4
<1>5. Len(f) \in 2..4 /\ (length \notin 0..ShortMax => Len(f) \in 3..4)
  BY <1>1
<1>6. c[1] = f[1] /\ c[2] = f[2] /\ (length \notin 0..ShortMax => c[3] = f[3])
  BY <1>4, <1>5
<1>7. c[1].fin = fin /\ c[1].op = op
  BY <1>1, <1>6
<1>8. HasLong(c) <=> length \notin 0..ShortMax
  BY <1>1, <1>6 DEF HasLong
<1>9. Length(c) = length
  BY <1>1, <1>6, <1>8 DEF Length
<1>10. PayloadAt(c) = Len(f) + 1
  BY <1>1, <1>6, <1>8 DEF PayloadAt
<1>11. PayloadAt(c) - 1 = Len(f)
  BY <1>5, <1>10
<1>12. QED
  <2>1. IsCode(c, fin, op, length, payload)
    BY <1>1, <1>4, <1>5, <1>6, <1>7, <1>8, <1>9, <1>10, <1>11 DEF IsCode
  <2>2. QED
    BY <2>1 DEF c

-----------------------------------------------------------------------------
(* Where a frame begins and ends in a stream *)

\* A stream that begins with a frame of which nothing is missing is cut behind it.
IsRead(s, frame, rest) == HasFrame(s) /\ FrameOf(s) = frame /\ Behind(s) = rest

LEMMA FrameIsRead ==
  ASSUME NEW fin \in Flag, NEW op \in 0..15, NEW masked \in Flag, NEW length \in Nat,
         NEW payload \in Seq(Byte), Len(payload) = length,
         NEW rest \in Seq(Field), NEW s, s = Encode(fin, op, masked, length, payload) \o rest
  PROVE  IsRead(s, [fin |-> fin, op |-> op, payload |-> payload], rest)
<1> DEFINE c == Encode(fin, op, masked, length, payload)
<1>1. length \in AnyLength /\ Following(length) = length
  BY DEF AnyLength, Following
<1>0. IsCode(c, fin, op, length, payload)
  BY <1>1, EncodeIs
<1> HIDE DEF c
<1>2. /\ c \in Seq(Field)
      /\ c[1].fin = fin /\ c[1].op = op
      /\ c[2] \in Short
      /\ HasLong(c) <=> length \notin 0..ShortMax
      /\ Length(c) = length
      /\ PayloadAt(c) \in 3..5 /\ (HasLong(c) => PayloadAt(c) > 3)
      /\ Len(c) = PayloadAt(c) - 1 + Len(payload)
      /\ \A k \in 1..Len(payload) : c[PayloadAt(c) - 1 + k] = payload[k]
  BY <1>0 DEF IsCode
<1>3. s = c \o rest
  BY DEF c
<1>4. s \in Seq(Field) /\ Len(s) = Len(c) + Len(rest)
  BY ZenonT(40), <1>2, <1>3, ConcatProperties
<1>5. \A i \in 1..Len(c) : s[i] = c[i]
  BY <1>2, <1>3
<1>6. \A i \in 1..Len(rest) : s[Len(c) + i] = rest[i]
  BY <1>2, <1>3
<1>7. Len(c) \in Nat /\ Len(c) >= 2 /\ (HasLong(c) => Len(c) >= 3) /\ Len(rest) \in Nat
  BY <1>2
<1>8. s[1] = c[1] /\ s[2] = c[2] /\ (HasLong(c) => s[3] = c[3])
  <2>1. 1 \in 1..Len(c) /\ 2 \in 1..Len(c) /\ (HasLong(c) => 3 \in 1..Len(c))
    BY <1>7
  <2>2. QED
    BY <1>5, <2>1
<1>9. HasLong(s) <=> HasLong(c)
  BY <1>8 DEF HasLong
<1>10. PayloadAt(s) = PayloadAt(c)
  BY <1>8, <1>9 DEF PayloadAt
<1>11. Length(s) = length
  BY <1>2, <1>8, <1>9 DEF Length
<1> DEFINE at == PayloadAt(c)
<1>12. at \in 3..5 /\ Len(c) = at - 1 + length
  BY <1>2
<1>13. HasFrame(s)
  BY <1>4, <1>7, <1>10, <1>11, <1>12 DEF HasFrame, HasHeader
<1> HIDE DEF at
<1>14. SubSeq(s, at, at - 1 + length) = payload
  <2> DEFINE part == SubSeq(s, at, at - 1 + length)
  <2>1. at \in 1..(Len(s) + 1) /\ length \in 0..(Len(s) + 1 - at)
    BY <1>4, <1>7, <1>12
  <2>2. part \in Seq(Field) /\ Len(part) = length /\ \A i \in 1..length : part[i] = s[at - 1 + i]
    BY <1>4, <2>1, Piece
  <2> HIDE DEF part
  <2>3. ASSUME NEW i \in 1..length PROVE part[i] = payload[i]
    <3>1. c[at - 1 + i] = payload[i]
      BY <1>2 DEF at
    <3>2. at - 1 + i \in 1..Len(c)
      BY <1>12
    <3>3. QED
      BY <1>5, <2>2, <3>1, <3>2
  <2>4. payload \in Seq(Field)
    BY DEF Field
  <2>5. part = payload
    BY <2>2, <2>3, <2>4, SeqEqual
  <2>6. QED
    BY <2>5 DEF part
<1>15. FrameOf(s) = [fin |-> fin, op |-> op, payload |-> payload]
  BY <1>2, <1>8, <1>10, <1>11, <1>14 DEF FrameOf, at
<1>16. SubSeq(s, at + length, Len(s)) = rest
  <2>1. Len(c) + 1 = at + length
    BY <1>12
  <2>2. SubSeq(s, Len(c) + 1, Len(s)) = rest
    BY <1>2, <1>3, SecondPart
  <2>3. QED
    BY <2>1, <2>2
<1>17. Behind(s) = rest
  BY <1>10, <1>11, <1>16 DEF Behind, at
<1>18. QED
  BY <1>13, <1>15, <1>17 DEF IsRead

\* A stream that begins with s and goes on with t has a frame in s, and then the rest.
IsFirst(s, t, frame, rest) ==
  FrameOf(s) = frame /\ Behind(s) \in Seq(Field) /\ Behind(s) \o t = rest

\* What has arrived of a stream and what is still to come: a frame is found in what
\* has arrived only when it is all there, and it is the first.
LEMMA OnlyWholeFrames ==
  ASSUME NEW fin \in Flag, NEW op \in 0..15, NEW masked \in Flag, NEW length \in AnyLength,
         NEW payload \in Seq(Byte), Len(payload) = Following(length),
         NEW rest \in Seq(Field), NEW s \in Seq(Field), NEW t \in Seq(Field),
         Begins(s, t, Encode(fin, op, masked, length, payload), rest), HasFrame(s)
  PROVE  length \in Nat /\ IsFirst(s, t, [fin |-> fin, op |-> op, payload |-> payload], rest)
<1> DEFINE c == Encode(fin, op, masked, length, payload)
<1>0. IsCode(c, fin, op, length, payload)
  BY EncodeIs
<1>2. s \o t = c \o rest
  BY DEF Begins
<1> HIDE DEF c
<1>1. /\ c \in Seq(Field)
      /\ c[1].fin = fin /\ c[1].op = op
      /\ c[2] \in Short
      /\ HasLong(c) <=> length \notin 0..ShortMax
      /\ Length(c) = length
      /\ PayloadAt(c) \in 3..5 /\ (HasLong(c) => PayloadAt(c) > 3)
      /\ Len(c) = PayloadAt(c) - 1 + Len(payload)
      /\ \A k \in 1..Len(payload) : c[PayloadAt(c) - 1 + k] = payload[k]
  BY <1>0 DEF IsCode
<1>3. \A i \in 1..Len(s) : (s \o t)[i] = s[i]
  OBVIOUS
<1>4. \A i \in 1..Len(c) : (c \o rest)[i] = c[i]
  BY <1>1
<1>5. ASSUME NEW i \in 1..Len(s), i \in 1..Len(c) PROVE s[i] = c[i]
  BY <1>2, <1>3, <1>4, <1>5
<1>6. Len(s) \in Nat /\ Len(s) >= 2 /\ Len(s) >= PayloadAt(s) - 1 /\ Length(s) >= 0 /\ Len(s) >= PayloadAt(s) - 1 + Length(s)
  BY DEF HasFrame, HasHeader
<1>7. Len(c) \in Nat /\ Len(c) >= 2 /\ (HasLong(c) => Len(c) >= 3)
  BY <1>1
<1>8. s[1] = c[1] /\ s[2] = c[2]
  BY SMTT(30), <1>5, <1>6, <1>7
<1>9. HasLong(s) <=> HasLong(c)
  BY <1>8 DEF HasLong
<1>10. PayloadAt(s) = PayloadAt(c)
  BY <1>8, <1>9 DEF PayloadAt
<1>11. HasLong(c) => Len(s) >= 3
  BY <1>1, <1>6, <1>10
<1>12. HasLong(c) => s[3] = c[3]
  BY <1>5, <1>6, <1>7, <1>11
<1>13. Length(s) = length
  BY <1>1, <1>8, <1>9, <1>12 DEF Length
<1>14. length \in Nat
  BY <1>6, <1>13 DEF AnyLength, Malformed, TooLong
<1>15. Len(payload) = length /\ Len(c) = PayloadAt(c) - 1 + length /\ Len(s) >= Len(c)
  BY <1>1, <1>6, <1>10, <1>13, <1>14 DEF Following
<1> DEFINE r == SubSeq(s, Len(c) + 1, Len(s))
<1>16. s = c \o r /\ r \in Seq(Field)
  <2>1. Len(c) \in 0..Len(s)
    BY <1>6, <1>7, <1>15
  <2> DEFINE front == SubSeq(s, 1, Len(c))
  <2>2. /\ front \in Seq(Field) /\ Len(front) = Len(c) /\ \A i \in 1..Len(c) : front[i] = s[i]
        /\ r \in Seq(Field) /\ front \o r = s
    BY ZenonT(40), <2>1, CutInTwo
  <2> HIDE DEF front
  <2>3. ASSUME NEW i \in 1..Len(c) PROVE front[i] = c[i]
    <3>1. i \in 1..Len(s)
      BY <2>1
    <3>2. QED
      BY <1>5, <2>2, <3>1
  <2>4. front = c
    BY <1>1, <2>2, <2>3, SeqEqual
  <2>5. QED
    BY <2>2, <2>4
<1> HIDE DEF r
<1>17. FrameOf(s) = [fin |-> fin, op |-> op, payload |-> payload] /\ Behind(s) = r
  <2>1. s = Encode(fin, op, masked, length, payload) \o r
    BY <1>16 DEF c
  <2>2. IsRead(s, [fin |-> fin, op |-> op, payload |-> payload], r)
    BY <1>14, <1>15, <1>16, <2>1, FrameIsRead
  <2>3. QED
    BY <2>2 DEF IsRead
<1>18. r \o t = rest
  <2>1. Begins(c \o r, t, c, rest)
    BY <1>2, <1>16 DEF Begins
  <2>2. c \in Seq(Field) /\ r \in Seq(Field)
    BY <1>1, <1>16
  <2>3. QED
    BY <2>1, <2>2, CutOff, Zenon
<1>19. QED
  BY <1>14, <1>16, <1>17, <1>18 DEF IsFirst

LEMMA NoFrameInNothing ==
  ASSUME NEW s \in Seq(Field), NEW t \in Seq(Field), s \o t = <<>>
  PROVE  ~HasFrame(s)
<1>1. s = <<>>
  BY ConcatEqualIffEmpty
<1>2. Len(s) = 0
  BY <1>1
<1>3. QED
  BY <1>2 DEF HasFrame, HasHeader


-----------------------------------------------------------------------------
(* The stream of the peer *)

\* The code of the i-th of the frames s, and of those behind the c-th.
CodeOf(s, i) == Encode(s[i].fin, s[i].op, s[i].masked, s[i].size, Bytes(i, s[i].size, s[i].masked))
CodesOf(s, c) == [i \in 1..(Len(s) - c) |-> CodeOf(s, c + i)]

\* What has arrived and what has not are the frames that have not been read.
Carry(r, w, s, c) == r \o w = FlattenSeq(CodesOf(s, c))

LEMMA CodeIs ==
  ASSUME NEW s \in Seq(PeerFrames), NEW i \in 1..Len(s)
  PROVE  /\ s[i] \in PeerFrames
         /\ s[i].fin \in Flag /\ s[i].op \in 0..15 /\ s[i].masked \in Flag /\ s[i].size \in AnyLength
         /\ Bytes(i, s[i].size, s[i].masked) \in Seq(Byte) /\ Len(Bytes(i, s[i].size, s[i].masked)) = Following(s[i].size)
         /\ CodeOf(s, i) \in Seq(Field)
<1>1. s[i] \in PeerFrames
  OBVIOUS
<1>2. s[i] \in [fin : BOOLEAN, op : 0..15, masked : BOOLEAN, size : Nat \cup {Malformed, TooLong}]
  BY <1>1, WebsocketAssumption
<1>3. s[i].fin \in Flag /\ s[i].op \in 0..15 /\ s[i].masked \in Flag /\ s[i].size \in AnyLength
  BY <1>2 DEF Flag, AnyLength
<1>4. Bytes(i, s[i].size, s[i].masked) \in Seq(Byte) /\ Len(Bytes(i, s[i].size, s[i].masked)) = Following(s[i].size)
  BY <1>3, BytesAre
<1>5. IsCode(CodeOf(s, i), s[i].fin, s[i].op, s[i].size, Bytes(i, s[i].size, s[i].masked))
  BY <1>3, <1>4, EncodeIs DEF CodeOf
<1>6. QED
  BY <1>1, <1>3, <1>4, <1>5 DEF IsCode

LEMMA CodesAre ==
  ASSUME NEW s \in Seq(PeerFrames), NEW c \in 0..Len(s)
  PROVE  /\ CodesOf(s, c) \in Seq(Seq(Field)) /\ Len(CodesOf(s, c)) = Len(s) - c
         /\ \A i \in 1..(Len(s) - c) : CodesOf(s, c)[i] = CodeOf(s, c + i)
<1>1. Len(s) - c \in Nat
  OBVIOUS
<1>2. ASSUME NEW i \in 1..(Len(s) - c) PROVE CodeOf(s, c + i) \in Seq(Field)
  BY CodeIs
<1>3. QED
  BY <1>1, <1>2 DEF CodesOf

\* The peer sends a frame.
LEMMA CodesGrow ==
  ASSUME NEW s \in Seq(PeerFrames), NEW c \in 0..Len(s), NEW frame \in PeerFrames
  PROVE  CodesOf(Append(s, frame), c) =
           Append(CodesOf(s, c), Encode(frame.fin, frame.op, frame.masked, frame.size,
                                        Bytes(Len(s) + 1, frame.size, frame.masked)))
<1> DEFINE more == Append(s, frame)
           n == Len(s) - c
           e == Encode(frame.fin, frame.op, frame.masked, frame.size, Bytes(Len(s) + 1, frame.size, frame.masked))
<1>1. more \in Seq(PeerFrames) /\ Len(more) = Len(s) + 1 /\ more[Len(s) + 1] = frame /\ \A i \in 1..Len(s) : more[i] = s[i]
  OBVIOUS
<1> HIDE DEF more
<1>2. n \in Nat /\ c \in 0..Len(more) /\ Len(more) - c = n + 1 /\ c + (n + 1) = Len(s) + 1
  BY <1>1
<1>3. /\ CodesOf(more, c) \in Seq(Seq(Field)) /\ Len(CodesOf(more, c)) = n + 1
      /\ \A i \in 1..(n + 1) : CodesOf(more, c)[i] = CodeOf(more, c + i)
  BY <1>1, <1>2, CodesAre
<1>4. /\ CodesOf(s, c) \in Seq(Seq(Field)) /\ Len(CodesOf(s, c)) = n
      /\ \A i \in 1..n : CodesOf(s, c)[i] = CodeOf(s, c + i)
  BY CodesAre
<1>5. CodeOf(more, c + (n + 1)) = e
  BY <1>1, <1>2 DEF CodeOf
<1>6. e \in Seq(Field)
  <2>1. Len(s) + 1 \in 1..Len(more)
    BY <1>1
  <2>2. CodeOf(more, Len(s) + 1) \in Seq(Field)
    BY <1>1, <2>1, CodeIs
  <2>3. QED
    BY <1>2, <1>5, <2>2
<1> HIDE DEF e
<1> DEFINE a == CodesOf(s, c)
           b == CodesOf(more, c)
<1> HIDE DEF n
<1>7. ASSUME NEW i \in 1..n PROVE b[i] = a[i]
  <2>1. c + i \in 1..Len(s)
    BY DEF n
  <2>2. CodeOf(more, c + i) = CodeOf(s, c + i)
    BY <1>1, <2>1 DEF CodeOf
  <2>3. i \in 1..(n + 1)
    BY <1>2
  <2>4. QED
    BY <1>3, <1>4, <2>2, <2>3
<1>8. b[n + 1] = e
  <2>1. n + 1 \in 1..(n + 1)
    BY <1>2
  <2>2. QED
    BY <1>3, <1>5, <2>1
<1>9. a \in Seq(Seq(Field)) /\ b \in Seq(Seq(Field)) /\ Len(a) = n /\ Len(b) = n + 1
  BY <1>3, <1>4
<1> HIDE DEF a, b
<1>10. b = Append(a, e)
  BY <1>2, <1>6, <1>7, <1>8, <1>9
<1>11. QED
  BY <1>10 DEF a, b, e, more

\* A frame is read.
LEMMA CodesShrink ==
  ASSUME NEW s \in Seq(PeerFrames), NEW c \in 0..Len(s), c # Len(s)
  PROVE  CodesOf(s, c)[1] = CodeOf(s, c + 1) /\ Tail(CodesOf(s, c)) = CodesOf(s, c + 1)
<1> DEFINE a == CodesOf(s, c)
           b == CodesOf(s, c + 1)
           n == Len(s) - c
<1>1. n \in Nat /\ n > 0 /\ c + 1 \in 0..Len(s) /\ Len(s) - (c + 1) = n - 1
  OBVIOUS
<1>2. a \in Seq(Seq(Field)) /\ Len(a) = n /\ \A i \in 1..n : a[i] = CodeOf(s, c + i)
  BY CodesAre
<1>3. b \in Seq(Seq(Field)) /\ Len(b) = n - 1 /\ \A i \in 1..(n - 1) : b[i] = CodeOf(s, (c + 1) + i)
  BY <1>1, CodesAre
<1> HIDE DEF a, b, n
<1>4. a # <<>>
  <2>1. Len(<<>>) # Len(a)
    BY <1>1, <1>2
  <2>2. QED
    BY <2>1, Zenon
<1>5. /\ Tail(a) \in Seq(Seq(Field)) /\ Len(Tail(a)) = Len(a) - 1
      /\ \A i \in 1..Len(Tail(a)) : Tail(a)[i] = a[i + 1]
  BY <1>2, <1>4, HeadTailProperties
<1>6. ASSUME NEW i \in 1..Len(b) PROVE Tail(a)[i] = b[i]
  <2>1. i \in 1..Len(Tail(a)) /\ i + 1 \in 1..n /\ i \in 1..(n - 1)
    BY <1>1, <1>2, <1>3, <1>5
  <2>4. c + (i + 1) = (c + 1) + i
    OBVIOUS
  <2>2. a[i + 1] = CodeOf(s, c + (i + 1)) /\ b[i] = CodeOf(s, (c + 1) + i)
    BY <1>2, <1>3, <2>1
  <2>3. QED
    BY <1>5, <2>1, <2>2, <2>4
<1>7. Tail(a) = b
  BY <1>1, <1>2, <1>3, <1>5, <1>6, SeqEqual
<1>8. a[1] = CodeOf(s, c + 1)
  <2>1. 1 \in 1..n
    BY <1>1
  <2>2. QED
    BY <1>2, <2>1
<1>9. QED
  BY <1>7, <1>8 DEF a, b

\* A frame that is found in what has arrived is the next the peer has sent, and what
\* is behind it are the others.
LEMMA FrameIsNext ==
  ASSUME NEW s \in Seq(PeerFrames), NEW c \in 0..Len(s),
         NEW r \in Seq(Field), NEW w \in Seq(Field), Carry(r, w, s, c), HasFrame(r)
  PROVE  /\ c + 1 \in 1..Len(s) /\ s[c + 1].size \in Nat
         /\ FrameOf(r) = [fin |-> s[c + 1].fin, op |-> s[c + 1].op, payload |-> Bytes(c + 1, s[c + 1].size, s[c + 1].masked)]
         /\ Behind(r) \in Seq(Field) /\ Carry(Behind(r), w, s, c + 1)
<1>1. r \o w = FlattenSeq(CodesOf(s, c))
  BY DEF Carry
<1>2. c # Len(s)
  <2>1. SUFFICES ASSUME c = Len(s) PROVE FALSE
    OBVIOUS
  <2>2. CodesOf(s, c) \in Seq(Seq(Field)) /\ Len(CodesOf(s, c)) = 0
    BY <2>1, CodesAre
  <2>3. r \o w = <<>>
    BY <1>1, <2>2, FlattenEmpty
  <2>4. QED
    BY <2>3, NoFrameInNothing
<1>3. c + 1 \in 1..Len(s) /\ c + 1 \in 0..Len(s)
  BY <1>2
<1> DEFINE rest == FlattenSeq(CodesOf(s, c + 1))
           i == c + 1
<1>4. rest \in Seq(Field)
  BY <1>3, CodesAre, FlattenType
<1>5. FlattenSeq(CodesOf(s, c)) = CodeOf(s, i) \o rest
  <2>1. CodesOf(s, c) \in Seq(Seq(Field)) /\ Len(CodesOf(s, c)) # 0
    BY <1>2, CodesAre
  <2>2. FlattenSeq(CodesOf(s, c)) = CodesOf(s, c)[1] \o FlattenSeq(Tail(CodesOf(s, c)))
    BY <2>1, FlattenCons
  <2>3. CodesOf(s, c)[1] = CodeOf(s, i) /\ Tail(CodesOf(s, c)) = CodesOf(s, c + 1)
    BY <1>2, CodesShrink
  <2>4. QED
    BY <2>2, <2>3, Zenon
<1>6. Begins(r, w, CodeOf(s, i), rest)
  BY <1>1, <1>5, Zenon DEF Begins
<1> HIDE DEF rest
<1>7. i \in 1..Len(s)
  BY <1>3
<1> HIDE DEF i
<1>8. /\ s[i].fin \in Flag /\ s[i].op \in 0..15 /\ s[i].masked \in Flag /\ s[i].size \in AnyLength
      /\ Bytes(i, s[i].size, s[i].masked) \in Seq(Byte) /\ Len(Bytes(i, s[i].size, s[i].masked)) = Following(s[i].size)
  BY <1>7, CodeIs
<1>9. Begins(r, w, Encode(s[i].fin, s[i].op, s[i].masked, s[i].size, Bytes(i, s[i].size, s[i].masked)), rest)
  BY <1>6 DEF CodeOf
<1>10. /\ s[i].size \in Nat
       /\ IsFirst(r, w, [fin |-> s[i].fin, op |-> s[i].op, payload |-> Bytes(i, s[i].size, s[i].masked)], rest)
  BY <1>4, <1>8, <1>9, OnlyWholeFrames, Zenon
<1>11. Carry(Behind(r), w, s, i)
  BY <1>10, Zenon DEF Carry, IsFirst, rest, i
<1>12. QED
  BY <1>7, <1>10, <1>11 DEF i, IsFirst

\* The peer sends a frame.
LEMMA CarryOneMore ==
  ASSUME NEW s \in Seq(PeerFrames), NEW c \in 0..Len(s), NEW r \in Seq(Field), NEW w \in Seq(Field),
         Carry(r, w, s, c), NEW frame \in PeerFrames
  PROVE  LET code == Encode(frame.fin, frame.op, frame.masked, frame.size, Bytes(Len(s) + 1, frame.size, frame.masked))
         IN w \o code \in Seq(Field) /\ Carry(r, w \o code, Append(s, frame), c)
<1> DEFINE code == Encode(frame.fin, frame.op, frame.masked, frame.size, Bytes(Len(s) + 1, frame.size, frame.masked))
           a == CodesOf(s, c)
<1>1. a \in Seq(Seq(Field))
  BY CodesAre
<1>2. CodesOf(Append(s, frame), c) = Append(a, code)
  BY CodesGrow
<1>3. code \in Seq(Field)
  <2>1. Append(s, frame) \in Seq(PeerFrames) /\ Len(s) + 1 \in 1..Len(Append(s, frame)) /\ Append(s, frame)[Len(s) + 1] = frame
    OBVIOUS
  <2>2. CodeOf(Append(s, frame), Len(s) + 1) \in Seq(Field)
    BY <2>1, CodeIs
  <2>3. QED
    BY <2>1, <2>2 DEF CodeOf
<1>4. r \o w = FlattenSeq(a)
  BY DEF Carry
<1> HIDE DEF code, a
<1>5. FlattenSeq(Append(a, code)) = FlattenSeq(a) \o code
  BY <1>1, <1>3, FlattenAppend
<1>6. Regroups(r, w, code)
  BY <1>3, Regrouped
<1>7. r \o (w \o code) = FlattenSeq(CodesOf(Append(s, frame), c))
  BY <1>2, <1>4, <1>5, <1>6, Zenon DEF Regroups
<1>8. w \o code \in Seq(Field)
  BY <1>3, ConcatProperties
<1>9. QED
  BY <1>7, <1>8 DEF Carry, code

\* Some of it arrives.
LEMMA CarryArrives ==
  ASSUME NEW s \in Seq(PeerFrames), NEW c \in 0..Len(s), NEW r \in Seq(Field), NEW w \in Seq(Field),
         Carry(r, w, s, c), NEW n \in 1..Len(w)
  PROVE  /\ r \o SubSeq(w, 1, n) \in Seq(Field) /\ SubSeq(w, n + 1, Len(w)) \in Seq(Field)
         /\ Carry(r \o SubSeq(w, 1, n), SubSeq(w, n + 1, Len(w)), s, c)
<1>1. n \in 0..Len(w)
  OBVIOUS
<1>2. PICK a, b : a = SubSeq(w, 1, n) /\ b = SubSeq(w, n + 1, Len(w))
  OBVIOUS
<1>3. a \in Seq(Field) /\ b \in Seq(Field)
  BY <1>1, <1>2, CutInTwo
<1>8. a \o b = w
  BY <1>1, <1>2, CutInTwo
<1>4. Regroups(r, a, b)
  BY <1>3, Regrouped, Zenon
<1>5. r \o a \in Seq(Field)
  BY <1>3, ConcatProperties
<1>6. Carry(r \o a, b, s, c)
  <2>1. r \o w = FlattenSeq(CodesOf(s, c))
    BY DEF Carry
  <2>2. QED
    BY <1>8, <1>4, <2>1, Zenon DEF Carry, Regroups
<1>7. QED
  BY <1>2, <1>3, <1>5, <1>6

-----------------------------------------------------------------------------
(* Things that are handled in the order they came *)

\* The K of out show the S of what, once and in order.
Shows(out, K, what, S) ==
  \E from \in [K -> S] :
    /\ Enumerates(from, S)
    /\ \A k \in K : out[k] = what[from[k]]

LEMMA NothingToShow ==
  ASSUME NEW out, NEW what
  PROVE  Shows(out, {}, what, {})
<1> DEFINE from == [k \in {} |-> k]
<1>1. from \in [{} -> {}] /\ Enumerates(from, {})
  BY DEF Enumerates
<1>2. QED
  BY <1>1 DEF Shows

LEMMA ShowsTheSame ==
  ASSUME NEW K, NEW S, NEW out, NEW what, Shows(out, K, what, S),
         NEW newOut, \A k \in K : newOut[k] = out[k],
         NEW newWhat, \A i \in S : newWhat[i] = what[i]
  PROVE  Shows(newOut, K, newWhat, S)
<1>1. PICK from \in [K -> S] : Enumerates(from, S) /\ \A k \in K : out[k] = what[from[k]]
  BY DEF Shows
<1>2. \A k \in K : newOut[k] = newWhat[from[k]]
  BY <1>1
<1>3. QED
  BY <1>1, <1>2 DEF Shows

LEMMA ShowsOneMore ==
  ASSUME NEW K, K \subseteq Nat, NEW S, S \subseteq Nat, NEW out, NEW what, Shows(out, K, what, S),
         NEW newOut, \A k \in K : newOut[k] = out[k],
         NEW newWhat, \A i \in S : newWhat[i] = what[i],
         NEW l \in Nat, \A k \in K : k < l,
         NEW m \in Nat, \A i \in S : i < m,
         newOut[l] = newWhat[m]
  PROVE  Shows(newOut, K \cup {l}, newWhat, S \cup {m})
<1>1. PICK from \in [K -> S] : Enumerates(from, S) /\ \A k \in K : out[k] = what[from[k]]
  BY DEF Shows
<1> DEFINE to == [k \in K \cup {l} |-> IF k = l THEN m ELSE from[k]]
<1>2. l \notin K /\ \A k \in K : k # l /\ from[k] \in S
  BY <1>1
<1>3. to[l] = m /\ \A k \in K : to[k] = from[k]
  BY <1>2
<1>4. to \in [K \cup {l} -> S \cup {m}]
  BY <1>2
<1> HIDE DEF to
<1>5. Enumerates(to, S \cup {m})
  <2>1. DOMAIN to = K \cup {l} /\ DOMAIN from = K
    BY <1>4
  <2>2. {from[k] : k \in K} = S
    BY <1>1, <2>1 DEF Enumerates
  <2>3. {to[k] : k \in K \cup {l}} = S \cup {m}
    BY <1>3, <2>2
  <2>4. ASSUME NEW j \in K \cup {l}, NEW k \in K \cup {l}, j < k PROVE to[j] < to[k]
    <3>1. CASE j \in K /\ k \in K
      BY <1>1, <1>3, <2>1, <2>4, <3>1 DEF Enumerates
    <3>2. CASE j \in K /\ k = l
      BY <1>2, <1>3, <3>2
    <3>3. CASE j = l
      <4>1. k \notin K /\ k # l
        BY <2>4, <3>3
      <4>2. QED
        BY <4>1
    <3>4. QED
      BY <3>1, <3>2, <3>3
  <2>5. QED
    BY <2>1, <2>3, <2>4 DEF Enumerates
<1>6. \A k \in K \cup {l} : newOut[k] = newWhat[to[k]]
  <2>1. ASSUME NEW k \in K PROVE newOut[k] = newWhat[to[k]]
    <3>1. newOut[k] = what[from[k]]
      BY <1>1
    <3>2. what[from[k]] = newWhat[from[k]]
      BY <1>2
    <3>3. QED
      BY <1>3, <3>1, <3>2
  <2>2. newOut[l] = newWhat[to[l]]
    BY <1>3
  <2>3. QED
    BY <2>1, <2>2
<1>7. QED
  BY <1>4, <1>5, <1>6 DEF Shows

-----------------------------------------------------------------------------
(* What is handled, and what it is handled as *)

Message == [op : 0..15, payload : Seq(Byte)]

\* What the frames s are when they are delivered, answered, and kept.
Received(s) == [i \in 1..Len(s) |-> [op |-> s[i].op, payload |-> Bytes(i, s[i].size, s[i].masked)]]
Answered(s) == [i \in 1..Len(s) |-> [op |-> Answer(s[i].op), payload |-> Bytes(i, s[i].size, s[i].masked)]]
Kept(s) == [i \in 1..Len(s) |-> Bytes(i, s[i].size, s[i].masked)]

\* Which of the first c frames are messages, and which are of the open message.
Whole(s, c, ops) == {i \in 1..c : s[i].fin /\ s[i].op \in ops /\ s[i].size > 0}
EndsAt(s, i) == s[i].fin /\ s[i].op = Opcode.Continuation
Open(s, c) == {i \in 1..c : ~s[i].fin /\ \A j \in i..c : ~EndsAt(s, j)}

\* Which of the messages are not empty, and which of those are answers.
Filled(d) == {k \in DOMAIN d : d[k].payload # <<>>}
Replies(a) == {k \in DOMAIN a : a[k].op # Opcode.Text /\ a[k].payload # <<>>}

Texts == {Opcode.Text, Opcode.Binary}
Requests == {Opcode.Ping, Opcode.Close}

LEMMA WholeGrows ==
  ASSUME NEW s \in Seq(PeerFrames), NEW c \in Nat, c + 1 \in 1..Len(s), NEW ops
  PROVE  /\ s[c + 1].fin /\ s[c + 1].op \in ops /\ s[c + 1].size > 0
              => Whole(s, c + 1, ops) = Whole(s, c, ops) \cup {c + 1}
         /\ ~(s[c + 1].fin /\ s[c + 1].op \in ops /\ s[c + 1].size > 0)
              => Whole(s, c + 1, ops) = Whole(s, c, ops)
         /\ Whole(s, c, ops) \subseteq 1..c
<1>1. 1..(c + 1) = (1..c) \cup {c + 1}
  OBVIOUS
<1>2. Whole(s, c, ops) \subseteq 1..c
  BY DEF Whole
<1>3. \A i : i \in Whole(s, c + 1, ops) <=>
        (i \in Whole(s, c, ops) \/ (i = c + 1 /\ s[i].fin /\ s[i].op \in ops /\ s[i].size > 0))
  BY <1>1, Zenon DEF Whole
<1>4. QED
  BY <1>2, <1>3, Zenon

LEMMA WholeOfMore ==
  ASSUME NEW s \in Seq(PeerFrames), NEW c \in 0..Len(s), NEW ops, NEW frame
  PROVE  Whole(Append(s, frame), c, ops) = Whole(s, c, ops)
<1>1. ASSUME NEW i \in 1..c PROVE Append(s, frame)[i] = s[i]
  OBVIOUS
<1>2. QED
  BY <1>1, Zenon DEF Whole

LEMMA OpenGrows ==
  ASSUME NEW s \in Seq(PeerFrames), NEW c \in Nat, c + 1 \in 1..Len(s)
  PROVE  /\ EndsAt(s, c + 1) => Open(s, c + 1) = {}
         /\ s[c + 1].fin /\ ~EndsAt(s, c + 1) => Open(s, c + 1) = Open(s, c)
         /\ ~s[c + 1].fin => Open(s, c + 1) = Open(s, c) \cup {c + 1}
         /\ Open(s, c) \subseteq 1..c
<1>1. 1..(c + 1) = (1..c) \cup {c + 1} /\ (c + 1)..(c + 1) = {c + 1}
  OBVIOUS
<1>2. Open(s, c) \subseteq 1..c
  BY DEF Open
<1>3. ASSUME NEW i \in 1..c PROVE i..(c + 1) = (i..c) \cup {c + 1}
  OBVIOUS
<1>4. ASSUME EndsAt(s, c + 1) PROVE Open(s, c + 1) = {}
  <2>1. ASSUME NEW i \in 1..(c + 1) PROVE c + 1 \in i..(c + 1)
    OBVIOUS
  <2>2. QED
    BY <1>4, <2>1, Zenon DEF Open
<1>5. ASSUME ~EndsAt(s, c + 1), NEW i \in 1..c
      PROVE  (\A j \in i..(c + 1) : ~EndsAt(s, j)) <=> (\A j \in i..c : ~EndsAt(s, j))
  BY <1>3, <1>5, Zenon
<1>6. ~s[c + 1].fin => ~EndsAt(s, c + 1)
  BY DEF EndsAt
<1>7. ASSUME ~EndsAt(s, c + 1)
      PROVE  \A i : i \in Open(s, c + 1) <=> (i \in Open(s, c) \/ (i = c + 1 /\ ~s[i].fin))
  <2>1. ASSUME NEW i \in 1..c PROVE i \in Open(s, c + 1) <=> i \in Open(s, c)
    BY <1>1, <1>5, <1>7, <2>1, Zenon DEF Open
  <2>2. c + 1 \in Open(s, c + 1) <=> ~s[c + 1].fin
    BY <1>1, <1>7, Zenon DEF Open
  <2>3. \A i : i \in Open(s, c + 1) => i \in 1..c \/ i = c + 1
    BY <1>1, Zenon DEF Open
  <2>4. c + 1 \notin 1..c
    OBVIOUS
  <2>5. QED
    BY <1>2, <2>1, <2>2, <2>3, <2>4, Zenon
<1>8. QED
  BY <1>2, <1>4, <1>6, <1>7, Zenon

LEMMA OpenOfMore ==
  ASSUME NEW s \in Seq(PeerFrames), NEW c \in 0..Len(s), NEW frame
  PROVE  Open(Append(s, frame), c) = Open(s, c)
<1>1. ASSUME NEW i \in 1..c PROVE Append(s, frame)[i] = s[i] /\ \A j \in i..c : Append(s, frame)[j] = s[j]
  OBVIOUS
<1>2. QED
  BY <1>1, Zenon DEF Open, EndsAt

LEMMA FilledGrows ==
  ASSUME NEW d \in Seq(Message), NEW m \in Message
  PROVE  /\ m.payload # <<>> => Filled(Append(d, m)) = Filled(d) \cup {Len(d) + 1}
         /\ m.payload = <<>> => Filled(Append(d, m)) = Filled(d)
         /\ Filled(d) \subseteq 1..Len(d)
<1> DEFINE e == Append(d, m)
<1>1. DOMAIN d = 1..Len(d) /\ DOMAIN e = 1..(Len(d) + 1) /\ e[Len(d) + 1] = m /\ \A i \in 1..Len(d) : e[i] = d[i]
  OBVIOUS
<1>2. 1..(Len(d) + 1) = (1..Len(d)) \cup {Len(d) + 1}
  OBVIOUS
<1> HIDE DEF e
<1>3. \A k : k \in Filled(e) <=> (k \in Filled(d) \/ (k = Len(d) + 1 /\ m.payload # <<>>))
  <2>1. ASSUME NEW k \in 1..Len(d) PROVE k \in Filled(e) <=> k \in Filled(d)
    BY <1>1, <1>2, <2>1, Zenon DEF Filled
  <2>2. Len(d) + 1 \in Filled(e) <=> m.payload # <<>>
    BY <1>1, <1>2, Zenon DEF Filled
  <2>3. \A k : (k \in Filled(e) => k \in 1..Len(d) \/ k = Len(d) + 1) /\ (k \in Filled(d) => k \in 1..Len(d))
    BY <1>1, <1>2, Zenon DEF Filled
  <2>4. Len(d) + 1 \notin 1..Len(d)
    OBVIOUS
  <2>5. QED
    BY <2>1, <2>2, <2>3, <2>4, Zenon
<1>4. Filled(d) \subseteq 1..Len(d)
  BY <1>1 DEF Filled
<1>5. QED
  BY <1>3, <1>4, Zenon DEF e

LEMMA RepliesGrow ==
  ASSUME NEW a \in Seq(Message), NEW m \in Message
  PROVE  /\ m.op # Opcode.Text /\ m.payload # <<>> => Replies(Append(a, m)) = Replies(a) \cup {Len(a) + 1}
         /\ m.op = Opcode.Text \/ m.payload = <<>> => Replies(Append(a, m)) = Replies(a)
         /\ Replies(a) \subseteq 1..Len(a)
<1> DEFINE e == Append(a, m)
<1>1. DOMAIN a = 1..Len(a) /\ DOMAIN e = 1..(Len(a) + 1) /\ e[Len(a) + 1] = m /\ \A i \in 1..Len(a) : e[i] = a[i]
  OBVIOUS
<1>2. 1..(Len(a) + 1) = (1..Len(a)) \cup {Len(a) + 1}
  OBVIOUS
<1> HIDE DEF e
<1>3. \A k : k \in Replies(e) <=> (k \in Replies(a) \/ (k = Len(a) + 1 /\ m.op # Opcode.Text /\ m.payload # <<>>))
  <2>1. ASSUME NEW k \in 1..Len(a) PROVE k \in Replies(e) <=> k \in Replies(a)
    BY <1>1, <1>2, <2>1, Zenon DEF Replies
  <2>2. Len(a) + 1 \in Replies(e) <=> m.op # Opcode.Text /\ m.payload # <<>>
    BY <1>1, <1>2, Zenon DEF Replies
  <2>3. \A k : (k \in Replies(e) => k \in 1..Len(a) \/ k = Len(a) + 1) /\ (k \in Replies(a) => k \in 1..Len(a))
    BY <1>1, <1>2, Zenon DEF Replies
  <2>4. Len(a) + 1 \notin 1..Len(a)
    OBVIOUS
  <2>5. QED
    BY <2>1, <2>2, <2>3, <2>4, Zenon
<1>4. Replies(a) \subseteq 1..Len(a)
  BY <1>1 DEF Replies
<1>5. QED
  BY <1>3, <1>4, Zenon DEF e

-----------------------------------------------------------------------------
(* How the three records grow *)

Deliveries(s, c, d) == Shows(d, Filled(d), Received(s), Whole(s, c, Texts))
Answering(s, c, a) == Shows(a, Replies(a), Answered(s), Whole(s, c, Requests))
Keeping(s, c, f) == Shows(f, DOMAIN f, Kept(s), Open(s, c))

\* A message is delivered.
LEMMA OneDelivered ==
  ASSUME NEW s \in Seq(PeerFrames), NEW c \in Nat, c + 1 \in 1..Len(s), NEW d \in Seq(Message),
         Deliveries(s, c, d), s[c + 1].fin, s[c + 1].op \in Texts, s[c + 1].size \in Nat,
         [op |-> s[c + 1].op, payload |-> Bytes(c + 1, s[c + 1].size, s[c + 1].masked)] \in Message
  PROVE  Deliveries(s, c + 1, Append(d, [op |-> s[c + 1].op, payload |-> Bytes(c + 1, s[c + 1].size, s[c + 1].masked)]))
<1> DEFINE m == [op |-> s[c + 1].op, payload |-> Bytes(c + 1, s[c + 1].size, s[c + 1].masked)]
           e == Append(d, m)
<1>1. m \in Message /\ m.payload = Bytes(c + 1, s[c + 1].size, s[c + 1].masked)
  OBVIOUS
<1>2. m.payload # <<>> <=> s[c + 1].size > 0
  <2>1. s[c + 1].size \in AnyLength /\ c + 1 \in Nat
    BY DEF AnyLength
  <2>2. s[c + 1].masked \in Flag
    BY CodeIs
  <2>3. QED
    BY <1>1, <2>1, <2>2, BytesAre
<1>3. Received(s)[c + 1] = m
  BY DEF Received
<1> HIDE DEF m
<1>4. Len(d) + 1 \in Nat /\ e[Len(d) + 1] = m /\ \A k \in 1..Len(d) : e[k] = d[k]
  BY <1>1
<1> HIDE DEF e
<1>5. Filled(d) \subseteq 1..Len(d) /\ Whole(s, c, Texts) \subseteq 1..c
  BY FilledGrows, WholeGrows, <1>1
<1>6. CASE s[c + 1].size > 0
  <2>1. Filled(e) = Filled(d) \cup {Len(d) + 1}
    BY <1>1, <1>2, <1>6, FilledGrows DEF e
  <2>2. Whole(s, c + 1, Texts) = Whole(s, c, Texts) \cup {c + 1}
    BY <1>6, WholeGrows
  <2>3. Filled(d) \subseteq Nat /\ \A k \in Filled(d) : k < Len(d) + 1
    BY <1>5
  <2>4. Whole(s, c, Texts) \subseteq Nat /\ \A i \in Whole(s, c, Texts) : i < c + 1
    BY <1>5
  <2>5. \A k \in Filled(d) : e[k] = d[k]
    BY <1>4, <1>5
  <2>6. Shows(d, Filled(d), Received(s), Whole(s, c, Texts))
    BY DEF Deliveries
  <2>7. c + 1 \in Nat
    OBVIOUS
  <2>8. e[Len(d) + 1] = Received(s)[c + 1]
    BY <1>3, <1>4
  <2>9. Shows(e, Filled(d) \cup {Len(d) + 1}, Received(s), Whole(s, c, Texts) \cup {c + 1})
    BY <1>4, <2>3, <2>4, <2>5, <2>6, <2>7, <2>8, ShowsOneMore
  <2>10. QED
    BY <2>1, <2>2, <2>9 DEF Deliveries, e, m
<1>7. CASE ~(s[c + 1].size > 0)
  <2>1. Filled(e) = Filled(d)
    BY <1>1, <1>2, <1>7, FilledGrows DEF e
  <2>2. Whole(s, c + 1, Texts) = Whole(s, c, Texts)
    BY <1>7, WholeGrows
  <2>3. \A k \in Filled(d) : e[k] = d[k]
    BY <1>4, <1>5
  <2>4. Shows(e, Filled(d), Received(s), Whole(s, c, Texts))
    BY <2>3, ShowsTheSame DEF Deliveries
  <2>5. QED
    BY <2>1, <2>2, <2>4 DEF Deliveries, e, m
<1>8. QED
  BY <1>6, <1>7

\* A frame that is no text is handled, and what is put together is empty.
LEMMA NoneDelivered ==
  ASSUME NEW s \in Seq(PeerFrames), NEW c \in Nat, c + 1 \in 1..Len(s), NEW d \in Seq(Message),
         Deliveries(s, c, d), ~(s[c + 1].fin /\ s[c + 1].op \in Texts)
  PROVE  /\ Deliveries(s, c + 1, d)
         /\ \A m \in Message : m.payload = <<>> => Deliveries(s, c + 1, Append(d, m))
<1>1. Whole(s, c + 1, Texts) = Whole(s, c, Texts)
  BY WholeGrows
<1>2. Deliveries(s, c + 1, d)
  BY <1>1 DEF Deliveries
<1>3. ASSUME NEW m \in Message, m.payload = <<>> PROVE Deliveries(s, c + 1, Append(d, m))
  <2>1. Filled(Append(d, m)) = Filled(d) /\ Filled(d) \subseteq 1..Len(d)
    BY <1>3, FilledGrows
  <2>2. \A k \in Filled(d) : Append(d, m)[k] = d[k]
    BY <2>1
  <2>3. Shows(Append(d, m), Filled(d), Received(s), Whole(s, c, Texts))
    BY <2>2, ShowsTheSame DEF Deliveries
  <2>4. QED
    BY <1>1, <2>1, <2>3 DEF Deliveries
<1>4. QED
  BY <1>2, <1>3

\* A request is answered.
LEMMA OneAnswered ==
  ASSUME NEW s \in Seq(PeerFrames), NEW c \in Nat, c + 1 \in 1..Len(s), NEW a \in Seq(Message),
         Answering(s, c, a), s[c + 1].fin, s[c + 1].op \in Requests, s[c + 1].size \in Nat,
         [op |-> Answer(s[c + 1].op), payload |-> Bytes(c + 1, s[c + 1].size, s[c + 1].masked)] \in Message
  PROVE  Answering(s, c + 1, Append(a, [op |-> Answer(s[c + 1].op), payload |-> Bytes(c + 1, s[c + 1].size, s[c + 1].masked)]))
<1> DEFINE m == [op |-> Answer(s[c + 1].op), payload |-> Bytes(c + 1, s[c + 1].size, s[c + 1].masked)]
           e == Append(a, m)
<1>1. m \in Message /\ m.payload = Bytes(c + 1, s[c + 1].size, s[c + 1].masked)
  OBVIOUS
<1>2. m.payload # <<>> <=> s[c + 1].size > 0
  <2>1. s[c + 1].size \in AnyLength /\ c + 1 \in Nat
    BY DEF AnyLength
  <2>2. s[c + 1].masked \in Flag
    BY CodeIs
  <2>3. QED
    BY <1>1, <2>1, <2>2, BytesAre
<1>3. Answered(s)[c + 1] = m
  BY DEF Answered
<1>9. m.op # Opcode.Text
  BY DEF Answer, Opcode
<1> HIDE DEF m
<1>4. Len(a) + 1 \in Nat /\ e[Len(a) + 1] = m /\ \A k \in 1..Len(a) : e[k] = a[k]
  BY <1>1
<1> HIDE DEF e
<1>5. Replies(a) \subseteq 1..Len(a) /\ Whole(s, c, Requests) \subseteq 1..c
  BY RepliesGrow, WholeGrows, <1>1
<1>6. CASE s[c + 1].size > 0
  <2>1. Replies(e) = Replies(a) \cup {Len(a) + 1}
    BY <1>1, <1>2, <1>6, <1>9, RepliesGrow DEF e
  <2>2. Whole(s, c + 1, Requests) = Whole(s, c, Requests) \cup {c + 1}
    BY <1>6, WholeGrows
  <2>3. Replies(a) \subseteq Nat /\ \A k \in Replies(a) : k < Len(a) + 1
    BY <1>5
  <2>4. Whole(s, c, Requests) \subseteq Nat /\ \A i \in Whole(s, c, Requests) : i < c + 1
    BY <1>5
  <2>5. \A k \in Replies(a) : e[k] = a[k]
    BY <1>4, <1>5
  <2>6. Shows(a, Replies(a), Answered(s), Whole(s, c, Requests))
    BY DEF Answering
  <2>7. c + 1 \in Nat
    OBVIOUS
  <2>8. e[Len(a) + 1] = Answered(s)[c + 1]
    BY <1>3, <1>4
  <2>9. Shows(e, Replies(a) \cup {Len(a) + 1}, Answered(s), Whole(s, c, Requests) \cup {c + 1})
    BY <1>4, <2>3, <2>4, <2>5, <2>6, <2>7, <2>8, ShowsOneMore
  <2>10. QED
    BY <2>1, <2>2, <2>9 DEF Answering, e, m
<1>7. CASE ~(s[c + 1].size > 0)
  <2>1. Replies(e) = Replies(a)
    BY <1>1, <1>2, <1>7, RepliesGrow DEF e
  <2>2. Whole(s, c + 1, Requests) = Whole(s, c, Requests)
    BY <1>7, WholeGrows
  <2>3. \A k \in Replies(a) : e[k] = a[k]
    BY <1>4, <1>5
  <2>4. Shows(e, Replies(a), Answered(s), Whole(s, c, Requests))
    BY <2>3, ShowsTheSame DEF Answering
  <2>5. QED
    BY <2>1, <2>2, <2>4 DEF Answering, e, m
<1>8. QED
  BY <1>6, <1>7

\* A text is sent, or the answer to an empty request.
LEMMA NothingToAnswer ==
  ASSUME NEW s, NEW c, NEW a \in Seq(Message), Answering(s, c, a),
         NEW m \in Message, m.op = Opcode.Text \/ m.payload = <<>>
  PROVE  Answering(s, c, Append(a, m))
<1>1. Replies(Append(a, m)) = Replies(a) /\ Replies(a) \subseteq 1..Len(a)
  BY RepliesGrow
<1>2. \A k \in Replies(a) : Append(a, m)[k] = a[k]
  BY <1>1
<1>3. Shows(Append(a, m), Replies(a), Answered(s), Whole(s, c, Requests))
  BY <1>2, ShowsTheSame DEF Answering
<1>4. QED
  BY <1>1, <1>3 DEF Answering

\* A frame that is no request is handled.
LEMMA NoneAnswered ==
  ASSUME NEW s \in Seq(PeerFrames), NEW c \in Nat, c + 1 \in 1..Len(s), NEW a,
         Answering(s, c, a), ~(s[c + 1].fin /\ s[c + 1].op \in Requests)
  PROVE  Answering(s, c + 1, a)
<1>1. Whole(s, c + 1, Requests) = Whole(s, c, Requests)
  BY WholeGrows
<1>2. QED
  BY <1>1 DEF Answering

\* A fragment is kept.
LEMMA OneKept ==
  ASSUME NEW s \in Seq(PeerFrames), NEW c \in Nat, c + 1 \in 1..Len(s), NEW f \in Seq(Seq(Byte)),
         Keeping(s, c, f), ~s[c + 1].fin, Bytes(c + 1, s[c + 1].size, s[c + 1].masked) \in Seq(Byte)
  PROVE  Keeping(s, c + 1, Append(f, Bytes(c + 1, s[c + 1].size, s[c + 1].masked)))
<1> DEFINE b == Bytes(c + 1, s[c + 1].size, s[c + 1].masked)
           e == Append(f, b)
<1>1. b \in Seq(Byte) /\ Kept(s)[c + 1] = b
  BY DEF Kept
<1> HIDE DEF b
<1>2. /\ DOMAIN f = 1..Len(f) /\ DOMAIN e = (1..Len(f)) \cup {Len(f) + 1} /\ Len(f) + 1 \in Nat
      /\ e[Len(f) + 1] = b /\ \A k \in 1..Len(f) : e[k] = f[k]
  BY <1>1
<1> HIDE DEF e
<1>3. Open(s, c + 1) = Open(s, c) \cup {c + 1} /\ Open(s, c) \subseteq 1..c
  BY OpenGrows
<1>4. (1..Len(f)) \subseteq Nat /\ \A k \in 1..Len(f) : k < Len(f) + 1
  OBVIOUS
<1>5. Open(s, c) \subseteq Nat /\ (\A i \in Open(s, c) : i < c + 1) /\ c + 1 \in Nat
  BY <1>3
<1>6. Shows(f, 1..Len(f), Kept(s), Open(s, c))
  BY <1>2 DEF Keeping
<1>7. e[Len(f) + 1] = Kept(s)[c + 1]
  BY <1>1, <1>2
<1>8. Shows(e, (1..Len(f)) \cup {Len(f) + 1}, Kept(s), Open(s, c) \cup {c + 1})
  BY <1>2, <1>4, <1>5, <1>6, <1>7, ShowsOneMore
<1>9. QED
  BY <1>2, <1>3, <1>8 DEF Keeping, e, b

\* A whole frame between fragments.
LEMMA NoneKept ==
  ASSUME NEW s \in Seq(PeerFrames), NEW c \in Nat, c + 1 \in 1..Len(s), NEW f,
         Keeping(s, c, f), s[c + 1].fin, ~EndsAt(s, c + 1)
  PROVE  Keeping(s, c + 1, f)
<1>1. Open(s, c + 1) = Open(s, c)
  BY OpenGrows
<1>2. QED
  BY <1>1 DEF Keeping

\* The last fragment.
LEMMA AllPutTogether ==
  ASSUME NEW s \in Seq(PeerFrames), NEW c \in Nat, c + 1 \in 1..Len(s), EndsAt(s, c + 1)
  PROVE  Keeping(s, c + 1, <<>>)
<1>1. Open(s, c + 1) = {}
  BY OpenGrows
<1>2. DOMAIN <<>> = {}
  OBVIOUS
<1>3. QED
  BY <1>1, <1>2, NothingToShow DEF Keeping

\* What the peer sends changes nothing of what it has sent.
LEMMA MoreSent ==
  ASSUME NEW s \in Seq(PeerFrames), NEW c \in 0..Len(s), NEW frame \in PeerFrames, NEW d, NEW a, NEW f
  PROVE  /\ Deliveries(s, c, d) => Deliveries(Append(s, frame), c, d)
         /\ Answering(s, c, a) => Answering(Append(s, frame), c, a)
         /\ Keeping(s, c, f) => Keeping(Append(s, frame), c, f)
<1> DEFINE t == Append(s, frame)
<1>1. /\ \A i \in 1..c : Received(t)[i] = Received(s)[i]
      /\ \A i \in 1..c : Answered(t)[i] = Answered(s)[i]
      /\ \A i \in 1..c : Kept(t)[i] = Kept(s)[i]
  <2>1. ASSUME NEW i \in 1..c PROVE i \in 1..Len(s) /\ i \in 1..Len(t) /\ t[i] = s[i]
    OBVIOUS
  <2> HIDE DEF t
  <2>2. QED
    BY <2>1 DEF Received, Answered, Kept
<1>2. /\ Whole(t, c, Texts) = Whole(s, c, Texts) /\ Whole(t, c, Requests) = Whole(s, c, Requests)
      /\ Open(t, c) = Open(s, c)
  BY WholeOfMore, OpenOfMore
<1>3. Whole(s, c, Texts) \subseteq 1..c /\ Whole(s, c, Requests) \subseteq 1..c /\ Open(s, c) \subseteq 1..c
  BY DEF Whole, Open
<1> HIDE DEF t
<1>4. ASSUME Deliveries(s, c, d) PROVE Deliveries(t, c, d)
  <2>1. \A i \in Whole(s, c, Texts) : Received(t)[i] = Received(s)[i]
    BY <1>1, <1>3
  <2>2. QED
    BY <1>2, <1>4, <2>1, ShowsTheSame DEF Deliveries
<1>5. ASSUME Answering(s, c, a) PROVE Answering(t, c, a)
  <2>1. \A i \in Whole(s, c, Requests) : Answered(t)[i] = Answered(s)[i]
    BY <1>1, <1>3
  <2>2. QED
    BY <1>2, <1>5, <2>1, ShowsTheSame DEF Answering
<1>6. ASSUME Keeping(s, c, f) PROVE Keeping(t, c, f)
  <2>1. \A i \in Open(s, c) : Kept(t)[i] = Kept(s)[i]
    BY <1>1, <1>3
  <2>2. QED
    BY <1>2, <1>6, <2>1, ShowsTheSame DEF Keeping
<1>7. QED
  BY <1>4, <1>5, <1>6 DEF t

-----------------------------------------------------------------------------
(* What is written *)

\* The code of a message that is sent, and of those behind the n-th of a.
SentCode(m) == Encode(TRUE, m.op, FALSE, Len(m.payload), m.payload)
SentCodes(a, n) == [i \in 1..(Len(a) - n) |-> SentCode(a[n + i])]
FrameFor(m) == [fin |-> TRUE, op |-> m.op, payload |-> m.payload]

LEMMA SentCodeIs ==
  ASSUME NEW m \in Message
  PROVE  /\ SentCode(m) \in Seq(Field)
         /\ \A rest \in Seq(Field) : IsRead(SentCode(m) \o rest, FrameFor(m), rest)
<1>1. m.op \in 0..15 /\ m.payload \in Seq(Byte) /\ TRUE \in Flag /\ FALSE \in Flag
  BY DEF Message, Flag
<1>2. Len(m.payload) \in Nat /\ Len(m.payload) \in AnyLength /\ Len(m.payload) = Following(Len(m.payload))
  BY <1>1 DEF AnyLength, Following
<1>3. IsCode(SentCode(m), TRUE, m.op, Len(m.payload), m.payload)
  BY <1>1, <1>2, EncodeIs DEF SentCode
<1>4. SentCode(m) \in Seq(Field)
  BY <1>3 DEF IsCode
<1>5. ASSUME NEW rest \in Seq(Field) PROVE IsRead(SentCode(m) \o rest, FrameFor(m), rest)
  BY <1>1, <1>2, FrameIsRead DEF SentCode, FrameFor
<1>6. QED
  BY <1>4, <1>5

LEMMA SentCodesAre ==
  ASSUME NEW a \in Seq(Message), NEW n \in 0..Len(a)
  PROVE  /\ SentCodes(a, n) \in Seq(Seq(Field)) /\ Len(SentCodes(a, n)) = Len(a) - n
         /\ \A i \in 1..(Len(a) - n) : SentCodes(a, n)[i] = SentCode(a[n + i])
<1>1. Len(a) - n \in Nat
  OBVIOUS
<1>2. ASSUME NEW i \in 1..(Len(a) - n) PROVE SentCode(a[n + i]) \in Seq(Field)
  <2>1. a[n + i] \in Message
    OBVIOUS
  <2>2. QED
    BY <2>1, SentCodeIs
<1>3. QED
  BY <1>1, <1>2 DEF SentCodes

\* SendFrame writes one more.
LEMMA OneWritten ==
  ASSUME NEW a \in Seq(Message), NEW m \in Message, NEW w, w = FlattenSeq(SentCodes(a, 0))
  PROVE  /\ w \o SentCode(m) \in Seq(Field)
         /\ w \o SentCode(m) = FlattenSeq(SentCodes(Append(a, m), 0))
<1> DEFINE b == Append(a, m)
           x == SentCodes(a, 0)
           y == SentCodes(b, 0)
           e == SentCode(m)
           l == Len(a)
<1>1. b \in Seq(Message) /\ Len(b) = l + 1 /\ l \in Nat /\ b[l + 1] = m /\ \A i \in 1..l : b[i] = a[i]
  OBVIOUS
<1> HIDE DEF b
<1>2. e \in Seq(Field)
  BY SentCodeIs
<1>3. x \in Seq(Seq(Field)) /\ Len(x) = l /\ \A i \in 1..l : x[i] = SentCode(a[i])
  BY SentCodesAre
<1>4. y \in Seq(Seq(Field)) /\ Len(y) = l + 1 /\ \A i \in 1..(l + 1) : y[i] = SentCode(b[i])
  BY <1>1, SentCodesAre
<1>5. ASSUME NEW i \in 1..l PROVE y[i] = x[i]
  BY <1>1, <1>3, <1>4
<1>6. y[l + 1] = e
  BY <1>1, <1>4
<1> HIDE DEF x, y, e, l
<1>7. y = Append(x, e)
  BY <1>1, <1>2, <1>3, <1>4, <1>5, <1>6
<1>8. FlattenSeq(Append(x, e)) = FlattenSeq(x) \o e
  BY <1>2, <1>3, FlattenAppend
<1>9. FlattenSeq(y) \in Seq(Field)
  BY <1>4, FlattenType
<1>10. w = FlattenSeq(x)
  BY DEF x
<1>11. w \o e = FlattenSeq(y)
  BY <1>7, <1>8, <1>10, Zenon
<1>12. QED
  BY <1>9, <1>11 DEF e, y, b

\* A reader takes the messages off, one after the other.
LEMMA OneTaken ==
  ASSUME NEW a \in Seq(Message), NEW n \in 0..Len(a), n # Len(a)
  PROVE  IsRead(FlattenSeq(SentCodes(a, n)), FrameFor(a[n + 1]), FlattenSeq(SentCodes(a, n + 1)))
<1> DEFINE x == SentCodes(a, n)
           y == SentCodes(a, n + 1)
           l == Len(a) - n
<1>1. l \in Nat /\ l > 0 /\ n + 1 \in 0..Len(a) /\ Len(a) - (n + 1) = l - 1
  OBVIOUS
<1>2. x \in Seq(Seq(Field)) /\ Len(x) = l /\ \A i \in 1..l : x[i] = SentCode(a[n + i])
  BY SentCodesAre
<1>3. y \in Seq(Seq(Field)) /\ Len(y) = l - 1 /\ \A i \in 1..(l - 1) : y[i] = SentCode(a[(n + 1) + i])
  BY <1>1, SentCodesAre
<1> HIDE DEF x, y, l
<1>4. Len(x) # 0 /\ x # <<>>
  <2>1. Len(<<>>) # Len(x)
    BY <1>1, <1>2
  <2>2. x # <<>>
    BY <2>1, Zenon
  <2>3. QED
    BY <1>1, <1>2, <2>2
<1>5. /\ Tail(x) \in Seq(Seq(Field)) /\ Len(Tail(x)) = Len(x) - 1
      /\ \A i \in 1..Len(Tail(x)) : Tail(x)[i] = x[i + 1]
  BY <1>2, <1>4, HeadTailProperties
<1>6. ASSUME NEW i \in 1..Len(y) PROVE Tail(x)[i] = y[i]
  <2>1. i \in 1..Len(Tail(x)) /\ i + 1 \in 1..l /\ i \in 1..(l - 1)
    BY <1>1, <1>2, <1>3, <1>5
  <2>2. n + (i + 1) = (n + 1) + i
    OBVIOUS
  <2>3. x[i + 1] = SentCode(a[n + (i + 1)]) /\ y[i] = SentCode(a[(n + 1) + i])
    BY <1>2, <1>3, <2>1
  <2>4. QED
    BY <1>5, <2>1, <2>2, <2>3
<1>7. Tail(x) = y
  BY <1>1, <1>2, <1>3, <1>5, <1>6, SeqEqual
<1>8. x[1] = SentCode(a[n + 1])
  <2>1. 1 \in 1..l
    BY <1>1
  <2>2. QED
    BY <1>2, <2>1
<1>9. FlattenSeq(x) = x[1] \o FlattenSeq(Tail(x))
  BY <1>2, <1>4, FlattenCons
<1>10. FlattenSeq(x) = SentCode(a[n + 1]) \o FlattenSeq(y)
  BY <1>7, <1>8, <1>9, Zenon
<1>11. FlattenSeq(y) \in Seq(Field)
  BY <1>3, FlattenType
<1>12. a[n + 1] \in Message
  <2>1. n + 1 \in 1..Len(a)
    BY <1>1
  <2>2. QED
    BY <2>1
<1>13. IsRead(SentCode(a[n + 1]) \o FlattenSeq(y), FrameFor(a[n + 1]), FlattenSeq(y))
  BY <1>11, <1>12, SentCodeIs
<1>14. QED
  BY <1>10, <1>13, Zenon DEF x, y

\* What has been taken off after n steps.
Taken(a, n) == [frames |-> [i \in 1..n |-> FrameFor(a[i])], rest |-> FlattenSeq(SentCodes(a, n))]

\* One step of a reader.
Reader(before) ==
  IF ~HasFrame(before.rest) THEN before
  ELSE [frames |-> Append(before.frames, FrameOf(before.rest)), rest |-> Behind(before.rest)]

LEMMA ReaderTakes ==
  ASSUME NEW a \in Seq(Message), NEW n \in 0..Len(a)
  PROVE  /\ n # Len(a) => Reader(Taken(a, n)) = Taken(a, n + 1)
         /\ n = Len(a) => Reader(Taken(a, n)) = Taken(a, n)
<1> DEFINE fs(k) == [i \in 1..k |-> FrameFor(a[i])]
           left(k) == FlattenSeq(SentCodes(a, k))
<1>1. CASE n # Len(a)
  <2>1. IsRead(left(n), FrameFor(a[n + 1]), left(n + 1))
    BY <1>1, OneTaken
  <2> HIDE DEF left
  <2>2. HasFrame(left(n)) /\ FrameOf(left(n)) = FrameFor(a[n + 1]) /\ Behind(left(n)) = left(n + 1)
    BY <2>1 DEF IsRead
  <2>3. Append(fs(n), FrameFor(a[n + 1])) = fs(n + 1)
    <3> DEFINE S == [fin : Flag, op : 0..15, payload : Seq(Byte)]
    <3>1. ASSUME NEW i \in 1..(n + 1) PROVE FrameFor(a[i]) \in S
      <4>1. i \in 1..Len(a)
        BY <1>1
      <4>2. a[i] \in Message
        BY <4>1
      <4>3. QED
        BY <4>2 DEF FrameFor, Message, Flag
    <3> HIDE DEF S
    <3>2. fs(n) \in Seq(S) /\ Len(fs(n)) = n /\ \A i \in 1..n : fs(n)[i] = FrameFor(a[i])
      BY <3>1
    <3>3. /\ fs(n + 1) \in Seq(S) /\ Len(fs(n + 1)) = n + 1
          /\ \A i \in 1..(n + 1) : fs(n + 1)[i] = FrameFor(a[i])
      BY <3>1
    <3>4. FrameFor(a[n + 1]) \in S
      BY <3>1
    <3> HIDE DEF fs
    <3>5. QED
      BY <3>2, <3>3, <3>4
  <2>4. Taken(a, n).rest = left(n) /\ Taken(a, n).frames = fs(n) /\ Taken(a, n + 1) = [frames |-> fs(n + 1), rest |-> left(n + 1)]
    BY DEF Taken, left
  <2> HIDE DEF fs
  <2>5. QED
    BY <1>1, <2>2, <2>3, <2>4 DEF Reader
<1>2. CASE n = Len(a)
  <2>1. SentCodes(a, n) \in Seq(Seq(Field)) /\ Len(SentCodes(a, n)) = 0
    BY <1>2, SentCodesAre
  <2>2. left(n) = <<>>
    BY <2>1, FlattenEmpty
  <2>3. ~HasFrame(<<>>)
    <3>1. Len(<<>>) = 0
      OBVIOUS
    <3>2. QED
      BY <3>1 DEF HasFrame, HasHeader
  <2>4. Taken(a, n).rest = left(n)
    BY DEF Taken
  <2>5. QED
    BY <1>2, <2>2, <2>3, <2>4 DEF Reader
<1>3. QED
  BY <1>1, <1>2

\* The recursive definition of Parsed is one of a function.
LEMMA ParsedSteps ==
  ASSUME answers \in Seq(Message), myWriteStream = FlattenSeq(SentCodes(answers, 0))
  PROVE  /\ Parsed[0] = Taken(answers, 0)
         /\ \A n \in Nat \ {0} : Parsed[n] = Reader(Parsed[n - 1])
<1> DEFINE N == Len(answers)
           P == [n \in Nat |-> IF n <= N THEN Taken(answers, n) ELSE Taken(answers, N)]
           Start == [frames |-> <<>>, rest |-> myWriteStream]
           Body(f) == [n \in Nat |-> IF n = 0 THEN Start ELSE Reader(f[n - 1])]
<1>1. Start = Taken(answers, 0)
  <2>1. [i \in 1..0 |-> FrameFor(answers[i])] = <<>>
    OBVIOUS
  <2>2. QED
    BY <2>1 DEF Taken
<1>2. N \in Nat
  OBVIOUS
<1> HIDE DEF Start
<1>3. P = Body(P)
  <2>1. ASSUME NEW n \in Nat PROVE P[n] = IF n = 0 THEN Start ELSE Reader(P[n - 1])
    <3>1. CASE n = 0
      <4>1. n <= N
        BY <1>2, <3>1
      <4>2. QED
        BY <1>1, <3>1, <4>1
    <3>2. CASE n # 0 /\ n <= N
      <4>1. n - 1 \in 0..N /\ n - 1 # N /\ (n - 1) + 1 = n /\ n - 1 \in Nat /\ n - 1 <= N
        BY <1>2, <3>2
      <4>2. Reader(Taken(answers, n - 1)) = Taken(answers, n)
        BY <4>1, ReaderTakes
      <4>3. QED
        BY <3>2, <4>1, <4>2
    <3>3. CASE ~(n <= N)
      <4>1. n # 0 /\ n - 1 \in Nat /\ (n - 1 <= N => n - 1 = N) /\ N \in 0..N
        BY <1>2, <3>3
      <4>2. Reader(Taken(answers, N)) = Taken(answers, N)
        BY <4>1, ReaderTakes
      <4>3. P[n - 1] = Taken(answers, N)
        BY <4>1
      <4>4. P[n] = Taken(answers, N)
        BY <3>3
      <4> HIDE DEF P
      <4>5. QED
        BY <4>1, <4>2, <4>3, <4>4
    <3>4. QED
      BY <3>1, <3>2, <3>3
  <2>2. QED
    BY <2>1
<1>4. Parsed = CHOOSE f : f = Body(f)
  BY DEF Parsed, Reader, Start
<1>5. Parsed = Body(Parsed)
  <2> HIDE DEF P, Body
  <2>1. QED
    BY <1>3, <1>4
<1>6. \A n \in Nat : Parsed[n] = IF n = 0 THEN Start ELSE Reader(Parsed[n - 1])
  BY <1>5
<1>7. QED
  BY <1>1, <1>6

LEMMA WhatIsWrittenIsReadable ==
  ASSUME answers \in Seq(Message), myWriteStream = FlattenSeq(SentCodes(answers, 0))
  PROVE  WrittenIsReadable
<1> DEFINE N == Len(answers)
           Bad == {n \in Nat : n <= N /\ Parsed[n] # Taken(answers, n)}
<1>1. N \in Nat
  OBVIOUS
<1>2. Parsed[0] = Taken(answers, 0) /\ \A n \in Nat \ {0} : Parsed[n] = Reader(Parsed[n - 1])
  BY ParsedSteps
<1>3. ASSUME Bad # {} PROVE FALSE
  <2>1. PICK n \in Bad : \A m \in Bad : n <= m
    BY <1>3, LeastOf
  <2>2. n \in Nat /\ n <= N /\ Parsed[n] # Taken(answers, n)
    BY <2>1
  <2>3. n # 0
    BY <1>2, <2>2
  <2>4. n - 1 \in Nat /\ n - 1 <= N /\ ~(n <= n - 1) /\ n - 1 \in 0..N /\ n - 1 # N /\ (n - 1) + 1 = n
    BY <1>1, <2>2, <2>3
  <2>5. Parsed[n - 1] = Taken(answers, n - 1)
    BY <2>1, <2>4
  <2>6. Reader(Taken(answers, n - 1)) = Taken(answers, n)
    BY <2>4, ReaderTakes
  <2>7. QED
    BY <1>2, <2>2, <2>3, <2>5, <2>6
<1>4. Parsed[N] = Taken(answers, N)
  BY <1>1, <1>3
<1>5. SentCodes(answers, N) \in Seq(Seq(Field)) /\ Len(SentCodes(answers, N)) = 0
  BY <1>1, SentCodesAre
<1>6. FlattenSeq(SentCodes(answers, N)) = <<>>
  BY <1>5, FlattenEmpty
<1>7. Taken(answers, N).rest = <<>> /\ Taken(answers, N).frames = [i \in 1..N |-> FrameFor(answers[i])]
  BY <1>6 DEF Taken
<1>8. QED
  BY <1>4, <1>7 DEF WrittenIsReadable, FrameFor

-----------------------------------------------------------------------------
(* The invariant *)

Types ==
  /\ TypeOK
  /\ myReadStream \in Seq(Field) /\ wire \in Seq(Field) /\ myWriteStream \in Seq(Field)
  /\ delivered \in Seq(Message) /\ answers \in Seq(Message)
  /\ myFragments \in Seq(Seq(Byte)) /\ myTotalFragmentSize = 0
  /\ pc # "idle" => ~myHasFailed /\ ~myHasClosed

Reading == Carry(myReadStream, wire, sent, consumed)
Delivering == Deliveries(sent, consumed, delivered)
Replying == Answering(sent, consumed, answers)
Collecting == ~myHasFailed /\ ~crashed => Keeping(sent, consumed, myFragments)
Writing == myWriteStream = FlattenSeq(SentCodes(answers, 0))

IInv == Types /\ Reading /\ Delivering /\ Replying /\ Collecting /\ Writing

LEMMA InitInv ==
  ASSUME Init
  PROVE  IInv
<1>1. /\ sent = <<>> /\ wire = <<>> /\ consumed = 0 /\ myReadStream = <<>> /\ myWriteStream = <<>>
      /\ delivered = <<>> /\ answers = <<>> /\ myFragments = <<>>
  BY DEF Init
<1>2. <<>> \in Seq(PeerFrames) /\ <<>> \in Seq(Message) /\ <<>> \in Seq(Field) /\ Len(<<>>) = 0 /\ <<>> \in Seq(Seq(Field))
  BY EmptySeq
<1>3. Types
  <2>3. Opcode.INVALID \in 0..15 /\ 0 \in 0..MaxTexts
    BY WebsocketAssumption DEF Opcode
  <2>4. sent \in Seq(PeerFrames) /\ consumed \in 0..Len(sent) /\ Len(myFragments) = 0
    BY <1>1, <1>2
  <2>5. \A i \in 1..Len(myFragments) : myFragments[i] \in Seq([kind : {"byte"}, value : Nat, masked : BOOLEAN])
    BY <2>4
  <2>6. /\ myHasFailed \in BOOLEAN /\ myHasClosed \in BOOLEAN /\ news = FALSE /\ crashed = FALSE
        /\ myFragmentedOpCode = Opcode.INVALID /\ myTotalFragmentSize = 0 /\ pc = "idle" /\ texts = 0
    BY DEF Init
  <2>1. TypeOK
    BY <2>3, <2>4, <2>5, <2>6 DEF TypeOK
  <2>2. QED
    BY <1>1, <2>1, EmptySeq DEF Init, Types
<1>4. FlattenSeq(CodesOf(sent, 0)) = <<>> /\ FlattenSeq(SentCodes(answers, 0)) = <<>>
  <2>4. sent \in Seq(PeerFrames) /\ answers \in Seq(Message) /\ Len(sent) = 0 /\ Len(answers) = 0
    BY <1>1, <1>2
  <2>5. 0 \in 0..Len(sent) /\ 0 \in 0..Len(answers)
    BY <2>4
  <2>1. CodesOf(sent, 0) \in Seq(Seq(Field)) /\ Len(CodesOf(sent, 0)) = Len(sent) - 0
    BY <2>4, <2>5, CodesAre
  <2>2. SentCodes(answers, 0) \in Seq(Seq(Field)) /\ Len(SentCodes(answers, 0)) = Len(answers) - 0
    BY <2>4, <2>5, SentCodesAre
  <2>3. QED
    BY <2>1, <2>2, <2>4, FlattenEmpty
<1>5. Reading
  <2>1. <<>> \o <<>> = <<>>
    OBVIOUS
  <2>2. QED
    BY <1>1, <1>4, <2>1 DEF Reading, Carry
<1>6. Delivering /\ Replying /\ Collecting
  <2>1. DOMAIN <<>> = {} /\ 1..0 = {}
    OBVIOUS
  <2>2. Filled(<<>>) = {} /\ Replies(<<>>) = {} /\ Whole(sent, 0, Texts) = {} /\ Whole(sent, 0, Requests) = {} /\ Open(sent, 0) = {}
    BY <2>1 DEF Filled, Replies, Whole, Open
  <2>3. Delivering
    BY <1>1, <2>2, NothingToShow DEF Delivering, Deliveries
  <2>4. Replying
    BY <1>1, <2>2, NothingToShow DEF Replying, Answering
  <2>5. Collecting
    BY <1>1, <2>1, <2>2, NothingToShow DEF Collecting, Keeping
  <2>6. QED
    BY <2>3, <2>4, <2>5
<1>7. Writing
  BY <1>1, <1>4 DEF Writing
<1>8. QED
  BY <1>3, <1>5, <1>6, <1>7 DEF IInv

\* What is neither read, handled nor written stays as it is.
Idle == UNCHANGED <<myHasClosed, fragments, myReadStream, myWriteStream, delivered, answers, peer, consumed, texts>>

LEMMA IdleKeeps ==
  ASSUME IInv, Idle, myHasFailed' \in BOOLEAN, news' \in BOOLEAN, crashed' \in BOOLEAN,
         pc' \in {"idle", "parsing", "firing"}, pc' # "idle" => ~myHasFailed' /\ ~myHasClosed,
         myHasFailed => myHasFailed', crashed => crashed'
  PROVE  IInv'
<1>1. Types'
  BY DEF IInv, Types, TypeOK, Idle, fragments, peer
<1>2. /\ myReadStream' = myReadStream /\ wire' = wire /\ sent' = sent /\ consumed' = consumed
      /\ delivered' = delivered /\ answers' = answers /\ myFragments' = myFragments
      /\ myWriteStream' = myWriteStream
  BY DEF Idle, fragments, peer
<1>3. Reading' /\ Delivering' /\ Replying' /\ Writing'
  BY <1>2 DEF IInv, Reading, Delivering, Replying, Writing
<1>4. Collecting'
  BY <1>2 DEF IInv, Collecting
<1>5. QED
  BY <1>1, <1>3, <1>4 DEF IInv

LEMMA SendTextKeeps ==
  ASSUME IInv, NEW size \in Sizes, SendText(size)
  PROVE  IInv'
<1> DEFINE m == [op |-> Opcode.Text, payload |-> Bytes(0, size, FALSE)]
<1>1. /\ answers' = Append(answers, m)
      /\ myWriteStream' = myWriteStream \o Encode(TRUE, Opcode.Text, FALSE, Len(Bytes(0, size, FALSE)), Bytes(0, size, FALSE))
      /\ UNCHANGED <<myHasFailed, myHasClosed, fragments, myReadStream, pc, news, delivered, crashed, peer, consumed>>
      /\ texts < MaxTexts /\ texts' = texts + 1
  BY DEF SendText, SendFrame
<1>2. m \in Message
  <2>1. size \in AnyLength /\ FALSE \in Flag
    BY DEF Sizes, AnyLength, Flag
  <2>2. Bytes(0, size, FALSE) \in Seq(Byte)
    BY <2>1, BytesAre
  <2>3. Opcode.Text \in 0..15
    BY DEF Opcode
  <2>4. QED
    BY <2>2, <2>3 DEF Message
<1>3. m.op = Opcode.Text /\ m.payload = Bytes(0, size, FALSE)
  OBVIOUS
<1>4. myWriteStream' = myWriteStream \o SentCode(m)
  BY <1>1, <1>3 DEF SentCode
<1> HIDE DEF m
<1>5. answers \in Seq(Message) /\ myWriteStream = FlattenSeq(SentCodes(answers, 0))
  BY DEF IInv, Types, Writing
<1>6. myWriteStream' \in Seq(Field) /\ myWriteStream' = FlattenSeq(SentCodes(answers', 0))
  BY <1>1, <1>2, <1>4, <1>5, OneWritten
<1>7. answers' \in Seq(Message)
  BY <1>1, <1>2, <1>5
<1>8. Types'
  <2>1. texts' \in 0..MaxTexts
    BY <1>1, WebsocketAssumption DEF IInv, Types, TypeOK
  <2>2. QED
    BY <1>1, <1>6, <1>7, <2>1 DEF IInv, Types, TypeOK, fragments, peer
<1>9. Answering(sent, consumed, answers')
  BY <1>1, <1>2, <1>3, <1>5, NothingToAnswer DEF IInv, Replying
<1>10. QED
  BY <1>1, <1>6, <1>8, <1>9 DEF IInv, Reading, Delivering, Replying, Collecting, Writing, fragments, peer

LEMMA PeerSendsKeeps ==
  ASSUME IInv, NEW frame \in PeerFrames, PeerSends(frame)
  PROVE  IInv'
<1> DEFINE code == Encode(frame.fin, frame.op, frame.masked, frame.size, Bytes(Len(sent) + 1, frame.size, frame.masked))
<1>1. /\ sent' = Append(sent, frame) /\ wire' = wire \o code
      /\ UNCHANGED <<myHasFailed, myHasClosed, fragments, myReadStream, myWriteStream, pc,
                     news, delivered, answers, crashed, consumed, texts>>
  BY DEF PeerSends
<1>2. /\ sent \in Seq(PeerFrames) /\ consumed \in 0..Len(sent)
      /\ myReadStream \in Seq(Field) /\ wire \in Seq(Field) /\ Carry(myReadStream, wire, sent, consumed)
  BY DEF IInv, Types, TypeOK, Reading
<1>3. wire \o code \in Seq(Field) /\ Carry(myReadStream, wire \o code, Append(sent, frame), consumed)
  BY <1>2, CarryOneMore
<1> HIDE DEF code
<1>4. sent' \in Seq(PeerFrames) /\ consumed \in 0..Len(sent')
  BY <1>1, <1>2
<1>5. Types'
  BY <1>1, <1>3, <1>4 DEF IInv, Types, TypeOK, fragments
<1>6. Reading'
  BY <1>1, <1>3 DEF Reading
<1>7. Delivering' /\ Replying' /\ Collecting'
  <2>1. /\ Deliveries(sent, consumed, delivered) /\ Answering(sent, consumed, answers)
        /\ ~myHasFailed /\ ~crashed => Keeping(sent, consumed, myFragments)
    BY DEF IInv, Delivering, Replying, Collecting
  <2>2. /\ Deliveries(sent', consumed, delivered) /\ Answering(sent', consumed, answers)
        /\ ~myHasFailed /\ ~crashed => Keeping(sent', consumed, myFragments)
    BY <1>1, <1>2, <2>1, MoreSent
  <2>3. QED
    BY <1>1, <2>2 DEF Delivering, Replying, Collecting, fragments
<1>8. Writing'
  BY <1>1 DEF IInv, Writing
<1>9. QED
  BY <1>5, <1>6, <1>7, <1>8 DEF IInv

LEMMA ArriveKeeps ==
  ASSUME IInv, NEW n \in 1..Len(wire), Arrive(n)
  PROVE  IInv'
<1>1. /\ myReadStream' = myReadStream \o SubSeq(wire, 1, n) /\ wire' = SubSeq(wire, n + 1, Len(wire))
      /\ news' = TRUE
      /\ UNCHANGED <<myHasFailed, myHasClosed, fragments, myWriteStream, pc, delivered,
                     answers, crashed, sent, consumed, texts>>
  BY DEF Arrive
<1>2. /\ sent \in Seq(PeerFrames) /\ consumed \in 0..Len(sent)
      /\ myReadStream \in Seq(Field) /\ wire \in Seq(Field) /\ Carry(myReadStream, wire, sent, consumed)
  BY DEF IInv, Types, TypeOK, Reading
<1>3. /\ myReadStream \o SubSeq(wire, 1, n) \in Seq(Field) /\ SubSeq(wire, n + 1, Len(wire)) \in Seq(Field)
      /\ Carry(myReadStream \o SubSeq(wire, 1, n), SubSeq(wire, n + 1, Len(wire)), sent, consumed)
  BY <1>2, CarryArrives
<1>4. myReadStream' \in Seq(Field) /\ wire' \in Seq(Field) /\ Carry(myReadStream', wire', sent, consumed)
  BY <1>1, <1>3, Zenon
<1>5. Types'
  BY <1>1, <1>4 DEF IInv, Types, TypeOK, fragments
<1>6. QED
  BY <1>1, <1>4, <1>5 DEF IInv, Reading, Delivering, Replying, Collecting, Writing, fragments

\* What a frame is when it is read: the next, with its own payload.
LEMMA NextFrame ==
  ASSUME IInv, Frame
  PROVE  /\ consumed + 1 \in 1..Len(sent) /\ consumed \in Nat
         /\ sent \in Seq(PeerFrames) /\ sent[consumed + 1].size \in Nat
         /\ sent[consumed + 1].op \in 0..15 /\ sent[consumed + 1].fin \in BOOLEAN
         /\ Bytes(consumed + 1, sent[consumed + 1].size, sent[consumed + 1].masked) \in Seq(Byte)
         /\ FrameOf(myReadStream) = [fin |-> sent[consumed + 1].fin, op |-> sent[consumed + 1].op,
                                     payload |-> Bytes(consumed + 1, sent[consumed + 1].size, sent[consumed + 1].masked)]
         /\ consumed' = consumed + 1 /\ consumed' \in 0..Len(sent)
         /\ myReadStream' \in Seq(Field)
         /\ UNCHANGED <<myHasClosed, news, peer, texts>>
         /\ pc = "parsing" /\ ~crashed /\ ~myHasFailed /\ ~myHasClosed
         /\ Reading'
<1>1. /\ sent \in Seq(PeerFrames) /\ consumed \in 0..Len(sent)
      /\ myReadStream \in Seq(Field) /\ wire \in Seq(Field) /\ Carry(myReadStream, wire, sent, consumed)
  BY DEF IInv, Types, TypeOK, Reading
<1>2. /\ pc = "parsing" /\ ~crashed /\ HasFrame(myReadStream)
      /\ consumed' = consumed + 1 /\ myReadStream' = Behind(myReadStream)
      /\ UNCHANGED <<myHasClosed, news, peer, texts>>
  BY DEF Frame
<1>3. /\ consumed + 1 \in 1..Len(sent) /\ sent[consumed + 1].size \in Nat
      /\ FrameOf(myReadStream) = [fin |-> sent[consumed + 1].fin, op |-> sent[consumed + 1].op,
                                  payload |-> Bytes(consumed + 1, sent[consumed + 1].size, sent[consumed + 1].masked)]
      /\ Behind(myReadStream) \in Seq(Field) /\ Carry(Behind(myReadStream), wire, sent, consumed + 1)
  BY <1>1, <1>2, FrameIsNext
<1>4. /\ sent[consumed + 1].op \in 0..15 /\ sent[consumed + 1].fin \in BOOLEAN
      /\ Bytes(consumed + 1, sent[consumed + 1].size, sent[consumed + 1].masked) \in Seq(Byte)
  BY <1>1, <1>3, CodeIs DEF Flag
<1>5. ~myHasFailed /\ ~myHasClosed
  BY <1>2 DEF IInv, Types
<1>6. Reading'
  BY <1>2, <1>3 DEF Reading, peer
<1>7. consumed \in Nat /\ consumed + 1 \in 0..Len(sent)
  BY <1>1, <1>3
<1>8. QED
  BY <1>1, <1>2, <1>3, <1>4, <1>5, <1>6, <1>7

\* What HandleFrame leaves behind.
Sent(op, payload) ==
  /\ answers' = Append(answers, [op |-> op, payload |-> payload])
  /\ answers' \in Seq(Message) /\ [op |-> op, payload |-> payload] \in Message
Fired(op, payload) ==
  /\ delivered' = Append(delivered, [op |-> op, payload |-> payload])
  /\ delivered' \in Seq(Message) /\ [op |-> op, payload |-> payload] \in Message

LEMMA Handled ==
  ASSUME IInv, NEW op \in 0..15, NEW payload \in Seq(Byte), HandleFrame(op, payload),
         pc = "parsing", ~myHasFailed, ~myHasClosed
  PROVE  /\ delivered' \in Seq(Message) /\ answers' \in Seq(Message) /\ myWriteStream' \in Seq(Field)
         /\ Writing'
         /\ pc' \in {"idle", "parsing", "firing"} /\ myHasFailed' \in BOOLEAN
         /\ pc' # "idle" => ~myHasFailed'
         /\ \/ op \in Texts /\ Fired(op, payload) /\ answers' = answers
            \/ op \in Requests /\ Sent(Answer(op), payload) /\ delivered' = delivered
            \/ op \notin Texts \cup Requests /\ UNCHANGED <<delivered, answers>>
<1>1. delivered \in Seq(Message) /\ answers \in Seq(Message) /\ myWriteStream \in Seq(Field) /\ Writing
  BY DEF IInv, Types
<1>7. myHasFailed \in BOOLEAN
  BY DEF IInv, Types, TypeOK
<1>8. ASSUME UNCHANGED myHasFailed, pc' \in {"parsing", "firing"}
      PROVE  pc' \in {"idle", "parsing", "firing"} /\ myHasFailed' \in BOOLEAN /\ (pc' # "idle" => ~myHasFailed')
  BY <1>7, <1>8, Zenon
<1>2. CASE op \in Texts /\ delivered' = Append(delivered, [op |-> op, payload |-> payload]) /\ pc' = "firing"
           /\ UNCHANGED <<myHasFailed, myWriteStream, answers>>
  <2>1. [op |-> op, payload |-> payload] \in Message
    BY DEF Message
  <2>2. delivered' \in Seq(Message)
    BY <1>1, <1>2, <2>1
  <2>3. Writing'
    BY <1>1, <1>2 DEF Writing
  <2>4. Fired(op, payload)
    BY <1>2, <2>1, <2>2 DEF Fired
  <2>5. answers' \in Seq(Message) /\ myWriteStream' \in Seq(Field) /\ answers' = answers
    BY <1>1, <1>2
  <2>6. QED
    BY <1>2, <1>8, <2>2, <2>3, <2>4, <2>5, Zenon
<1>3. CASE op \in Requests /\ SendFrame(Answer(op), payload) /\ UNCHANGED <<myHasFailed, pc, delivered>>
  <2> DEFINE m == [op |-> Answer(op), payload |-> payload]
  <2>1. Answer(op) \in 0..15
    BY DEF Answer, Opcode
  <2>2. m \in Message
    BY <2>1 DEF Message
  <2>3. answers' = Append(answers, m) /\ myWriteStream' = myWriteStream \o SentCode(m)
    BY <1>3 DEF SendFrame, SentCode
  <2> HIDE DEF m
  <2>4. answers' \in Seq(Message)
    BY <1>1, <2>2, <2>3
  <2>5. myWriteStream' \in Seq(Field) /\ myWriteStream' = FlattenSeq(SentCodes(answers', 0))
    BY <1>1, <2>2, <2>3, OneWritten DEF Writing
  <2>6. Writing'
    BY <2>5 DEF Writing
  <2>7. Sent(Answer(op), payload)
    BY <2>2, <2>3, <2>4 DEF Sent, m
  <2>8. delivered' \in Seq(Message) /\ delivered' = delivered /\ UNCHANGED myHasFailed /\ pc' = "parsing"
    BY <1>1, <1>3
  <2>9. QED
    BY <1>3, <1>8, <2>4, <2>5, <2>6, <2>7, <2>8, Zenon
<1>4. CASE op \notin Texts \cup Requests /\ UNCHANGED <<delivered, myWriteStream, answers>>
           /\ (UNCHANGED <<myHasFailed, pc>> \/ Fail)
  <2>1. Writing'
    BY <1>1, <1>4 DEF Writing
  <2>2. pc' \in {"idle", "parsing", "firing"} /\ myHasFailed' \in BOOLEAN /\ (pc' # "idle" => ~myHasFailed')
    BY <1>4, <1>8, Zenon DEF Fail
  <2>3. delivered' \in Seq(Message) /\ answers' \in Seq(Message) /\ myWriteStream' \in Seq(Field)
    BY <1>1, <1>4
  <2>4. QED
    BY <1>4, <2>1, <2>2, <2>3, Zenon
<1>5. Opcode.Pong \notin Texts \cup Requests
  BY DEF Opcode, Texts, Requests
<1>6. QED
  BY <1>2, <1>3, <1>4, <1>5 DEF HandleFrame, Texts, Requests

LEMMA WholeFrameKeeps ==
  ASSUME IInv, WholeFrame
  PROVE  IInv'
<1> DEFINE i == consumed + 1
           op == sent[i].op
           payload == Bytes(i, sent[i].size, sent[i].masked)
<1>1. /\ Frame /\ FrameOf(myReadStream).fin /\ FrameOf(myReadStream).op # Opcode.Continuation
      /\ HandleFrame(FrameOf(myReadStream).op, FrameOf(myReadStream).payload)
      /\ UNCHANGED <<fragments, crashed>>
  BY DEF WholeFrame, IsFragment
<1>2. /\ i \in 1..Len(sent) /\ consumed \in Nat /\ sent \in Seq(PeerFrames) /\ sent[i].size \in Nat
      /\ op \in 0..15 /\ payload \in Seq(Byte)
      /\ FrameOf(myReadStream) = [fin |-> sent[i].fin, op |-> op, payload |-> payload]
      /\ consumed' = i /\ consumed' \in 0..Len(sent) /\ myReadStream' \in Seq(Field)
      /\ UNCHANGED <<myHasClosed, news, peer, texts>>
      /\ pc = "parsing" /\ ~crashed /\ ~myHasFailed /\ ~myHasClosed
      /\ Reading'
  BY <1>1, NextFrame
<1>3. sent[i].fin /\ op # Opcode.Continuation /\ HandleFrame(op, payload)
  BY <1>1, <1>2
<1>4. /\ delivered' \in Seq(Message) /\ answers' \in Seq(Message) /\ myWriteStream' \in Seq(Field)
      /\ Writing'
      /\ pc' \in {"idle", "parsing", "firing"} /\ myHasFailed' \in BOOLEAN
      /\ pc' # "idle" => ~myHasFailed'
      /\ \/ op \in Texts /\ Fired(op, payload) /\ answers' = answers
         \/ op \in Requests /\ Sent(Answer(op), payload) /\ delivered' = delivered
         \/ op \notin Texts \cup Requests /\ UNCHANGED <<delivered, answers>>
  BY <1>2, <1>3, Handled
<1>5. /\ Deliveries(sent, consumed, delivered) /\ Answering(sent, consumed, answers)
      /\ Keeping(sent, consumed, myFragments) /\ delivered \in Seq(Message) /\ answers \in Seq(Message)
  BY <1>2 DEF IInv, Types, Delivering, Replying, Collecting
<1> HIDE DEF i, op, payload
<1>6. Texts \cap Requests = {}
  BY DEF Texts, Requests, Opcode
<1>7. Deliveries(sent, i, delivered')
  <2>1. CASE op \in Texts
    <3>1. Fired(op, payload)
      BY <1>4, <1>6, <2>1
    <3>2. QED
      BY <1>2, <1>3, <1>5, <2>1, <3>1, OneDelivered DEF i, op, payload, Fired
  <2>2. CASE op \notin Texts
    <3>1. delivered' = delivered
      BY <1>4, <2>2
    <3>2. QED
      BY <1>2, <1>5, <2>2, <3>1, NoneDelivered DEF i, op
  <2>3. QED
    BY <2>1, <2>2
<1>8. Answering(sent, i, answers')
  <2>1. CASE op \in Requests
    <3>1. Sent(Answer(op), payload)
      BY <1>4, <1>6, <2>1
    <3>2. QED
      BY <1>2, <1>3, <1>5, <2>1, <3>1, OneAnswered DEF i, op, payload, Sent
  <2>2. CASE op \notin Requests
    <3>1. answers' = answers
      BY <1>4, <2>2
    <3>2. QED
      BY <1>2, <1>5, <2>2, <3>1, NoneAnswered DEF i, op
  <2>3. QED
    BY <2>1, <2>2
<1>9. Keeping(sent, i, myFragments)
  BY <1>2, <1>3, <1>5, NoneKept DEF EndsAt, i, op
<1>10. Types'
  BY <1>1, <1>2, <1>4 DEF IInv, Types, TypeOK, fragments, peer
<1>11. Delivering' /\ Replying' /\ Collecting'
  BY <1>1, <1>2, <1>7, <1>8, <1>9 DEF Delivering, Replying, Collecting, fragments, peer
<1>12. QED
  BY <1>2, <1>4, <1>10, <1>11 DEF IInv

LEMMA OpenFragmentKeeps ==
  ASSUME IInv, OpenFragment
  PROVE  IInv'
<1> DEFINE i == consumed + 1
           op == sent[i].op
           payload == Bytes(i, sent[i].size, sent[i].masked)
<1>1. /\ Frame /\ ~FrameOf(myReadStream).fin
      /\ myFragmentedOpCode' = IF FrameOf(myReadStream).op # Opcode.Continuation
                               THEN FrameOf(myReadStream).op ELSE myFragmentedOpCode
      /\ myFragments' = Append(myFragments, FrameOf(myReadStream).payload)
      /\ UNCHANGED <<myTotalFragmentSize, myHasFailed, pc, delivered, myWriteStream, answers, crashed>>
  BY DEF OpenFragment, Keep
<1>2. /\ i \in 1..Len(sent) /\ consumed \in Nat /\ sent \in Seq(PeerFrames) /\ sent[i].size \in Nat
      /\ op \in 0..15 /\ payload \in Seq(Byte)
      /\ FrameOf(myReadStream) = [fin |-> sent[i].fin, op |-> op, payload |-> payload]
      /\ consumed' = i /\ consumed' \in 0..Len(sent) /\ myReadStream' \in Seq(Field)
      /\ UNCHANGED <<myHasClosed, news, peer, texts>>
      /\ pc = "parsing" /\ ~crashed /\ ~myHasFailed /\ ~myHasClosed
      /\ Reading'
  BY <1>1, NextFrame
<1>3. /\ ~sent[i].fin
      /\ myFragmentedOpCode' = IF op # Opcode.Continuation THEN op ELSE myFragmentedOpCode
      /\ myFragments' = Append(myFragments, payload)
  BY <1>1, <1>2
<1>4. /\ Deliveries(sent, consumed, delivered) /\ Answering(sent, consumed, answers)
      /\ Keeping(sent, consumed, myFragments) /\ delivered \in Seq(Message) /\ answers \in Seq(Message)
      /\ myFragments \in Seq(Seq(Byte))
  BY <1>2 DEF IInv, Types, Delivering, Replying, Collecting
<1> HIDE DEF i, op, payload
<1>5. Deliveries(sent, i, delivered)
  BY <1>2, <1>3, <1>4, NoneDelivered DEF i
<1>6. Answering(sent, i, answers)
  BY <1>2, <1>3, <1>4, NoneAnswered DEF i
<1>7. Keeping(sent, i, Append(myFragments, payload))
  BY <1>2, <1>3, <1>4, OneKept DEF i, payload
<1>8. Types'
  <2>1. myFragments' \in Seq(Seq(Byte))
    BY <1>2, <1>3, <1>4
  <2>2. \A k \in 1..Len(myFragments') : myFragments'[k] \in Seq([kind : {"byte"}, value : Nat, masked : BOOLEAN])
    BY <2>1 DEF Byte, Flag
  <2>3. myFragmentedOpCode' \in 0..15
    BY <1>2, <1>3 DEF IInv, Types, TypeOK
  <2>4. QED
    BY <1>1, <1>2, <2>1, <2>2, <2>3 DEF IInv, Types, TypeOK, peer
<1>9. Delivering' /\ Replying' /\ Collecting'
  BY <1>1, <1>2, <1>3, <1>5, <1>6, <1>7 DEF Delivering, Replying, Collecting, peer
<1>10. Writing'
  BY <1>1 DEF IInv, Writing
<1>11. QED
  BY <1>2, <1>8, <1>9, <1>10 DEF IInv

LEMMA LastWithoutOthersKeeps ==
  ASSUME IInv, LastWithoutOthers
  PROVE  IInv'
<1> DEFINE i == consumed + 1
           op == sent[i].op
<1>1. /\ Frame /\ FrameOf(myReadStream).fin /\ FrameOf(myReadStream).op = Opcode.Continuation
      /\ \/ crashed' = TRUE /\ UNCHANGED <<pc, myHasFailed>>
         \/ Fail /\ UNCHANGED crashed
      /\ UNCHANGED <<fragments, delivered, myWriteStream, answers>>
  BY DEF LastWithoutOthers
<1>2. /\ i \in 1..Len(sent) /\ consumed \in Nat /\ sent \in Seq(PeerFrames)
      /\ FrameOf(myReadStream) = [fin |-> sent[i].fin, op |-> op, payload |-> Bytes(i, sent[i].size, sent[i].masked)]
      /\ consumed' = i /\ consumed' \in 0..Len(sent) /\ myReadStream' \in Seq(Field)
      /\ UNCHANGED <<myHasClosed, news, peer, texts>>
      /\ pc = "parsing" /\ ~crashed /\ ~myHasFailed /\ ~myHasClosed
      /\ Reading'
  BY <1>1, NextFrame
<1>3. op = Opcode.Continuation
  BY <1>1, <1>2
<1>4. /\ Deliveries(sent, consumed, delivered) /\ Answering(sent, consumed, answers)
      /\ delivered \in Seq(Message) /\ answers \in Seq(Message)
  BY DEF IInv, Types, Delivering, Replying
<1>5. op \notin Texts \cup Requests
  BY <1>3 DEF Texts, Requests, Opcode
<1> HIDE DEF i, op
<1>6. Deliveries(sent, i, delivered)
  BY <1>2, <1>4, <1>5, NoneDelivered DEF i, op
<1>7. Answering(sent, i, answers)
  BY <1>2, <1>4, <1>5, NoneAnswered DEF i, op
<1>8. /\ crashed' \in BOOLEAN /\ myHasFailed' \in BOOLEAN /\ pc' \in {"idle", "parsing", "firing"}
      /\ pc' # "idle" => ~myHasFailed'
      /\ myHasFailed' \/ crashed'
  <2>1. myHasFailed \in BOOLEAN /\ crashed \in BOOLEAN
    BY DEF IInv, Types, TypeOK
  <2>2. CASE crashed' = TRUE /\ UNCHANGED <<pc, myHasFailed>>
    <3>1. pc' = "parsing" /\ ~myHasFailed' /\ myHasFailed' \in BOOLEAN
      BY <1>2, <2>1, <2>2, Zenon
    <3>2. QED
      BY <2>2, <3>1
  <2>3. CASE Fail /\ UNCHANGED crashed
    BY <2>1, <2>3 DEF Fail
  <2>4. QED
    BY <1>1, <2>2, <2>3
<1>9. Types'
  BY <1>1, <1>2, <1>8 DEF IInv, Types, TypeOK, fragments, peer
<1>10. Delivering' /\ Replying' /\ Collecting'
  BY <1>1, <1>2, <1>6, <1>7, <1>8 DEF Delivering, Replying, Collecting, peer
<1>11. Writing'
  BY <1>1 DEF IInv, Writing
<1>12. QED
  BY <1>2, <1>9, <1>10, <1>11 DEF IInv

LEMMA LastFragmentKeeps ==
  ASSUME IInv, LastFragment
  PROVE  IInv'
<1> DEFINE i == consumed + 1
           op == sent[i].op
           whole == FlattenSeq(myFragments)
<1>1. /\ Frame /\ FrameOf(myReadStream).fin /\ FrameOf(myReadStream).op = Opcode.Continuation
      /\ UNCHANGED crashed
      /\ IF Len(whole) = myTotalFragmentSize
         THEN /\ myFragmentedOpCode' = Opcode.INVALID /\ myTotalFragmentSize' = 0 /\ myFragments' = <<>>
              /\ HandleFrame(myFragmentedOpCode, whole)
         ELSE Fail /\ UNCHANGED <<fragments, delivered, myWriteStream, answers>>
  BY DEF LastFragment
<1>2. /\ i \in 1..Len(sent) /\ consumed \in Nat /\ sent \in Seq(PeerFrames)
      /\ FrameOf(myReadStream) = [fin |-> sent[i].fin, op |-> op, payload |-> Bytes(i, sent[i].size, sent[i].masked)]
      /\ consumed' = i /\ consumed' \in 0..Len(sent) /\ myReadStream' \in Seq(Field)
      /\ UNCHANGED <<myHasClosed, news, peer, texts>>
      /\ pc = "parsing" /\ ~crashed /\ ~myHasFailed /\ ~myHasClosed
      /\ Reading'
  BY <1>1, NextFrame
<1>3. op = Opcode.Continuation /\ EndsAt(sent, i)
  BY <1>1, <1>2 DEF EndsAt
<1>4. /\ Deliveries(sent, consumed, delivered) /\ Answering(sent, consumed, answers)
      /\ delivered \in Seq(Message) /\ answers \in Seq(Message)
  BY DEF IInv, Types, Delivering, Replying
<1>5. op \notin Texts \cup Requests
  BY <1>3 DEF Texts, Requests, Opcode
<1> HIDE DEF i, op, whole
<1>6. CASE Len(whole) = myTotalFragmentSize
  <2>1. whole \in Seq(Byte) /\ whole = <<>> /\ myFragmentedOpCode \in 0..15
    <3>1. whole \in Seq(Byte)
      BY FlattenType DEF IInv, Types, whole
    <3>2. Len(whole) = 0
      BY <1>6 DEF IInv, Types
    <3>3. QED
      BY <3>1, <3>2, EmptySeq DEF IInv, Types, TypeOK
  <2>2. HandleFrame(myFragmentedOpCode, whole)
    BY <1>1, <1>6
  <2>3. /\ delivered' \in Seq(Message) /\ answers' \in Seq(Message) /\ myWriteStream' \in Seq(Field)
        /\ Writing'
        /\ pc' \in {"idle", "parsing", "firing"} /\ myHasFailed' \in BOOLEAN
        /\ pc' # "idle" => ~myHasFailed'
        /\ \/ Fired(myFragmentedOpCode, whole) /\ answers' = answers
           \/ Sent(Answer(myFragmentedOpCode), whole) /\ delivered' = delivered
           \/ UNCHANGED <<delivered, answers>>
    BY <1>2, <2>1, <2>2, Handled
  <2>4. Deliveries(sent, i, delivered')
    <3>1. Deliveries(sent, i, delivered) /\ \A m \in Message : m.payload = <<>> => Deliveries(sent, i, Append(delivered, m))
      BY <1>2, <1>4, <1>5, NoneDelivered DEF i, op
    <3>2. CASE Fired(myFragmentedOpCode, whole)
      BY <2>1, <3>1, <3>2 DEF Fired
    <3>3. CASE delivered' = delivered
      BY <3>1, <3>3
    <3>4. QED
      BY <2>3, <3>2, <3>3
  <2>5. Answering(sent, i, answers')
    <3>1. Answering(sent, i, answers)
      BY <1>2, <1>4, <1>5, NoneAnswered DEF i, op
    <3>2. CASE Sent(Answer(myFragmentedOpCode), whole)
      <4> DEFINE m == [op |-> Answer(myFragmentedOpCode), payload |-> whole]
      <4>1. m \in Message /\ m.payload = <<>> /\ answers' = Append(answers, m)
        BY <2>1, <3>2 DEF Sent
      <4> HIDE DEF m
      <4>2. QED
        BY <1>4, <3>1, <4>1, NothingToAnswer
    <3>3. CASE answers' = answers
      BY <3>1, <3>3
    <3>4. QED
      BY <2>3, <3>2, <3>3
  <2>6. /\ myFragmentedOpCode' = Opcode.INVALID /\ myTotalFragmentSize' = 0 /\ myFragments' = <<>>
    BY <1>1, <1>6
  <2>7. Keeping(sent, i, myFragments')
    BY <1>2, <1>3, <2>6, AllPutTogether DEF i
  <2>8. Types'
    <3>1. myFragments' \in Seq(Seq(Byte)) /\ Len(myFragments') = 0
      BY <2>6, EmptySeq
    <3>2. \A k \in 1..Len(myFragments') : myFragments'[k] \in Seq([kind : {"byte"}, value : Nat, masked : BOOLEAN])
      BY <3>1
    <3>3. myFragmentedOpCode' \in 0..15 /\ myTotalFragmentSize' \in Nat
      BY <2>6 DEF Opcode
    <3>4. QED
      BY <1>1, <1>2, <2>3, <2>6, <3>1, <3>2, <3>3 DEF IInv, Types, TypeOK, peer
  <2>9. Delivering' /\ Replying' /\ Collecting'
    BY <1>2, <2>4, <2>5, <2>7 DEF Delivering, Replying, Collecting, peer
  <2>10. QED
    BY <1>2, <2>3, <2>8, <2>9 DEF IInv
<1>7. CASE Len(whole) # myTotalFragmentSize
  <2>1. Fail /\ UNCHANGED <<fragments, delivered, myWriteStream, answers>>
    BY <1>1, <1>7
  <2>2. Deliveries(sent, i, delivered)
    BY <1>2, <1>4, <1>5, NoneDelivered DEF i, op
  <2>3. Answering(sent, i, answers)
    BY <1>2, <1>4, <1>5, NoneAnswered DEF i, op
  <2>4. Types'
    BY <1>1, <1>2, <2>1 DEF IInv, Types, TypeOK, fragments, peer, Fail
  <2>5. Delivering' /\ Replying' /\ Collecting'
    BY <1>2, <2>1, <2>2, <2>3 DEF Delivering, Replying, Collecting, peer, Fail
  <2>6. Writing'
    BY <2>1 DEF IInv, Writing
  <2>7. QED
    BY <1>2, <2>4, <2>5, <2>6 DEF IInv
<1>8. QED
  BY <1>6, <1>7

LEMMA NextInv ==
  ASSUME IInv, [Next]_vars
  PROVE  IInv'
<1>0. myHasFailed \in BOOLEAN /\ crashed \in BOOLEAN /\ news \in BOOLEAN /\ pc \in {"idle", "parsing", "firing"} /\ (pc # "idle" => ~myHasFailed /\ ~myHasClosed)
  BY DEF IInv, Types, TypeOK
<1>1. CASE Update
  BY <1>0, <1>1, IdleKeeps DEF Update, Idle
<1>2. CASE ParseNothing
  BY <1>0, <1>2, IdleKeeps DEF ParseNothing, Idle
<1>3. CASE ParseMalformed
  BY <1>0, <1>3, IdleKeeps DEF ParseMalformed, Idle
<1>4. CASE ParseTooLong
  BY <1>0, <1>4, IdleKeeps DEF ParseTooLong, Idle
<1>5. CASE WholeFrame
  BY <1>5, WholeFrameKeeps
<1>6. CASE OpenFragment
  BY <1>6, OpenFragmentKeeps
<1>7. CASE LastWithoutOthers
  BY <1>7, LastWithoutOthersKeeps
<1>8. CASE LastFragment
  BY <1>8, LastFragmentKeeps
<1>9. CASE CallbackReturns
  BY <1>0, <1>9, IdleKeeps DEF CallbackReturns, Idle
<1>10. CASE \E size \in Sizes : SendText(size)
  BY <1>10, SendTextKeeps
<1>11. CASE \E frame \in PeerFrames : PeerSends(frame)
  BY <1>11, PeerSendsKeeps
<1>12. CASE \E n \in 1..Len(wire) : Arrive(n)
  BY <1>12, ArriveKeeps
<1>13. CASE UNCHANGED vars
  BY <1>0, <1>13, IdleKeeps DEF vars, Idle
<1>14. QED
  BY <1>1, <1>2, <1>3, <1>4, <1>5, <1>6, <1>7, <1>8, <1>9, <1>10, <1>11, <1>12, <1>13
     DEF Next, TryParseFrame

\* The invariant of Websocket: what has arrived and what has not are exactly the
\* frames that have not been read; what is delivered, answered and kept is what
\* has been read, still masked if it came masked (Websocket.cpp:96-106); what is
\* written is what has been answered.
THEOREM Invariance == Spec => []IInv
<1>1. Init => IInv
  BY InitInv
<1>2. IInv /\ [Next]_vars => IInv'
  BY NextInv
<1>3. QED
  BY <1>1, <1>2, PTL DEF Spec

-----------------------------------------------------------------------------
(* What follows from it *)

LEMMA Ordered ==
  ASSUME IInv
  PROVE  HandledInOrder
<1>1. sent \in Seq(PeerFrames) /\ consumed \in 0..Len(sent) /\ Delivering /\ Replying
  BY DEF IInv, Types, TypeOK
<1>2. \A i \in 1..consumed : i \in 1..Len(sent)
  BY <1>1
<1>3. ASSUME NEW i \in 1..consumed
      PROVE  /\ Received(sent)[i] = [op |-> sent[i].op, payload |-> Payload(i)]
             /\ Answered(sent)[i] = [op |-> Answer(sent[i].op), payload |-> Payload(i)]
  BY <1>2 DEF Received, Answered, Payload
<1>4. WholeMessages(Texts) = Whole(sent, consumed, Texts) /\ WholeMessages(Requests) = Whole(sent, consumed, Requests)
  BY DEF WholeMessages, Whole
<1>5. WholeMessages(Texts) \subseteq 1..consumed /\ WholeMessages(Requests) \subseteq 1..consumed
  BY DEF WholeMessages
<1>6. DeliveredInOrder
  <2>1. PICK from \in [Filled(delivered) -> WholeMessages(Texts)] :
          /\ Enumerates(from, WholeMessages(Texts))
          /\ \A k \in Filled(delivered) : delivered[k] = Received(sent)[from[k]]
    BY <1>1, <1>4 DEF Delivering, Deliveries, Shows
  <2>2. ASSUME NEW k \in Filled(delivered)
        PROVE  delivered[k] = [op |-> sent[from[k]].op, payload |-> Payload(from[k])]
    <3>1. from[k] \in 1..consumed
      BY <1>5
    <3>2. QED
      BY <1>3, <2>1, <3>1
  <2>3. QED
    BY <2>1, <2>2, Zenon DEF DeliveredInOrder, Filled, Texts
<1>7. AnsweredInOrder
  <2>1. PICK from \in [Replies(answers) -> WholeMessages(Requests)] :
          /\ Enumerates(from, WholeMessages(Requests))
          /\ \A k \in Replies(answers) : answers[k] = Answered(sent)[from[k]]
    BY <1>1, <1>4 DEF Replying, Answering, Shows
  <2>2. ASSUME NEW k \in Replies(answers)
        PROVE  answers[k] = [op |-> Answer(sent[from[k]].op), payload |-> Payload(from[k])]
    <3>1. from[k] \in 1..consumed
      BY <1>5
    <3>2. QED
      BY <1>3, <2>1, <3>1
  <2>3. QED
    BY <2>1, <2>2, Zenon DEF AnsweredInOrder, Replies, Requests
<1>8. QED
  BY <1>6, <1>7 DEF HandledInOrder

LEMMA FragmentsKept ==
  ASSUME IInv
  PROVE  FragmentsAreTheOpenMessage
<1>1. sent \in Seq(PeerFrames) /\ consumed \in 0..Len(sent) /\ Collecting /\ TypeOK
  BY DEF IInv, Types, TypeOK
<1> DEFINE Closes(i) == sent[i].fin /\ sent[i].op = Opcode.Continuation
           open == {i \in 1..consumed : ~sent[i].fin /\ \A j \in i..consumed : ~Closes(j)}
<1>2. open = Open(sent, consumed) /\ open \subseteq 1..consumed
  BY DEF Open, EndsAt
<1>3. ASSUME NEW i \in 1..consumed PROVE Kept(sent)[i] = Payload(i)
  <2>1. i \in 1..Len(sent)
    BY <1>1
  <2>2. QED
    BY <2>1 DEF Kept, Payload
<1> HIDE DEF open
<1>4. ASSUME ~myHasFailed, ~crashed
      PROVE  \E from \in [DOMAIN myFragments -> open] :
               /\ Enumerates(from, open)
               /\ \A k \in DOMAIN myFragments : myFragments[k] = Payload(from[k])
  <2>1. PICK from \in [DOMAIN myFragments -> open] :
          /\ Enumerates(from, open)
          /\ \A k \in DOMAIN myFragments : myFragments[k] = Kept(sent)[from[k]]
    BY <1>1, <1>2, <1>4 DEF Collecting, Keeping, Shows
  <2>2. ASSUME NEW k \in DOMAIN myFragments PROVE myFragments[k] = Payload(from[k])
    <3>1. from[k] \in 1..consumed
      BY <1>2
    <3>2. QED
      BY <1>3, <2>1, <3>1
  <2>3. QED
    BY <2>1, <2>2
<1>5. QED
  BY <1>1, <1>4, Zenon DEF FragmentsAreTheOpenMessage, open

\* However the bytes of the peer arrive, whatever frames it sends between them and
\* whatever texts the program sends: its messages are delivered and its requests
\* are answered once, in order, each with the payload bytes that came with it.  No
\* mask has been applied to them (Websocket.cpp:96-106).
THEOREM OncePerMessage == Spec => []HandledInOrder
<1>1. IInv => HandledInOrder
  BY Ordered
<1>2. QED
  BY <1>1, Invariance, PTL

\* The frames that SendFrame writes can be read back by the reader of TryParseFrame,
\* for every payload and at every length at which the encoding changes.
THEOREM ReadableByAPeer == Spec => []WrittenIsReadable
<1>1. IInv => WrittenIsReadable
  BY WhatIsWrittenIsReadable DEF IInv, Types, Writing
<1>2. QED
  BY <1>1, Invariance, PTL

\* The fragments that are kept are those of the message that is open, in order,
\* as long as the websocket has not failed.
THEOREM NoFragmentOfAnother == Spec => []FragmentsAreTheOpenMessage
<1>1. IInv => FragmentsAreTheOpenMessage
  BY FragmentsKept
<1>2. QED
  BY <1>1, Invariance, PTL

\* No step of a websocket that has failed delivers anything or reads a frame, and
\* none makes it well again.
THEOREM FailureIsFinal == Spec => FailedIsFinal
<1>1. IInv /\ [Next]_vars => [myHasFailed => myHasFailed' /\ UNCHANGED <<delivered, consumed>>]_vars
  <2> SUFFICES ASSUME IInv, Next, myHasFailed
               PROVE  myHasFailed' /\ UNCHANGED <<delivered, consumed>>
    OBVIOUS
  <2>0. pc = "idle"
    BY DEF IInv, Types
  <2>1. CASE Update
    BY <2>1 DEF Update
  <2>2. CASE TryParseFrame
    BY <2>0, <2>2 DEF TryParseFrame, ParseNothing, ParseMalformed, ParseTooLong, WholeFrame,
                      OpenFragment, LastWithoutOthers, LastFragment, Frame
  <2>3. CASE CallbackReturns
    BY <2>0, <2>3 DEF CallbackReturns
  <2>4. CASE \E size \in Sizes : SendText(size)
    BY <2>4 DEF SendText
  <2>5. CASE \E frame \in PeerFrames : PeerSends(frame)
    BY <2>5 DEF PeerSends
  <2>6. CASE \E n \in 1..Len(wire) : Arrive(n)
    BY <2>6 DEF Arrive
  <2>7. QED
    BY <2>1, <2>2, <2>3, <2>4, <2>5, <2>6 DEF Next
<1>2. QED
  BY <1>1, Invariance, PTL DEF Spec, FailedIsFinal
================================================================================
