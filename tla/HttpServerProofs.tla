---------------------------- MODULE HttpServerProofs ----------------------------
(***************************************************************************)
(* Proofs about HttpServer, for every size of a segment, every list of     *)
(* endpoints, every set of requests that PeerAssumption allows, and        *)
(* however they arrive in segments that begin between line breaks: a       *)
(* request is parsed as it was sent or not at all, takes its own bytes     *)
(* from the stream and no other, and is answered once.                     *)
(***************************************************************************)
EXTENDS HttpServer, SequenceTheorems, WellFoundedInduction, TLAPS

-----------------------------------------------------------------------------
(* Sequences that are put together *)

\* The least number that has a property, for the inductions below.
LEMMA LeastOf ==
  ASSUME NEW bad, bad \subseteq Nat, bad # {}
  PROVE  \E n \in bad : \A m \in bad : n <= m
<1>1. PICK n \in bad : \A m \in bad : <<m, n>> \notin OpToRel(<, Nat)
  BY NatLessThanWellFounded, WFMin, Zenon
<1>2. ASSUME NEW m \in bad PROVE n <= m
  <2>1. n \in Nat /\ m \in Nat
    OBVIOUS
  <2>2. ~(m < n)
    BY <1>1, <2>1, Zenon DEF OpToRel
  <2>3. QED
    BY <2>1, <2>2
<1>3. QED
  BY <1>2

\* A sequence that is cut in two.
LEMMA CutInTwo ==
  ASSUME NEW S, NEW s \in Seq(S), NEW n \in 0..Len(s)
  PROVE  /\ SubSeq(s, 1, n) \in Seq(S) /\ Len(SubSeq(s, 1, n)) = n
         /\ \A i \in 1..n : SubSeq(s, 1, n)[i] = s[i]
         /\ SubSeq(s, n + 1, Len(s)) \in Seq(S) /\ Len(SubSeq(s, n + 1, Len(s))) = Len(s) - n
         /\ \A i \in 1..(Len(s) - n) : SubSeq(s, n + 1, Len(s))[i] = s[n + i]
         /\ SubSeq(s, 1, n) \o SubSeq(s, n + 1, Len(s)) = s
<1> DEFINE front == SubSeq(s, 1, n)
           back == SubSeq(s, n + 1, Len(s))
<1>1. \A i \in 1..n : s[i] \in S
  OBVIOUS
<1>2. \A i \in (n + 1)..Len(s) : s[i] \in S
  OBVIOUS
<1>3. front \in Seq(S) /\ Len(front) = n
  BY <1>1, SubSeqProperties
<1>4. \A i \in 1..n : front[i] = s[i]
  BY <1>1
<1>5. back \in Seq(S) /\ Len(back) = Len(s) - n
  <2>1. n + 1 \in Int /\ Len(s) \in Int /\ n <= Len(s)
    OBVIOUS
  <2>2. back \in Seq(S) /\ Len(back) = IF n + 1 <= Len(s) THEN Len(s) - (n + 1) + 1 ELSE 0
    BY <1>2, <2>1, SubSeqProperties
  <2> HIDE DEF back
  <2>3. QED
    BY <2>1, <2>2
<1>6. \A i \in 1..(Len(s) - n) : back[i] = s[n + i]
  BY <1>2
<1> HIDE DEF front, back
<1>7. front \o back \in Seq(S) /\ Len(front \o back) = Len(s)
  BY <1>3, <1>5, ConcatProperties
<1>8. ASSUME NEW i \in 1..Len(s) PROVE (front \o back)[i] = s[i]
  <2>1. CASE i \in 1..n
    BY <1>3, <1>4, <1>5, <2>1
  <2>2. CASE i \notin 1..n
    <3>1. i - n \in 1..(Len(s) - n) /\ n + (i - n) = i
      BY <2>2
    <3>2. (front \o back)[i] = back[i - n]
      BY <1>3, <1>5, <2>2
    <3>3. QED
      BY <1>6, <3>1, <3>2
  <2>3. QED
    BY <2>1, <2>2
<1>9. front \o back = s
  BY <1>7, <1>8, SeqEqual
<1>10. QED
  BY <1>3, <1>4, <1>5, <1>6, <1>9 DEF front, back

\* FlattenSeq is defined by a recursive function; this is the function.
LEMMA FlattenFunction ==
  ASSUME NEW S, NEW ss \in Seq(Seq(S)), Len(ss) # 0
  PROVE  \E f : /\ f = [i \in 1..Len(ss) |-> IF i = 1 THEN ss[i] ELSE f[i - 1] \o ss[i]]
                /\ FlattenSeq(ss) = f[Len(ss)]
<1> DEFINE Good(n) == \E f : f = [i \in 1..n |-> IF i = 1 THEN ss[i] ELSE f[i - 1] \o ss[i]]
           Bad == {n \in Nat : ~Good(n)}
<1>1. Good(0)
  <2>1. [i \in 1..0 |-> 0] = [i \in 1..0 |-> IF i = 1 THEN ss[i] ELSE [j \in 1..0 |-> 0][i - 1] \o ss[i]]
    OBVIOUS
  <2>2. QED
    BY <2>1
<1>2. ASSUME NEW n \in Nat, Good(n) PROVE Good(n + 1)
  <2>1. PICK f : f = [i \in 1..n |-> IF i = 1 THEN ss[i] ELSE f[i - 1] \o ss[i]]
    BY <1>2
  <2> DEFINE g == [i \in 1..(n + 1) |-> IF i = 1 THEN ss[i] ELSE f[i - 1] \o ss[i]]
  <2>2. ASSUME NEW i \in 1..n PROVE g[i] = f[i]
    <3>1. f[i] = IF i = 1 THEN ss[i] ELSE f[i - 1] \o ss[i]
      BY <2>1
    <3>2. i \in 1..(n + 1)
      OBVIOUS
    <3> HIDE <2>1
    <3>3. QED
      BY <3>1, <3>2
  <2>3. ASSUME NEW i \in 1..(n + 1) PROVE g[i] = IF i = 1 THEN ss[i] ELSE g[i - 1] \o ss[i]
    <3>1. CASE i = 1
      BY <3>1
    <3>2. CASE i # 1
      <4>1. i - 1 \in 1..n
        BY <3>2
      <4>2. QED
        BY <2>2, <3>2, <4>1
    <3>3. QED
      BY <3>1, <3>2
  <2>4. g = [i \in 1..(n + 1) |-> IF i = 1 THEN ss[i] ELSE g[i - 1] \o ss[i]]
    BY <2>3
  <2>5. QED
    BY <2>4
<1>3. Good(Len(ss))
  <2> HIDE DEF Good
  <2>1. Len(ss) \in Nat
    OBVIOUS
  <2>2. SUFFICES ASSUME ~Good(Len(ss)) PROVE FALSE
    OBVIOUS
  <2>3. Bad # {} /\ Bad \subseteq Nat
    BY <2>1, <2>2
  <2>4. PICK n \in Bad : \A m \in Bad : n <= m
    BY <2>3, LeastOf
  <2>5. n \in Nat /\ ~Good(n)
    BY <2>4
  <2>6. n # 0
    BY <1>1, <2>5
  <2>7. n - 1 \in Nat /\ ~(n <= n - 1)
    BY <2>5, <2>6
  <2>8. Good(n - 1)
    BY <2>4, <2>7
  <2>9. Good((n - 1) + 1)
    BY <1>2, <2>7, <2>8
  <2>10. (n - 1) + 1 = n
    BY <2>5
  <2>11. QED
    BY <2>5, <2>9, <2>10
<1> DEFINE flatten == CHOOSE f : f = [i \in 1..Len(ss) |-> IF i = 1 THEN ss[i] ELSE f[i - 1] \o ss[i]]
<1>4. flatten = [i \in 1..Len(ss) |-> IF i = 1 THEN ss[i] ELSE flatten[i - 1] \o ss[i]]
  BY <1>3
<1>5. FlattenSeq(ss) = flatten[Len(ss)]
  BY DEF FlattenSeq
<1>6. QED
  BY <1>4, <1>5

LEMMA FlattenSteps ==
  ASSUME NEW S, NEW ss \in Seq(Seq(S)),
         NEW f, f = [i \in 1..Len(ss) |-> IF i = 1 THEN ss[i] ELSE f[i - 1] \o ss[i]]
  PROVE  \A i \in 1..Len(ss) : f[i] = IF i = 1 THEN ss[i] ELSE f[i - 1] \o ss[i]
OBVIOUS

LEMMA FlattenEmpty ==
  ASSUME NEW S, NEW ss \in Seq(Seq(S)), Len(ss) = 0
  PROVE  FlattenSeq(ss) = <<>>
BY DEF FlattenSeq

LEMMA FlattenType ==
  ASSUME NEW S, NEW ss \in Seq(Seq(S))
  PROVE  FlattenSeq(ss) \in Seq(S)
<1>1. CASE Len(ss) = 0
  BY <1>1, FlattenEmpty, EmptySeq
<1>2. CASE Len(ss) # 0
  <2>1. PICK f : /\ f = [i \in 1..Len(ss) |-> IF i = 1 THEN ss[i] ELSE f[i - 1] \o ss[i]]
                 /\ FlattenSeq(ss) = f[Len(ss)]
    BY <1>2, FlattenFunction
  <2>2. \A i \in 1..Len(ss) : f[i] = IF i = 1 THEN ss[i] ELSE f[i - 1] \o ss[i]
    BY <2>1, FlattenSteps
  <2> HIDE <2>1
  <2> DEFINE Bad == {n \in Nat : n \in 1..Len(ss) /\ f[n] \notin Seq(S)}
  <2>3. ASSUME Bad # {} PROVE FALSE
    <3>1. PICK n \in Bad : \A m \in Bad : n <= m
      BY <2>3, LeastOf
    <3>2. n \in 1..Len(ss) /\ f[n] \notin Seq(S) /\ ss[n] \in Seq(S)
      BY <3>1
    <3>3. n # 1
      BY <2>2, <3>2
    <3>4. n - 1 \in 1..Len(ss) /\ n - 1 \in Nat /\ ~(n <= n - 1)
      BY <3>2, <3>3
    <3>5. f[n - 1] \in Seq(S)
      BY <3>1, <3>4
    <3>6. f[n] = f[n - 1] \o ss[n]
      BY <2>2, <3>2, <3>3
    <3>7. QED
      BY <3>2, <3>5, <3>6
  <2>4. Len(ss) \in 1..Len(ss) /\ Len(ss) \in Nat
    BY <1>2
  <2>5. f[Len(ss)] \in Seq(S)
    BY <2>3, <2>4
  <2>6. QED
    BY <2>1, <2>5
<1>3. QED
  BY <1>1, <1>2

\* One more sequence at the end.
LEMMA FlattenAppend ==
  ASSUME NEW S, NEW ss \in Seq(Seq(S)), NEW e \in Seq(S)
  PROVE  FlattenSeq(Append(ss, e)) = FlattenSeq(ss) \o e
<1> DEFINE n == Len(ss)
           all == Append(ss, e)
<1>0. /\ all \in Seq(Seq(S)) /\ Len(all) = n + 1 /\ n \in Nat /\ Len(all) # 0
      /\ all[n + 1] = e /\ \A i \in 1..n : all[i] = ss[i]
  OBVIOUS
<1> HIDE DEF all
<1>1. PICK g : /\ g = [i \in 1..Len(all) |-> IF i = 1 THEN all[i] ELSE g[i - 1] \o all[i]]
               /\ FlattenSeq(all) = g[Len(all)]
  BY <1>0, FlattenFunction
<1>2. \A i \in 1..(n + 1) : g[i] = IF i = 1 THEN all[i] ELSE g[i - 1] \o all[i]
  BY <1>0, <1>1, FlattenSteps
<1>3. CASE n = 0
  <2>1. g[1] = e
    BY <1>0, <1>2, <1>3
  <2>2. FlattenSeq(ss) = <<>>
    BY <1>3, FlattenEmpty
  <2>3. <<>> \o e = e
    OBVIOUS
  <2>4. QED
    BY <1>0, <1>1, <1>3, <2>1, <2>2, <2>3 DEF all
<1>4. CASE n # 0
  <2>1. PICK f : /\ f = [i \in 1..Len(ss) |-> IF i = 1 THEN ss[i] ELSE f[i - 1] \o ss[i]]
                 /\ FlattenSeq(ss) = f[Len(ss)]
    BY <1>4, FlattenFunction
  <2>2. \A i \in 1..n : f[i] = IF i = 1 THEN ss[i] ELSE f[i - 1] \o ss[i]
    BY <2>1, FlattenSteps
  <2> DEFINE Bad == {k \in Nat : k \in 1..n /\ f[k] # g[k]}
  <2>3. ASSUME Bad # {} PROVE FALSE
    <3>1. PICK k \in Bad : \A m \in Bad : k <= m
      BY <2>3, LeastOf
    <3>2. k \in 1..n /\ f[k] # g[k] /\ k \in 1..(n + 1) /\ all[k] = ss[k]
      BY <1>0, <3>1
    <3>3. k # 1
      BY <1>2, <2>2, <3>2
    <3>4. k - 1 \in 1..n /\ k - 1 \in Nat /\ ~(k <= k - 1)
      BY <1>0, <3>2, <3>3
    <3>5. f[k - 1] = g[k - 1]
      BY <3>1, <3>4
    <3>6. QED
      BY <1>2, <2>2, <3>2, <3>3, <3>5
  <2>4. n \in 1..n /\ n \in Nat
    BY <1>0, <1>4
  <2>5. f[n] = g[n]
    BY <2>3, <2>4
  <2>6. n + 1 \in 1..(n + 1) /\ n + 1 # 1 /\ (n + 1) - 1 = n
    BY <1>0, <1>4
  <2>7. g[n + 1] = g[n] \o e
    BY <1>0, <1>2, <2>6
  <2>8. QED
    BY <1>0, <1>1, <2>1, <2>5, <2>7 DEF all
<1>5. QED
  BY <1>3, <1>4

\* In which order three sequences are put together makes no difference.
Regroups(first, middle, last) == (first \o middle) \o last = first \o (middle \o last)

LEMMA Regrouped ==
  ASSUME NEW S, NEW first \in Seq(S), NEW middle \in Seq(S), NEW last \in Seq(S)
  PROVE  Regroups(first, middle, last)
BY ConcatAssociative DEF Regroups

\* What s begins and t goes on with is a code, and the rest.
Begins(s, t, code, rest) == s \o t = code \o rest

LEMMA CutOff ==
  ASSUME NEW S, NEW first \in Seq(S), NEW middle \in Seq(S), NEW last \in Seq(S), NEW rest \in Seq(S)
  PROVE  Begins(first \o middle, last, first, rest) => middle \o last = rest
<1>1. Regroups(first, middle, last)
  BY Regrouped
<1>2. middle \o last \in Seq(S)
  BY ConcatProperties
<1>3. first \o (middle \o last) = first \o rest => middle \o last = rest
  BY <1>2, ConcatSimplifications
<1>4. QED
  BY <1>1, <1>3, Zenon DEF Begins, Regroups

\* A piece of a sequence.
LEMMA Piece ==
  ASSUME NEW S, NEW s \in Seq(S), NEW a \in 1..(Len(s) + 1), NEW n \in 0..(Len(s) + 1 - a)
  PROVE  /\ SubSeq(s, a, a - 1 + n) \in Seq(S) /\ Len(SubSeq(s, a, a - 1 + n)) = n
         /\ \A i \in 1..n : SubSeq(s, a, a - 1 + n)[i] = s[a - 1 + i]
<1>1. \A i \in a..(a - 1 + n) : s[i] \in S
  OBVIOUS
<1>2. a \in Int /\ a - 1 + n \in Int
  OBVIOUS
<1>3. SubSeq(s, a, a - 1 + n) \in Seq(S) /\ Len(SubSeq(s, a, a - 1 + n)) = n
  BY <1>1, <1>2, SubSeqProperties
<1>4. \A i \in 1..n : SubSeq(s, a, a - 1 + n)[i] = s[a - 1 + i]
  BY <1>1
<1>5. QED
  BY <1>3, <1>4

\* And at the beginning.
LEMMA FlattenOne ==
  ASSUME NEW S, NEW t \in Seq(Seq(S)), Len(t) = 1
  PROVE  FlattenSeq(t) = t[1] \o FlattenSeq(Tail(t))
<1>1. <<>> \in Seq(Seq(S)) /\ Len(<<>>) = 0
  BY EmptySeq
<1>2. t[1] \in Seq(S)
  OBVIOUS
<1>3. t = Append(<<>>, t[1])
  OBVIOUS
<1>4. Tail(t) \in Seq(Seq(S)) /\ Len(Tail(t)) = 0
  <2>1. Len(<<>>) # Len(t)
    BY <1>1
  <2>2. t # <<>>
    BY <2>1, Zenon
  <2>3. QED
    BY <2>2, HeadTailProperties
<1>5. FlattenSeq(Append(<<>>, t[1])) = FlattenSeq(<<>>) \o t[1]
  BY <1>1, <1>2, FlattenAppend
<1>6. FlattenSeq(t) = FlattenSeq(<<>>) \o t[1]
  BY <1>3, <1>5, Zenon
<1>7. FlattenSeq(<<>>) = <<>> /\ FlattenSeq(Tail(t)) = <<>>
  BY <1>1, <1>4, FlattenEmpty
<1>8. <<>> \o t[1] = t[1] /\ t[1] \o <<>> = t[1]
  BY <1>2, ConcatEmptySeq
<1>9. QED
  BY <1>6, <1>7, <1>8

LEMMA FlattenMore ==
  ASSUME NEW S, NEW u \in Seq(Seq(S)), Len(u) # 0, NEW e \in Seq(S),
         FlattenSeq(u) = u[1] \o FlattenSeq(Tail(u))
  PROVE  FlattenSeq(Append(u, e)) = u[1] \o FlattenSeq(Tail(Append(u, e)))
<1>1. u[1] \in Seq(S)
  OBVIOUS
<1>2. u # <<>> /\ Append(u, e) # <<>> /\ Append(u, e) \in Seq(Seq(S))
  OBVIOUS
<1>3. /\ Tail(u) \in Seq(Seq(S)) /\ Len(Tail(u)) = Len(u) - 1
      /\ \A i \in 1..Len(Tail(u)) : Tail(u)[i] = u[i + 1]
  BY <1>2, HeadTailProperties
<1>4. Tail(Append(u, e)) = Append(Tail(u), e)
  <2> DEFINE all == Append(u, e)
  <2>1. Len(all) = Len(u) + 1 /\ \A i \in 1..Len(all) : all[i] = IF i <= Len(u) THEN u[i] ELSE e
    OBVIOUS
  <2>2. /\ Tail(all) \in Seq(Seq(S)) /\ Len(Tail(all)) = Len(all) - 1
        /\ \A i \in 1..Len(Tail(all)) : Tail(all)[i] = all[i + 1]
    BY <1>2, HeadTailProperties
  <2> HIDE DEF all
  <2>3. Append(Tail(u), e) \in Seq(Seq(S)) /\ Len(Append(Tail(u), e)) = Len(u)
    BY <1>3
  <2>4. ASSUME NEW i \in 1..Len(u) PROVE Tail(all)[i] = Append(Tail(u), e)[i]
    <3>1. Tail(all)[i] = all[i + 1]
      BY <2>1, <2>2
    <3>2. all[i + 1] = IF i + 1 <= Len(u) THEN u[i + 1] ELSE e
      BY <2>1
    <3>3. Append(Tail(u), e)[i] = IF i <= Len(Tail(u)) THEN Tail(u)[i] ELSE e
      BY <1>3
    <3>4. CASE i = Len(u)
      <4>1. ~(i <= Len(Tail(u))) /\ ~(i + 1 <= Len(u))
        BY <1>3, <3>4
      <4>2. QED
        BY <3>1, <3>2, <3>3, <4>1, Zenon
    <3>5. CASE i # Len(u)
      <4>1. i \in 1..Len(Tail(u))
        BY <1>3, <3>5
      <4>2. Tail(u)[i] = u[i + 1]
        BY <1>3, <4>1
      <4>3. i <= Len(Tail(u)) /\ i + 1 <= Len(u)
        <5>1. i + 1 <= Len(u)
          BY <3>5
        <5>2. QED
          BY <4>1, <5>1
      <4>4. QED
        BY <3>1, <3>2, <3>3, <4>2, <4>3, Zenon
    <3>6. QED
      BY <3>4, <3>5
  <2>5. Tail(all) = Append(Tail(u), e)
    <3>1. Len(Tail(all)) = Len(Append(Tail(u), e)) /\ Len(Tail(all)) = Len(u)
      BY <2>1, <2>2, <2>3
    <3>2. QED
      BY <2>2, <2>3, <2>4, <3>1, SeqEqual
  <2>6. QED
    BY <2>5 DEF all
<1>5. FlattenSeq(Append(u, e)) = FlattenSeq(u) \o e /\ FlattenSeq(Append(Tail(u), e)) = FlattenSeq(Tail(u)) \o e
  BY <1>3, FlattenAppend
<1>6. FlattenSeq(Tail(u)) \in Seq(S)
  BY <1>3, FlattenType
<1>7. (u[1] \o FlattenSeq(Tail(u))) \o e = u[1] \o (FlattenSeq(Tail(u)) \o e)
  <2>1. PICK first \in Seq(S) : first = u[1]
    BY <1>1
  <2>2. PICK middle \in Seq(S) : middle = FlattenSeq(Tail(u))
    BY <1>6
  <2>3. Regroups(first, middle, e)
    BY Regrouped
  <2>4. QED
    BY <2>1, <2>2, <2>3, Zenon DEF Regroups
<1>8. QED
  BY <1>4, <1>5, <1>7

LEMMA FlattenCons ==
  ASSUME NEW S, NEW ss \in Seq(Seq(S)), Len(ss) # 0
  PROVE  FlattenSeq(ss) = ss[1] \o FlattenSeq(Tail(ss))
<1> DEFINE Holds(n) == \A t \in Seq(Seq(S)) : Len(t) = n => FlattenSeq(t) = t[1] \o FlattenSeq(Tail(t))
           Bad == {n \in Nat : n # 0 /\ ~Holds(n)}
<1>1. Holds(1)
  BY FlattenOne
<1>2. ASSUME NEW n \in Nat \ {0}, Holds(n) PROVE Holds(n + 1)
  <2> SUFFICES ASSUME NEW t \in Seq(Seq(S)), Len(t) = n + 1
               PROVE  FlattenSeq(t) = t[1] \o FlattenSeq(Tail(t))
    OBVIOUS
  <2> DEFINE u == SubSeq(t, 1, n)
  <2>1. u \in Seq(Seq(S)) /\ Len(u) = n /\ u[1] = t[1] /\ t[n + 1] \in Seq(S) /\ t = Append(u, t[n + 1])
    OBVIOUS
  <2> HIDE DEF u
  <2>2. FlattenSeq(u) = u[1] \o FlattenSeq(Tail(u))
    BY <1>2, <2>1
  <2>3. FlattenSeq(Append(u, t[n + 1])) = u[1] \o FlattenSeq(Tail(Append(u, t[n + 1])))
    BY <2>1, <2>2, FlattenMore
  <2>4. QED
    BY <2>1, <2>3, Zenon
<1> HIDE DEF Holds
<1>3. ASSUME Bad # {} PROVE FALSE
  <2>1. PICK n \in Bad : \A m \in Bad : n <= m
    BY <1>3, LeastOf
  <2>2. n \in Nat /\ n # 0 /\ ~Holds(n)
    BY <2>1
  <2>3. n # 1
    BY <1>1, <2>2
  <2>4. n - 1 \in Nat \ {0} /\ ~(n <= n - 1) /\ (n - 1) + 1 = n
    BY <2>2, <2>3
  <2>5. Holds(n - 1)
    BY <2>1, <2>4
  <2>6. Holds((n - 1) + 1)
    BY <1>2, <2>4, <2>5
  <2>7. QED
    BY <2>2, <2>4, <2>6
<1>4. Len(ss) \in Nat
  OBVIOUS
<1>5. Holds(Len(ss))
  BY <1>3, <1>4
<1>6. QED
  BY <1>5 DEF Holds

-----------------------------------------------------------------------------
(* The least and the greatest of a set *)

LEMMA LeastIs ==
  ASSUME NEW S, S \subseteq Nat, S # {}
  PROVE  Min(S) \in S /\ \A x \in S : Min(S) <= x
<1>1. \E n \in S : \A m \in S : n <= m
  BY LeastOf
<1>2. QED
  BY <1>1 DEF Min

LEMMA LeastIsThis ==
  ASSUME NEW S, S \subseteq Nat, NEW m \in S, \A x \in S : m <= x
  PROVE  Min(S) = m
<1>1. Min(S) \in S /\ \A x \in S : Min(S) <= x
  BY LeastIs
<1>2. Min(S) <= m /\ m <= Min(S) /\ Min(S) \in Nat /\ m \in Nat
  BY <1>1
<1> HIDE DEF Min
<1>3. QED
  BY <1>2

LEMMA GreatestIsThis ==
  ASSUME NEW S, S \subseteq Nat, NEW m \in S, \A x \in S : x <= m
  PROVE  Max(S) = m
<1>1. \A x \in S : m >= x
  OBVIOUS
<1>2. Max(S) \in S /\ \A x \in S : Max(S) >= x
  BY <1>1 DEF Max
<1>3. Max(S) >= m /\ m >= Max(S) /\ Max(S) \in Nat /\ m \in Nat
  BY <1>1, <1>2
<1>4. QED
  BY <1>3

-----------------------------------------------------------------------------
(* The text of a request *)

\* The tokens there are.
TokensOf(request) == {request.proto} \cup Range(request.headers) \cup Range(request.body)
Token == {CR, LF, NUL} \cup UNION {TokensOf(request) : request \in PeerRequests}

LEMMA RequestIs ==
  ASSUME NEW r \in PeerRequests
  PROVE  /\ r.headers \in Seq(Token) /\ r.body \in Seq(Token) /\ r.proto \in Token
         /\ r.proto \notin {CR, LF} /\ \A i \in 1..Len(r.headers) : r.headers[i] \notin {CR, LF}
         /\ \A i \in 1..Len(r.headers) : r.headers[i].kind = "length" =>
              /\ r.headers[i].name = "Content-Length" /\ r.headers[i].value \in Int
              /\ r.headers[i].value < 0 \/ r.headers[i].value = Len(r.body)
         /\ (\A i \in 1..Len(r.headers) : r.headers[i].kind # "length") => r.body = <<>>
<1>1. /\ r.headers \in Seq(Range(r.headers)) /\ r.body \in Seq(Range(r.body))
      /\ ({r.proto} \cup Range(r.headers)) \cap {CR, LF} = {}
      /\ \A header \in Range(r.headers) :
           header.kind = "length" =>
             /\ header.name = "Content-Length" /\ header.value \in Int
             /\ header.value < 0 \/ header.value = Len(r.body)
      /\ (\A header \in Range(r.headers) : header.kind # "length") => r.body = <<>>
  BY PeerAssumption
<1>2. Range(r.headers) \subseteq Token /\ Range(r.body) \subseteq Token /\ r.proto \in Token
  BY DEF Token, TokensOf
<1>3. \A h : h \in Range(r.headers) <=> \E i \in 1..Len(r.headers) : h = r.headers[i]
  BY <1>1 DEF Range
<1> HIDE DEF Token
<1>4. r.headers \in Seq(Token) /\ r.body \in Seq(Token)
  <2>1. \A i \in 1..Len(r.headers) : r.headers[i] \in Token
    BY <1>2, <1>3
  <2>2. \A i \in 1..Len(r.body) : r.body[i] \in Token
    BY <1>1, <1>2 DEF Range
  <2>3. QED
    BY <1>1, <2>1, <2>2
<1>5. \A i \in 1..Len(r.headers) : r.headers[i] \in Range(r.headers)
  BY <1>3
<1>6. r.proto \notin {CR, LF} /\ \A i \in 1..Len(r.headers) : r.headers[i] \notin {CR, LF}
  BY <1>1, <1>5
<1>7. \A i \in 1..Len(r.headers) : r.headers[i].kind = "length" =>
        /\ r.headers[i].name = "Content-Length" /\ r.headers[i].value \in Int
        /\ r.headers[i].value < 0 \/ r.headers[i].value = Len(r.body)
  BY <1>1, <1>5, Zenon
<1>8. (\A i \in 1..Len(r.headers) : r.headers[i].kind # "length") => r.body = <<>>
  <2>1. ASSUME \A i \in 1..Len(r.headers) : r.headers[i].kind # "length"
        PROVE  \A header \in Range(r.headers) : header.kind # "length"
    BY <1>3, <2>1
  <2>2. QED
    BY <1>1, <2>1, Zenon
<1>9. QED
  BY <1>2, <1>4, <1>6, <1>7, <1>8, Zenon

\* Blocks of three that are put together.
LEMMA BlocksOfThree ==
  ASSUME NEW S, NEW ss \in Seq(Seq(S)), \A i \in 1..Len(ss) : Len(ss[i]) = 3
  PROVE  /\ FlattenSeq(ss) \in Seq(S) /\ Len(FlattenSeq(ss)) = 3 * Len(ss)
         /\ \A i \in 1..Len(ss) : \A k \in 1..3 : FlattenSeq(ss)[3 * (i - 1) + k] = ss[i][k]
<1> DEFINE n == Len(ss)
           flat == FlattenSeq(ss)
<1>0. flat \in Seq(S) /\ n \in Nat
  BY FlattenType
<1>1. CASE n = 0
  <2>1. flat = <<>>
    BY <1>1, FlattenEmpty
  <2>2. Len(flat) = 0
    BY <2>1
  <2>3. QED
    BY <1>0, <1>1, <2>2
<1>2. CASE n # 0
  <2>1. PICK f : /\ f = [i \in 1..n |-> IF i = 1 THEN ss[i] ELSE f[i - 1] \o ss[i]]
                 /\ flat = f[n]
    BY <1>2, FlattenFunction
  <2>2. \A i \in 1..n : f[i] = IF i = 1 THEN ss[i] ELSE f[i - 1] \o ss[i]
    BY <2>1, FlattenSteps
  <2> HIDE DEF flat
  <2> DEFINE Good(m) == /\ f[m] \in Seq(S) /\ Len(f[m]) = 3 * m
                        /\ \A i \in 1..m : \A k \in 1..3 : f[m][3 * (i - 1) + k] = ss[i][k]
             Bad == {m \in Nat : m \in 1..n /\ ~Good(m)}
  <2>3. \A i \in 1..n : ss[i] \in Seq(S) /\ Len(ss[i]) = 3
    OBVIOUS
  <2>4. 1 \in 1..n => Good(1)
    <3>1. ASSUME 1 \in 1..n PROVE f[1] = ss[1] /\ f[1] \in Seq(S) /\ Len(f[1]) = 3
      BY <2>2, <2>3, <3>1
    <3>2. ASSUME NEW i \in 1..1, NEW k \in 1..3 PROVE 3 * (i - 1) + k = k /\ i = 1
      OBVIOUS
    <3>3. QED
      BY <3>1, <3>2
  <2>5. ASSUME NEW m \in Nat \ {0}, m + 1 \in 1..n, Good(m) PROVE Good(m + 1)
    <3>8. m + 1 # 1 /\ (m + 1) - 1 = m
      OBVIOUS
    <3>1. f[m + 1] = f[m] \o ss[m + 1]
      BY <2>2, <2>5, <3>8, Zenon
    <3> DEFINE p == f[m]
               q == ss[m + 1]
    <3>2. p \in Seq(S) /\ Len(p) = 3 * m /\ q \in Seq(S) /\ Len(q) = 3
      BY <2>3, <2>5
    <3>3. \A i \in 1..m : \A k \in 1..3 : p[3 * (i - 1) + k] = ss[i][k]
      BY <2>5
    <3>7. q = ss[m + 1]
      OBVIOUS
    <3> HIDE DEF p, q
    <3>4. p \o q \in Seq(S) /\ Len(p \o q) = 3 * (m + 1)
      <4>1. p \o q \in Seq(S) /\ Len(p \o q) = Len(p) + Len(q)
        BY <3>2, ConcatProperties
      <4>2. QED
        BY <3>2, <4>1
    <3>5. ASSUME NEW i \in 1..(m + 1), NEW k \in 1..3 PROVE (p \o q)[3 * (i - 1) + k] = ss[i][k]
      <4>1. CASE i \in 1..m
        <5>1. 3 * (i - 1) + k \in 1..Len(p)
          BY <3>2, <4>1
        <5>2. (p \o q)[3 * (i - 1) + k] = p[3 * (i - 1) + k]
          BY <3>2, <5>1
        <5>3. QED
          BY <3>3, <4>1, <5>2
      <4>2. CASE i = m + 1
        <5>1. 3 * (i - 1) + k = Len(p) + k
          BY <3>2, <4>2
        <5>4. k \in 1..Len(q)
          BY <3>2
        <5>6. p \in Seq(S) /\ q \in Seq(S)
          BY <3>2
        <5>5. \A j \in 1..Len(q) : (p \o q)[Len(p) + j] = q[j]
          BY <5>6
        <5>2. (p \o q)[Len(p) + k] = q[k]
          BY <5>4, <5>5
        <5>3. QED
          BY <3>7, <4>2, <5>1, <5>2
      <4>3. i \in 1..m \/ i = m + 1
        OBVIOUS
      <4>4. QED
        BY <4>1, <4>2, <4>3, Zenon
    <3>6. QED
      BY <3>1, <3>4, <3>5 DEF p, q
  <2> HIDE DEF Good
  <2>6. ASSUME Bad # {} PROVE FALSE
    <3>1. PICK m \in Bad : \A o \in Bad : m <= o
      BY <2>6, LeastOf
    <3>2. m \in 1..n /\ ~Good(m)
      BY <3>1
    <3>3. m # 1
      BY <2>4, <3>2
    <3>4. m - 1 \in Nat \ {0} /\ (m - 1) + 1 = m /\ m - 1 \in 1..n /\ ~(m <= m - 1)
      BY <1>0, <3>2, <3>3
    <3>5. Good(m - 1)
      BY <3>1, <3>4
    <3>6. Good((m - 1) + 1)
      BY <2>5, <3>2, <3>4, <3>5
    <3>7. QED
      BY <3>2, <3>4, <3>6
  <2>7. n \in 1..n /\ n \in Nat
    BY <1>0, <1>2
  <2>8. Good(n)
    BY <2>6, <2>7
  <2>9. QED
    BY <2>1, <2>8 DEF Good, flat
<1>3. QED
  BY <1>1, <1>2

\* What two sequences are when they are put together.
IsJoined(j, s, t) ==
  /\ Len(j) = Len(s) + Len(t)
  /\ \A i \in 1..Len(s) : j[i] = s[i]
  /\ \A i \in 1..Len(t) : j[Len(s) + i] = t[i]

LEMMA JoinedIs ==
  ASSUME NEW S, NEW s \in Seq(S), NEW t \in Seq(S)
  PROVE  s \o t \in Seq(S) /\ IsJoined(s \o t, s, t)
<1>1. s \o t \in Seq(S) /\ Len(s \o t) = Len(s) + Len(t)
  BY ConcatProperties
<1>2. \A i \in 1..Len(s) : (s \o t)[i] = s[i]
  OBVIOUS
<1>3. \A i \in 1..Len(t) : (s \o t)[Len(s) + i] = t[i]
  OBVIOUS
<1>4. QED
  BY <1>1, <1>2, <1>3 DEF IsJoined

\* Where everything is in the code of a request.
IsRequest(c, r, n) ==
  /\ c \in Seq(Token) /\ Len(c) = 3 * n + 5 + Len(r.body)
  /\ c[1] = r.proto
  /\ \A i \in 0..n : c[3 * i + 2] = CR /\ c[3 * i + 3] = LF
  /\ \A i \in 1..n : c[3 * i + 1] = r.headers[i]
  /\ c[3 * n + 4] = CR /\ c[3 * n + 5] = LF
  /\ \A k \in 1..Len(r.body) : c[3 * n + 5 + k] = r.body[k]

LEMMA TokensAre == CR \in Token /\ LF \in Token /\ NUL \in Token /\ CR # LF /\ NUL # CR /\ NUL # LF
<1>1. CR.kind # LF.kind /\ NUL.kind # CR.kind /\ NUL.kind # LF.kind
  BY DEF CR, LF, NUL
<1>2. QED
  BY <1>1 DEF Token

LEMMA EncodeIs ==
  ASSUME NEW r \in PeerRequests
  PROVE  IsRequest(Encode(r), r, Len(r.headers))
<1> DEFINE n == Len(r.headers)
           blocks == [i \in 1..n |-> <<r.headers[i]>> \o LineBreak]
           p == <<r.proto>>
           l == LineBreak
           b == r.body
           h == FlattenSeq(blocks)
           a1 == p \o l
           a2 == a1 \o h
           a3 == a2 \o l
           a4 == a3 \o b
<1>1. /\ r.headers \in Seq(Token) /\ b \in Seq(Token) /\ r.proto \in Token /\ n \in Nat
  BY RequestIs
<1>2. l \in Seq(Token) /\ Len(l) = 2 /\ l[1] = CR /\ l[2] = LF
  BY TokensAre DEF LineBreak
<1>3. p \in Seq(Token) /\ Len(p) = 1 /\ p[1] = r.proto
  BY <1>1
<1>4. a4 = Encode(r)
  BY DEF Encode
<1>5. ASSUME NEW i \in 1..n
      PROVE  blocks[i] \in Seq(Token) /\ Len(blocks[i]) = 3 /\ blocks[i][1] = r.headers[i] /\ blocks[i][2] = CR /\ blocks[i][3] = LF
  <2> DEFINE o == <<r.headers[i]>>
  <2>1. o \in Seq(Token) /\ Len(o) = 1 /\ o[1] = r.headers[i]
    BY <1>1
  <2>2. blocks[i] = o \o l
    OBVIOUS
  <2> HIDE DEF o, l
  <2>3. o \o l \in Seq(Token) /\ IsJoined(o \o l, o, l)
    BY <1>2, <2>1, JoinedIs
  <2>4. 1 \in 1..Len(o) /\ 1 \in 1..Len(l) /\ 2 \in 1..Len(l)
    BY <1>2, <2>1
  <2>5. Len(o \o l) = 3 /\ (o \o l)[1] = o[1] /\ (o \o l)[Len(o) + 1] = l[1] /\ (o \o l)[Len(o) + 2] = l[2]
    BY <1>2, <2>1, <2>3, <2>4 DEF IsJoined
  <2>6. Len(o) + 1 = 2 /\ Len(o) + 2 = 3
    BY <2>1
  <2>7. QED
    BY <1>2, <2>1, <2>2, <2>3, <2>5, <2>6
<1>6. blocks \in Seq(Seq(Token)) /\ Len(blocks) = n /\ \A i \in 1..Len(blocks) : Len(blocks[i]) = 3
  <2>1. DOMAIN blocks = 1..n
    OBVIOUS
  <2>2. \A i \in 1..n : blocks[i] \in Seq(Token) /\ Len(blocks[i]) = 3
    BY <1>5
  <2>3. blocks = [i \in 1..n |-> blocks[i]]
    OBVIOUS
  <2> HIDE DEF blocks, l
  <2>4. blocks \in [1..n -> Seq(Token)]
    BY <2>2, <2>3
  <2> HIDE DEF n
  <2>5. blocks \in Seq(Seq(Token)) /\ Len(blocks) = n
    BY <1>1, <2>4
  <2>6. QED
    BY <2>2, <2>5
<1> HIDE DEF blocks, p, l, b
<1>7. /\ h \in Seq(Token) /\ Len(h) = 3 * n
      /\ \A i \in 1..n : \A k \in 1..3 : h[3 * (i - 1) + k] = blocks[i][k]
  <2>1. PICK ss \in Seq(Seq(Token)) : ss = blocks
    BY <1>6
  <2>2. /\ Len(ss) = n /\ \A i \in 1..Len(ss) : Len(ss[i]) = 3
    BY <1>6, <2>1
  <2>3. /\ FlattenSeq(ss) \in Seq(Token) /\ Len(FlattenSeq(ss)) = 3 * Len(ss)
        /\ \A i \in 1..Len(ss) : \A k \in 1..3 : FlattenSeq(ss)[3 * (i - 1) + k] = ss[i][k]
    BY <2>2, BlocksOfThree
  <2> HIDE DEF n
  <2>4. QED
    BY <2>1, <2>2, <2>3
<1>8. \A i \in 1..n : h[3 * i - 2] = r.headers[i] /\ h[3 * i - 1] = CR /\ h[3 * i] = LF
  <2>1. ASSUME NEW i \in 1..n PROVE h[3 * i - 2] = r.headers[i] /\ h[3 * i - 1] = CR /\ h[3 * i] = LF
    <3>1. h[3 * (i - 1) + 1] = blocks[i][1] /\ h[3 * (i - 1) + 2] = blocks[i][2] /\ h[3 * (i - 1) + 3] = blocks[i][3]
      BY <1>7
    <3>2. 3 * (i - 1) + 1 = 3 * i - 2 /\ 3 * (i - 1) + 2 = 3 * i - 1 /\ 3 * (i - 1) + 3 = 3 * i
      OBVIOUS
    <3>3. QED
      BY <1>5, <3>1, <3>2
  <2>2. QED
    BY <2>1
<1> HIDE DEF n, h
<1>9. a1 \in Seq(Token) /\ IsJoined(a1, p, l)
  BY <1>2, <1>3, JoinedIs
<1> HIDE DEF a1
<1>10. a2 \in Seq(Token) /\ IsJoined(a2, a1, h)
  BY <1>7, <1>9, JoinedIs
<1> HIDE DEF a2
<1>11. a3 \in Seq(Token) /\ IsJoined(a3, a2, l)
  BY <1>2, <1>10, JoinedIs
<1> HIDE DEF a3
<1>12. a4 \in Seq(Token) /\ IsJoined(a4, a3, b)
  BY <1>1, <1>11, JoinedIs
<1> HIDE DEF a4
<1>13. Len(a1) = 3 /\ a1[1] = r.proto /\ a1[2] = CR /\ a1[3] = LF
  <2>1. Len(a1) = 3 /\ a1[1] = p[1] /\ a1[Len(p) + 1] = l[1] /\ a1[Len(p) + 2] = l[2]
    BY <1>2, <1>3, <1>9 DEF IsJoined
  <2>2. Len(p) + 1 = 2 /\ Len(p) + 2 = 3
    BY <1>3
  <2>3. QED
    BY <1>2, <1>3, <2>1, <2>2
<1>14. Len(a2) = 3 * n + 3 /\ a2[1] = r.proto /\ a2[2] = CR /\ a2[3] = LF
  BY <1>1, <1>7, <1>10, <1>13 DEF IsJoined
<1>15. \A j \in 1..(3 * n) : a2[3 + j] = h[j]
  BY <1>7, <1>10, <1>13 DEF IsJoined
<1>16. ASSUME NEW i \in 1..n PROVE a2[3 * i + 1] = r.headers[i] /\ a2[3 * i + 2] = CR /\ a2[3 * i + 3] = LF
  <2>1. 3 * i - 2 \in 1..(3 * n) /\ 3 * i - 1 \in 1..(3 * n) /\ 3 * i \in 1..(3 * n)
    BY <1>1
  <2>2. a2[3 + (3 * i - 2)] = h[3 * i - 2] /\ a2[3 + (3 * i - 1)] = h[3 * i - 1] /\ a2[3 + 3 * i] = h[3 * i]
    BY <1>15, <2>1
  <2>3. 3 + (3 * i - 2) = 3 * i + 1 /\ 3 + (3 * i - 1) = 3 * i + 2 /\ 3 + 3 * i = 3 * i + 3
    BY <1>1
  <2>4. QED
    BY <1>8, <2>2, <2>3
<1>17. /\ Len(a3) = 3 * n + 5
       /\ \A j \in 1..(3 * n + 3) : a3[j] = a2[j]
       /\ a3[3 * n + 4] = CR /\ a3[3 * n + 5] = LF
  <2>1. Len(a3) = 3 * n + 5 /\ (\A j \in 1..(3 * n + 3) : a3[j] = a2[j])
    BY <1>1, <1>2, <1>11, <1>14 DEF IsJoined
  <2>2. a3[Len(a2) + 1] = l[1] /\ a3[Len(a2) + 2] = l[2]
    BY <1>2, <1>11 DEF IsJoined
  <2>3. Len(a2) + 1 = 3 * n + 4 /\ Len(a2) + 2 = 3 * n + 5
    BY <1>1, <1>14
  <2>4. QED
    BY <1>2, <2>1, <2>2, <2>3
<1>18. /\ Len(a4) = 3 * n + 5 + Len(b)
       /\ \A j \in 1..(3 * n + 5) : a4[j] = a3[j]
       /\ \A k \in 1..Len(b) : a4[3 * n + 5 + k] = b[k]
  BY <1>12, <1>17 DEF IsJoined
<1>19. ASSUME NEW i \in 0..n PROVE a4[3 * i + 2] = CR /\ a4[3 * i + 3] = LF
  <2>1. 3 * i + 2 \in 1..(3 * n + 3) /\ 3 * i + 3 \in 1..(3 * n + 3) /\ 3 * i + 2 \in 1..(3 * n + 5) /\ 3 * i + 3 \in 1..(3 * n + 5)
    BY <1>1
  <2>2. a4[3 * i + 2] = a2[3 * i + 2] /\ a4[3 * i + 3] = a2[3 * i + 3]
    BY <1>17, <1>18, <2>1
  <2>3. CASE i = 0
    BY <1>14, <2>2, <2>3
  <2>4. CASE i \in 1..n
    BY <1>16, <2>2, <2>4
  <2>5. QED
    BY <1>1, <2>3, <2>4
<1>20. ASSUME NEW i \in 1..n PROVE a4[3 * i + 1] = r.headers[i]
  <2>1. 3 * i + 1 \in 1..(3 * n + 3) /\ 3 * i + 1 \in 1..(3 * n + 5)
    BY <1>1
  <2>2. QED
    BY <1>16, <1>17, <1>18, <2>1
<1>21. a4[1] = r.proto /\ a4[3 * n + 4] = CR /\ a4[3 * n + 5] = LF
  <2>1. 1 \in 1..(3 * n + 3) /\ 1 \in 1..(3 * n + 5) /\ 3 * n + 4 \in 1..(3 * n + 5) /\ 3 * n + 5 \in 1..(3 * n + 5)
    BY <1>1
  <2>2. QED
    BY <1>14, <1>17, <1>18, <2>1
<1>22. IsRequest(a4, r, n)
  BY <1>12, <1>18, <1>19, <1>20, <1>21 DEF IsRequest, b
<1>23. QED
  BY <1>4, <1>22, Zenon DEF n

-----------------------------------------------------------------------------
(* The lines of the request at the head of the stream *)

\* The stream goes on as the code of the request does, and the iterator shows
\* the line breaks that are there.
BeginsWith(r) ==
  /\ stream \in Seq(Token) /\ seen \in Seq(Token) /\ Len(seen) = Len(stream)
  /\ \A i \in 1..Len(stream) : stream[i] \in {CR, LF} => seen[i] = stream[i]
  /\ \A i \in 1..Len(stream) : i <= Len(Encode(r)) => stream[i] = Encode(r)[i]

LEMMA BreakIs ==
  ASSUME seen \in Seq(Token), NEW j \in Nat \ {0}
  PROVE  j \in Breaks <=> j + 1 <= Len(seen) /\ seen[j] = CR /\ seen[j + 1] = LF
<1>1. ASSUME j + 1 <= Len(seen)
      PROVE  SubSeq(seen, j, j + 1) = LineBreak <=> seen[j] = CR /\ seen[j + 1] = LF
  <2> DEFINE p == SubSeq(seen, j, j - 1 + 2)
             l == LineBreak
  <2>1. j \in 1..(Len(seen) + 1) /\ 2 \in 0..(Len(seen) + 1 - j)
    BY <1>1
  <2>2. p \in Seq(Token) /\ Len(p) = 2 /\ \A i \in 1..2 : p[i] = seen[j - 1 + i]
    BY <2>1, Piece
  <2>3. p[1] = seen[j] /\ p[2] = seen[j + 1]
    <3>1. j - 1 + 1 = j /\ j - 1 + 2 = j + 1
      OBVIOUS
    <3>2. p[1] = seen[j - 1 + 1] /\ p[2] = seen[j - 1 + 2]
      BY <2>2
    <3>3. QED
      BY <3>1, <3>2
  <2>4. l \in Seq(Token) /\ Len(l) = 2 /\ l[1] = CR /\ l[2] = LF
    BY TokensAre DEF LineBreak
  <2> HIDE DEF p, l
  <2>5. p = l <=> p[1] = l[1] /\ p[2] = l[2]
    <3>1. ASSUME p[1] = l[1], p[2] = l[2] PROVE p = l
      <4>1. \A i \in 1..2 : i = 1 \/ i = 2
        OBVIOUS
      <4>2. \A i \in 1..Len(p) : p[i] = l[i]
        BY <2>2, <3>1, <4>1
      <4>3. QED
        BY <2>2, <2>4, <4>2, SeqEqual
    <3>2. QED
      BY <3>1
  <2>6. j - 1 + 2 = j + 1
    OBVIOUS
  <2>7. QED
    BY <2>3, <2>4, <2>5, <2>6 DEF p, l
<1>2. j \in Breaks <=> j \in 1..(Len(seen) - 1) /\ SubSeq(seen, j, j + 1) = LineBreak
  BY DEF Breaks
<1>3. j \in 1..(Len(seen) - 1) <=> j + 1 <= Len(seen)
  BY DEF Breaks
<1>4. QED
  BY <1>1, <1>2, <1>3, Zenon

LEMMA InThrees ==
  ASSUME NEW n \in Nat, NEW j \in 1..(3 * n + 3)
  PROVE  \E i \in 0..n : j = 3 * i + 1 \/ j = 3 * i + 2 \/ j = 3 * i + 3
<1> DEFINE Behind == {i \in Nat : j <= 3 * i + 3}
<1>1. n \in Behind /\ Behind \subseteq Nat
  OBVIOUS
<1>2. PICK i \in Behind : \A m \in Behind : i <= m
  BY <1>1, LeastOf
<1>3. i \in 0..n /\ j <= 3 * i + 3
  BY <1>1, <1>2
<1>4. i = 0 \/ ~(j <= 3 * (i - 1) + 3)
  <2>1. ASSUME i # 0, i - 1 \in Behind PROVE FALSE
    BY <1>2, <1>3, <2>1
  <2>2. i # 0 => i - 1 \in Nat
    BY <1>3
  <2>3. QED
    BY <2>1, <2>2
<1>5. QED
  BY <1>3, <1>4

\* The line breaks of the head, as far as it has arrived, and no others.
LEMMA BreaksAre ==
  ASSUME NEW r \in PeerRequests, BeginsWith(r), NEW n, n = Len(r.headers)
  PROVE  /\ n \in Nat
         /\ \A i \in 0..n : 3 * i + 3 <= Len(stream) => 3 * i + 2 \in Breaks
         /\ 3 * n + 5 <= Len(stream) => 3 * n + 4 \in Breaks
         /\ \A j \in Breaks : j <= 3 * n + 3 => \E i \in 0..n : j = 3 * i + 2
         /\ Breaks \subseteq Nat /\ \A j \in Breaks : j + 1 <= Len(stream)
<1> DEFINE c == Encode(r)
<1>1. n \in Nat
  BY RequestIs
<1>2. IsRequest(c, r, n)
  BY EncodeIs
<1>3. Len(c) = 3 * n + 5 + Len(r.body) /\ Len(r.body) \in Nat
  BY <1>2, RequestIs DEF IsRequest
<1>4. /\ seen \in Seq(Token) /\ Len(seen) = Len(stream) /\ stream \in Seq(Token)
      /\ \A i \in 1..Len(stream) : stream[i] \in {CR, LF} => seen[i] = stream[i]
      /\ \A i \in 1..Len(stream) : i <= Len(c) => stream[i] = c[i]
  BY DEF BeginsWith
<1>5. /\ \A i \in 0..n : c[3 * i + 2] = CR /\ c[3 * i + 3] = LF
      /\ c[3 * n + 4] = CR /\ c[3 * n + 5] = LF
  BY <1>2 DEF IsRequest
<1> HIDE DEF c
<1>6. ASSUME NEW j \in 1..(3 * n + 5), j <= Len(stream), c[j] \in {CR, LF}
      PROVE  seen[j] = c[j]
  <2>1. j \in 1..Len(stream) /\ j <= Len(c)
    <3>1. j \in Nat /\ 1 <= j /\ j <= 3 * n + 5 /\ Len(stream) \in Nat
      BY <1>1, <1>4
    <3>2. j \in 1..Len(stream)
      BY <1>6, <3>1
    <3>3. 3 * n + 5 <= Len(c) /\ Len(c) \in Nat
      <4>1. PICK m \in Nat : Len(c) = 3 * n + 5 + m
        BY <1>3
      <4>2. QED
        BY <1>1, <4>1
    <3>4. QED
      BY <1>1, <3>1, <3>2, <3>3
  <2>2. QED
    BY <1>4, <1>6, <2>1
<1>7. ASSUME NEW i \in 0..n, 3 * i + 3 <= Len(stream) PROVE 3 * i + 2 \in Breaks
  <2>1. /\ 3 * i + 2 \in 1..(3 * n + 5) /\ 3 * i + 3 \in 1..(3 * n + 5) /\ 3 * i + 2 <= Len(stream)
        /\ 3 * i + 2 \in Nat \ {0} /\ (3 * i + 2) + 1 = 3 * i + 3
    BY <1>1, <1>4, <1>7
  <2>2. seen[3 * i + 2] = CR /\ seen[3 * i + 3] = LF
    BY <1>5, <1>6, <1>7, <2>1
  <2>3. QED
    BY <1>4, <1>7, <2>1, <2>2, BreakIs
<1>8. ASSUME 3 * n + 5 <= Len(stream) PROVE 3 * n + 4 \in Breaks
  <2>1. /\ 3 * n + 4 \in 1..(3 * n + 5) /\ 3 * n + 5 \in 1..(3 * n + 5) /\ 3 * n + 4 <= Len(stream)
        /\ 3 * n + 4 \in Nat \ {0} /\ (3 * n + 4) + 1 = 3 * n + 5
    BY <1>1, <1>4, <1>8
  <2>2. seen[3 * n + 4] = CR /\ seen[3 * n + 5] = LF
    BY <1>5, <1>6, <1>8, <2>1
  <2>3. QED
    BY <1>4, <1>8, <2>1, <2>2, BreakIs
<1>9. Breaks \subseteq Nat /\ \A j \in Breaks : j # 0
  BY <1>4 DEF Breaks
<1>10. ASSUME NEW j \in Breaks PROVE j + 1 <= Len(stream) /\ seen[j] = CR /\ seen[j + 1] = LF
  <2>1. j \in Nat \ {0}
    BY <1>9
  <2>2. QED
    BY <1>4, <2>1, BreakIs
<1>11. ASSUME NEW j \in Breaks, j <= 3 * n + 3 PROVE \E i \in 0..n : j = 3 * i + 2
  <2>1. j \in 1..(3 * n + 3) /\ j \in Nat
    BY <1>1, <1>9, <1>11
  <2>2. PICK i \in 0..n : j = 3 * i + 1 \/ j = 3 * i + 2 \/ j = 3 * i + 3
    BY <1>1, <2>1, InThrees
  <2>3. j + 1 <= Len(stream) /\ seen[j] = CR /\ seen[j + 1] = LF /\ CR # LF
    BY <1>10, TokensAre
  <2>4. CASE j = 3 * i + 1
    <3>1. j + 1 = 3 * i + 2 /\ 3 * i + 2 \in 1..(3 * n + 5)
      BY <1>1, <2>4
    <3>2. seen[3 * i + 2] = CR
      BY <1>5, <1>6, <2>3, <3>1
    <3>3. QED
      BY <2>3, <3>1, <3>2
  <2>5. CASE j = 3 * i + 3
    <3>1. 3 * i + 3 \in 1..(3 * n + 5) /\ 3 * i + 3 <= Len(stream)
      BY <1>1, <1>4, <2>1, <2>3, <2>5
    <3>2. seen[3 * i + 3] = LF
      BY <1>5, <1>6, <3>1
    <3>3. QED
      BY <2>3, <2>5, <3>2
  <2>6. QED
    BY <2>2, <2>4, <2>5
<1>12. QED
  BY <1>1, <1>7, <1>8, <1>9, <1>10, <1>11

\* The first line and the header lines, once all of them have arrived.
LEMMA LinesAre ==
  ASSUME NEW r \in PeerRequests, BeginsWith(r), EmptyLines # {}, NEW n, n = Len(r.headers)
  PROVE  /\ n \in Nat /\ 3 * n + 5 <= Len(stream)
         /\ ProtoEnd = 2 /\ HeadEnd = 3 * n + 4 /\ HeaderEnds = {3 * i + 2 : i \in 1..n}
         /\ Proto = <<r.proto>>
         /\ \A i \in 1..n : Line(3 * i + 2) = <<r.headers[i]>>
<1>1. /\ n \in Nat
      /\ \A i \in 0..n : 3 * i + 3 <= Len(stream) => 3 * i + 2 \in Breaks
      /\ 3 * n + 5 <= Len(stream) => 3 * n + 4 \in Breaks
      /\ \A j \in Breaks : j <= 3 * n + 3 => \E i \in 0..n : j = 3 * i + 2
      /\ Breaks \subseteq Nat /\ \A j \in Breaks : j + 1 <= Len(stream)
  BY BreaksAre
<1>2. Len(LineBreak) = 2
  BY DEF LineBreak
<1>3. \A j : j \in EmptyLines <=> j \in Breaks /\ j - 2 \in Breaks
  BY <1>2 DEF EmptyLines
<1>4. ASSUME NEW j \in EmptyLines PROVE 3 * n + 4 <= j
  <2>1. j \in Breaks /\ j - 2 \in Breaks /\ j \in Nat /\ j - 2 \in Nat
    BY <1>1, <1>3
  <2>2. ASSUME j <= 3 * n + 3 PROVE FALSE
    <3>1. PICK i \in 0..n : j = 3 * i + 2
      BY <1>1, <2>1, <2>2
    <3>2. j - 2 <= 3 * n + 3
      BY <1>1, <2>1, <2>2
    <3>3. PICK k \in 0..n : j - 2 = 3 * k + 2
      BY <1>1, <2>1, <3>2
    <3>4. QED
      BY <1>1, <3>1, <3>3
  <2>3. QED
    BY <1>1, <2>1, <2>2
<1>5. 3 * n + 5 <= Len(stream)
  <2>1. PICK j \in EmptyLines : TRUE
    OBVIOUS
  <2>2. j \in Nat /\ 3 * n + 4 <= j /\ j + 1 <= Len(stream)
    BY <1>1, <1>3, <1>4
  <2>3. Len(stream) \in Nat
    BY DEF BeginsWith
  <2>4. QED
    BY <1>1, <2>2, <2>3
<1>6. Len(stream) \in Nat
  BY DEF BeginsWith
<1>7. \A i \in 0..n : 3 * i + 2 \in Breaks
  BY <1>1, <1>5, <1>6
<1>8. 3 * n + 4 \in EmptyLines
  <2>1. (3 * n + 4) - 2 = 3 * n + 2 /\ n \in 0..n
    BY <1>1
  <2>2. QED
    BY <1>1, <1>3, <1>5, <1>7, <2>1
<1>9. HeadEnd = 3 * n + 4
  <2>1. EmptyLines \subseteq Nat
    BY <1>1, <1>3
  <2>2. QED
    BY <1>4, <1>8, <2>1, LeastIsThis DEF HeadEnd
<1>10. ProtoEnd = 2
  <2>1. 2 \in Breaks
    <3>1. 0 \in 0..n /\ 3 * 0 + 2 = 2
      BY <1>1
    <3>2. QED
      BY <1>7, <3>1
  <2>2. ASSUME NEW j \in Breaks PROVE 2 <= j
    <3>1. j \in Nat
      BY <1>1
    <3>2. j <= 3 * n + 3 => 2 <= j
      BY <1>1
    <3>3. QED
      BY <1>1, <3>1, <3>2
  <2>3. QED
    BY <1>1, <2>1, <2>2, LeastIsThis DEF ProtoEnd
<1>11. HeaderEnds = {3 * i + 2 : i \in 1..n}
  <2>1. \A j : j \in HeaderEnds <=> j \in Breaks /\ j # 2 /\ j < 3 * n + 4
    BY <1>9, <1>10 DEF HeaderEnds
  <2>2. ASSUME NEW j, j \in Breaks, j # 2, j < 3 * n + 4 PROVE \E i \in 1..n : j = 3 * i + 2
    <3>1. j <= 3 * n + 3
      BY <1>1, <2>2
    <3>2. PICK i \in 0..n : j = 3 * i + 2
      BY <1>1, <2>2, <3>1
    <3>3. i # 0
      BY <2>2, <3>2
    <3>4. QED
      BY <3>2, <3>3
  <2>3. ASSUME NEW i \in 1..n PROVE 3 * i + 2 \in Breaks /\ 3 * i + 2 # 2 /\ 3 * i + 2 < 3 * n + 4
    BY <1>1, <1>7
  <2>4. QED
    BY <2>1, <2>2, <2>3
<1>12. LineStart(2) = 1
  <2>1. {k \in Breaks : k < 2} = {}
    <3>1. ASSUME NEW k \in Breaks, k < 2 PROVE FALSE
      <4>1. k <= 3 * n + 3 /\ k \in Nat
        BY <1>1, <3>1
      <4>2. PICK i \in 0..n : k = 3 * i + 2
        BY <1>1, <4>1
      <4>3. QED
        BY <3>1, <4>2
    <3>2. QED
      BY <3>1
  <2>2. {1} \cup {j + Len(LineBreak) : j \in {k \in Breaks : k < 2}} = {1}
    BY <2>1
  <2>3. Max({1}) = 1
    BY GreatestIsThis
  <2>4. QED
    BY <2>2, <2>3 DEF LineStart
<1>13. ASSUME NEW i \in 1..n PROVE LineStart(3 * i + 2) = 3 * i + 1
  <2> DEFINE starts == {1} \cup {j + Len(LineBreak) : j \in {k \in Breaks : k < 3 * i + 2}}
  <2>1. \A x : x \in starts <=> x = 1 \/ \E k \in Breaks : k < 3 * i + 2 /\ x = k + 2
    BY <1>2
  <2>2. starts \subseteq Nat
    BY <1>1, <2>1
  <2>3. 3 * i + 1 \in starts
    <3>1. i - 1 \in 0..n /\ 3 * (i - 1) + 2 < 3 * i + 2 /\ 3 * i + 1 = (3 * (i - 1) + 2) + 2
      BY <1>1
    <3>2. QED
      BY <1>7, <2>1, <3>1
  <2>4. ASSUME NEW x \in starts PROVE x <= 3 * i + 1
    <3>1. CASE x = 1
      BY <3>1
    <3>2. CASE x # 1
      <4>1. PICK k \in Breaks : k < 3 * i + 2 /\ x = k + 2
        BY <2>1, <3>2
      <4>2. k \in Nat /\ k <= 3 * n + 3
        BY <1>1, <4>1
      <4>3. PICK m \in 0..n : k = 3 * m + 2
        BY <1>1, <4>2
      <4>4. QED
        BY <1>1, <4>1, <4>3
    <3>3. QED
      BY <3>1, <3>2
  <2> HIDE DEF starts
  <2>5. Max(starts) = 3 * i + 1
    BY <2>2, <2>3, <2>4, GreatestIsThis
  <2>6. QED
    BY <2>5 DEF LineStart, starts
<1>14. ASSUME NEW at \in 1..(3 * n + 1) PROVE SubSeq(stream, at, (at + 1) - 1) = <<stream[at]>>
  <2>1. at \in 1..Len(stream) /\ (at + 1) - 1 = at
    BY <1>1, <1>5, <1>6
  <2>2. stream \in Seq(Token)
    BY DEF BeginsWith
  <2>3. SubSeq(stream, at, at) = <<stream[at]>>
    <3> DEFINE p == SubSeq(stream, at, at - 1 + 1)
    <3>1. at \in 1..(Len(stream) + 1) /\ 1 \in 0..(Len(stream) + 1 - at) /\ at - 1 + 1 = at
      BY <1>6, <2>1
    <3>2. p \in Seq(Token) /\ Len(p) = 1 /\ \A i \in 1..1 : p[i] = stream[at - 1 + i]
      BY <2>2, <3>1, Piece
    <3> HIDE DEF p
    <3>3. p[1] = stream[at]
      BY <3>1, <3>2
    <3>4. p = <<stream[at]>>
      BY <3>2, <3>3
    <3>5. QED
      BY <3>1, <3>4 DEF p
  <2>4. QED
    BY <2>1, <2>3
<1>15. ASSUME NEW at \in 1..(3 * n + 1) PROVE stream[at] = Encode(r)[at]
  <2> DEFINE c == Encode(r)
  <2>4. IsRequest(c, r, n)
    BY EncodeIs
  <2>5. Len(r.body) \in Nat
    BY RequestIs
  <2> HIDE DEF c
  <2>1. Len(c) = 3 * n + 5 + Len(r.body)
    BY <2>4 DEF IsRequest
  <2>2. at \in 1..Len(stream) /\ at <= Len(c)
    <3>1. PICK m \in Nat : Len(c) = 3 * n + 5 + m
      BY <2>1, <2>5
    <3>2. at <= 3 * n + 5 /\ 3 * n + 5 <= Len(c)
      BY <1>1, <3>1
    <3>3. at \in 1..Len(stream)
      BY <1>1, <1>5, <1>6
    <3>4. QED
      BY <1>1, <3>1, <3>2, <3>3
  <2>3. QED
    BY <2>2 DEF BeginsWith, c
<1>16. Proto = <<r.proto>>
  <2>1. 1 \in 1..(3 * n + 1) /\ (1 + 1) - 1 = 2 - 1
    BY <1>1
  <2>2. Encode(r)[1] = r.proto
    BY EncodeIs DEF IsRequest
  <2>3. Proto = SubSeq(stream, 1, 2 - 1)
    BY <1>10, <1>12 DEF Proto, Line
  <2>4. SubSeq(stream, 1, (1 + 1) - 1) = <<r.proto>>
    BY <1>14, <1>15, <2>1, <2>2
  <2>5. QED
    BY <2>1, <2>3, <2>4
<1>17. ASSUME NEW i \in 1..n PROVE Line(3 * i + 2) = <<r.headers[i]>>
  <2>1. 3 * i + 1 \in 1..(3 * n + 1) /\ (3 * i + 1) + 1 = 3 * i + 2
    BY <1>1
  <2>2. Encode(r)[3 * i + 1] = r.headers[i]
    BY EncodeIs DEF IsRequest
  <2>3. Line(3 * i + 2) = SubSeq(stream, 3 * i + 1, (3 * i + 2) - 1)
    BY <1>13 DEF Line
  <2>4. SubSeq(stream, 3 * i + 1, ((3 * i + 1) + 1) - 1) = <<r.headers[i]>>
    BY <1>14, <1>15, <2>1, <2>2
  <2>5. QED
    BY <2>1, <2>3, <2>4
<1>18. QED
  BY <1>1, <1>5, <1>9, <1>10, <1>11, <1>16, <1>17

-----------------------------------------------------------------------------
(* The frame at the head of the stream *)

\* A request as FromStream gives it to the server.
FrameOf(r) == [proto   |-> r.proto,
               headers |-> {<<r.headers[j]>> : j \in 1..Len(r.headers)},
               body    |-> r.body]

\* The header lines are the headers, their keys the names.
LEMMA HeadersAre ==
  ASSUME NEW r \in PeerRequests, BeginsWith(r), HasHead, NEW n, n = Len(r.headers)
  PROVE  /\ \A i \in 1..n : r.headers[i].kind \in {"header", "length"}
         /\ \A i, j \in 1..n : r.headers[i].name = r.headers[j].name => i = j
         /\ Headers = {<<r.headers[i]>> : i \in 1..n}
<1>1. ProtoIsValid /\ EmptyLines # {} /\ HeadersAreValid
  BY DEF HasHead
<1>2. /\ n \in Nat /\ HeaderEnds = {3 * i + 2 : i \in 1..n}
      /\ \A i \in 1..n : Line(3 * i + 2) = <<r.headers[i]>>
  BY <1>1, LinesAre
<1>3. ASSUME NEW i \in 1..n
      PROVE  /\ r.headers[i].kind \in {"header", "length"}
             /\ Key(Line(3 * i + 2)) = [before |-> <<>>, name |-> r.headers[i].name]
  <2> DEFINE line == <<r.headers[i]>>
  <2>1. Line(3 * i + 2) = line /\ 3 * i + 2 \in HeaderEnds
    BY <1>2
  <2>2. Colons(line) # {}
    BY <1>1, <2>1 DEF HeadersAreValid
  <2>3. PICK k \in 1..Len(line) : line[k].kind \in {"header", "length"}
    BY <2>2 DEF Colons
  <2>4. k = 1 /\ line[1] = r.headers[i]
    OBVIOUS
  <2>5. r.headers[i].kind \in {"header", "length"}
    BY <2>3, <2>4
  <2>6. Colons(line) = {1}
    BY <2>5 DEF Colons
  <2>7. Min(Colons(line)) = 1
    BY SMTT(30), <2>6, LeastIsThis
  <2>8. SubSeq(line, 1, 1 - 1) = <<>>
    OBVIOUS
  <2>9. Key(line) = [before |-> <<>>, name |-> r.headers[i].name]
    BY <2>4, <2>7, <2>8 DEF Key
  <2>10. QED
    BY <2>1, <2>5, <2>9
<1>4. ASSUME NEW i \in 1..n, NEW j \in 1..n, r.headers[i].name = r.headers[j].name PROVE i = j
  <2>1. Key(Line(3 * i + 2)) = Key(Line(3 * j + 2))
    BY <1>3, <1>4, Zenon
  <2>2. 3 * i + 2 \in HeaderEnds /\ 3 * j + 2 \in HeaderEnds
    BY <1>2
  <2>3. 3 * i + 2 = 3 * j + 2
    BY <1>1, <2>1, <2>2, Zenon DEF HeadersAreValid
  <2>4. QED
    BY <2>3
<1>5. Headers = {<<r.headers[i]>> : i \in 1..n}
  <2>1. Headers = {Line(j) : j \in {3 * i + 2 : i \in 1..n}}
    BY <1>2 DEF Headers
  <2>2. QED
    BY <1>2, <2>1
<1>6. QED
  BY <1>3, <1>4, <1>5

\* Content-Length is the length of the body, if it is a length at all.
LEMMA LengthIs ==
  ASSUME NEW r \in PeerRequests, BeginsWith(r), HasHead, ContentLength >= 0
  PROVE  /\ ContentLength = Len(r.body)
         /\ \A i \in 1..Len(r.headers) : r.headers[i].kind = "length" => r.headers[i].value = Len(r.body)
<1> DEFINE n == Len(r.headers)
           lengths == {line \in Headers : line[1].kind = "length"}
           first == CHOOSE line \in lengths : TRUE
<1>1. /\ \A i, j \in 1..n : r.headers[i].name = r.headers[j].name => i = j
      /\ Headers = {<<r.headers[i]>> : i \in 1..n}
  BY HeadersAre
<1>2. /\ \A i \in 1..n : r.headers[i].kind = "length" =>
           /\ r.headers[i].name = "Content-Length" /\ r.headers[i].value \in Int
           /\ r.headers[i].value < 0 \/ r.headers[i].value = Len(r.body)
      /\ (\A i \in 1..n : r.headers[i].kind # "length") => r.body = <<>>
  BY RequestIs
<1>3. ContentLength = IF lengths = {} THEN 0 ELSE first[1].value
  BY DEF ContentLength
<1>4. \A h : <<h>>[1] = h
  OBVIOUS
<1>5. \A i \in 1..n : r.headers[i].kind = "length" => <<r.headers[i]>> \in lengths
  BY <1>1, <1>4
<1>6. \A line \in lengths : \E i \in 1..n : line = <<r.headers[i]>> /\ r.headers[i].kind = "length"
  BY <1>1, <1>4
<1>7. CASE lengths = {}
  <2>1. \A i \in 1..n : r.headers[i].kind # "length"
    BY <1>5, <1>7
  <2>2. r.body = <<>> /\ Len(<<>>) = 0
    BY <1>2, <2>1
  <2>3. ContentLength = 0
    BY <1>3, <1>7
  <2>4. QED
    BY <2>1, <2>2, <2>3
<1>8. CASE lengths # {}
  <2>1. first \in lengths
    BY <1>8
  <2>2. PICK k \in 1..n : first = <<r.headers[k]>> /\ r.headers[k].kind = "length"
    BY <1>6, <2>1
  <2>3. ContentLength = r.headers[k].value
    BY <1>3, <1>4, <1>8, <2>2
  <2>4. r.headers[k].value = Len(r.body)
    <3>1. r.headers[k].value \in Int /\ (r.headers[k].value < 0 \/ r.headers[k].value = Len(r.body))
      BY <1>2, <2>2
    <3>2. QED
      BY <2>3, <3>1
  <2>5. ASSUME NEW i \in 1..n, r.headers[i].kind = "length" PROVE i = k
    BY <1>1, <1>2, <2>2, <2>5
  <2>6. QED
    BY <2>3, <2>4, <2>5
<1>9. QED
  BY <1>7, <1>8

\* The frame that is found is the request, and ends where it does.
LEMMA FrameIs ==
  ASSUME NEW r \in PeerRequests, BeginsWith(r), HasFrame
  PROVE  /\ WellFormed(r) /\ FrameAtHead = FrameOf(r)
         /\ BodyEnd = Len(Encode(r)) /\ BodyEnd \in 0..Len(stream)
<1> DEFINE n == Len(r.headers)
<1>1. HasHead /\ ContentLength >= 0 /\ BodyEnd <= Len(stream)
  BY DEF HasFrame, HasLength
<1>2. ProtoIsValid /\ EmptyLines # {}
  BY <1>1 DEF HasHead
<1>3. n \in Nat /\ Proto = <<r.proto>> /\ HeadEnd = 3 * n + 4
  BY <1>2, LinesAre
<1>4. /\ \A i \in 1..n : r.headers[i].kind \in {"header", "length"}
      /\ \A i, j \in 1..n : r.headers[i].name = r.headers[j].name => i = j
      /\ Headers = {<<r.headers[i]>> : i \in 1..n}
  BY <1>1, HeadersAre
<1>5. /\ ContentLength = Len(r.body)
      /\ \A i \in 1..n : r.headers[i].kind = "length" => r.headers[i].value = Len(r.body)
  BY <1>1, LengthIs
<1>6. Proto[1] = r.proto
  BY <1>3
<1>7. WellFormed(r)
  <2>1. r.proto.kind = "proto" /\ r.proto.method \in Methods
    BY <1>2, <1>6 DEF ProtoIsValid
  <2>2. QED
    BY <1>4, <1>5, <2>1 DEF WellFormed
<1> DEFINE c == Encode(r)
<1>8. IsRequest(c, r, n)
  BY EncodeIs
<1>9. r.body \in Seq(Token)
  BY RequestIs
<1>10. PICK L \in Nat : L = Len(r.body)
  BY <1>9
<1>11. Len(LineBreak) = 2
  BY DEF LineBreak
<1> HIDE DEF n, c
<1>12. BodyAt = 3 * n + 6 /\ BodyEnd = 3 * n + 5 + L /\ Len(c) = 3 * n + 5 + L
  <2>1. Len(c) = 3 * n + 5 + L
    BY <1>8, <1>10 DEF IsRequest
  <2>2. BodyAt = 3 * n + 6
    BY <1>3, <1>11 DEF BodyAt
  <2>3. BodyEnd = (3 * n + 6) + L - 1
    BY <1>5, <1>10, <2>2, Zenon DEF BodyEnd
  <2>4. QED
    BY <1>3, <2>1, <2>2, <2>3
<1>13. stream \in Seq(Token) /\ Len(stream) \in Nat
  BY DEF BeginsWith
<1>14. BodyEnd \in 0..Len(stream)
  BY <1>1, <1>3, <1>12, <1>13
<1>15. SubSeq(stream, BodyAt, BodyEnd) = r.body
  <2> DEFINE at == 3 * n + 6
             p == SubSeq(stream, at, at - 1 + L)
  <2>1. at \in 1..(Len(stream) + 1) /\ L \in 0..(Len(stream) + 1 - at) /\ at - 1 + L = BodyEnd
    BY <1>1, <1>3, <1>12, <1>13
  <2>2. p \in Seq(Token) /\ Len(p) = L /\ \A k \in 1..L : p[k] = stream[at - 1 + k]
    BY <1>13, <2>1, Piece
  <2>3. ASSUME NEW k \in 1..L PROVE p[k] = r.body[k]
    <3>1. p[k] = stream[at - 1 + k] /\ at - 1 + k = 3 * n + 5 + k
      BY <1>3, <2>2
    <3>2. 3 * n + 5 + k \in 1..Len(stream) /\ 3 * n + 5 + k <= Len(c)
      BY <1>1, <1>3, <1>12, <1>13
    <3>3. stream[3 * n + 5 + k] = c[3 * n + 5 + k]
      BY <3>2 DEF BeginsWith, c
    <3>4. c[3 * n + 5 + k] = r.body[k]
      BY <1>8, <1>10 DEF IsRequest
    <3>5. QED
      BY <3>1, <3>3, <3>4
  <2> HIDE DEF p
  <2>4. p = r.body
    BY <1>9, <1>10, <2>2, <2>3, SeqEqual
  <2>5. QED
    BY <1>12, <2>1, <2>4 DEF p
<1>16. FrameAtHead = FrameOf(r)
  BY <1>4, <1>6, <1>15 DEF FrameAtHead, FrameOf, n
<1>17. QED
  BY <1>7, <1>12, <1>14, <1>16 DEF c

-----------------------------------------------------------------------------
(* The stream of the peer *)

\* The codes of the requests s behind the c-th.
CodesOf(s, c) == [i \in 1..(Len(s) - c) |-> Encode(s[c + i])]

\* What has arrived and what has not are the requests that have not been parsed.
Carry(r, w, s, c) == r \o w = FlattenSeq(CodesOf(s, c))

LEMMA CodesAre ==
  ASSUME NEW s \in Seq(PeerRequests), NEW c \in 0..Len(s)
  PROVE  /\ CodesOf(s, c) \in Seq(Seq(Token)) /\ Len(CodesOf(s, c)) = Len(s) - c
         /\ \A i \in 1..(Len(s) - c) : CodesOf(s, c)[i] = Encode(s[c + i])
<1>1. Len(s) - c \in Nat
  OBVIOUS
<1>2. ASSUME NEW i \in 1..(Len(s) - c) PROVE Encode(s[c + i]) \in Seq(Token)
  <2>1. s[c + i] \in PeerRequests
    OBVIOUS
  <2>2. QED
    BY <2>1, EncodeIs DEF IsRequest
<1>3. QED
  BY <1>1, <1>2 DEF CodesOf

\* The peer sends a request.
LEMMA CodesGrow ==
  ASSUME NEW s \in Seq(PeerRequests), NEW c \in 0..Len(s), NEW request \in PeerRequests
  PROVE  CodesOf(Append(s, request), c) =
           Append(CodesOf(s, c), Encode(request))
<1> DEFINE more == Append(s, request)
           n == Len(s) - c
           e == Encode(request)
<1>1. more \in Seq(PeerRequests) /\ Len(more) = Len(s) + 1 /\ more[Len(s) + 1] = request /\ \A i \in 1..Len(s) : more[i] = s[i]
  OBVIOUS
<1> HIDE DEF more
<1>2. n \in Nat /\ c \in 0..Len(more) /\ Len(more) - c = n + 1 /\ c + (n + 1) = Len(s) + 1
  BY <1>1
<1>3. /\ CodesOf(more, c) \in Seq(Seq(Token)) /\ Len(CodesOf(more, c)) = n + 1
      /\ \A i \in 1..(n + 1) : CodesOf(more, c)[i] = Encode(more[c + i])
  BY <1>1, <1>2, CodesAre
<1>4. /\ CodesOf(s, c) \in Seq(Seq(Token)) /\ Len(CodesOf(s, c)) = n
      /\ \A i \in 1..n : CodesOf(s, c)[i] = Encode(s[c + i])
  BY CodesAre
<1>5. Encode(more[c + (n + 1)]) = e
  BY <1>1, <1>2
<1>6. e \in Seq(Token)
  BY EncodeIs DEF IsRequest
<1> HIDE DEF e
<1> DEFINE a == CodesOf(s, c)
           b == CodesOf(more, c)
<1> HIDE DEF n
<1>7. ASSUME NEW i \in 1..n PROVE b[i] = a[i]
  <2>1. c + i \in 1..Len(s)
    BY DEF n
  <2>2. Encode(more[c + i]) = Encode(s[c + i])
    BY <1>1, <2>1
  <2>3. i \in 1..(n + 1)
    BY <1>2
  <2>4. QED
    BY <1>3, <1>4, <2>2, <2>3
<1>8. b[n + 1] = e
  <2>1. n + 1 \in 1..(n + 1)
    BY <1>2
  <2>2. QED
    BY <1>3, <1>5, <2>1
<1>9. a \in Seq(Seq(Token)) /\ b \in Seq(Seq(Token)) /\ Len(a) = n /\ Len(b) = n + 1
  BY <1>3, <1>4
<1> HIDE DEF a, b
<1>10. b = Append(a, e)
  BY <1>2, <1>6, <1>7, <1>8, <1>9
<1>11. QED
  BY <1>10 DEF a, b, e, more

\* A request is parsed.
LEMMA CodesShrink ==
  ASSUME NEW s \in Seq(PeerRequests), NEW c \in 0..Len(s), c # Len(s)
  PROVE  CodesOf(s, c)[1] = Encode(s[c + 1]) /\ Tail(CodesOf(s, c)) = CodesOf(s, c + 1)
<1> DEFINE a == CodesOf(s, c)
           b == CodesOf(s, c + 1)
           n == Len(s) - c
<1>1. n \in Nat /\ n > 0 /\ c + 1 \in 0..Len(s) /\ Len(s) - (c + 1) = n - 1
  OBVIOUS
<1>2. a \in Seq(Seq(Token)) /\ Len(a) = n /\ \A i \in 1..n : a[i] = Encode(s[c + i])
  BY CodesAre
<1>3. b \in Seq(Seq(Token)) /\ Len(b) = n - 1 /\ \A i \in 1..(n - 1) : b[i] = Encode(s[(c + 1) + i])
  BY <1>1, CodesAre
<1> HIDE DEF a, b, n
<1>4. a # <<>>
  <2>1. Len(<<>>) # Len(a)
    BY <1>1, <1>2
  <2>2. QED
    BY <2>1, Zenon
<1>5. /\ Tail(a) \in Seq(Seq(Token)) /\ Len(Tail(a)) = Len(a) - 1
      /\ \A i \in 1..Len(Tail(a)) : Tail(a)[i] = a[i + 1]
  BY <1>2, <1>4, HeadTailProperties
<1>6. ASSUME NEW i \in 1..Len(b) PROVE Tail(a)[i] = b[i]
  <2>1. i \in 1..Len(Tail(a)) /\ i + 1 \in 1..n /\ i \in 1..(n - 1)
    BY <1>1, <1>2, <1>3, <1>5
  <2>4. c + (i + 1) = (c + 1) + i
    OBVIOUS
  <2>2. a[i + 1] = Encode(s[c + (i + 1)]) /\ b[i] = Encode(s[(c + 1) + i])
    BY <1>2, <1>3, <2>1
  <2>3. QED
    BY <1>5, <2>1, <2>2, <2>4
<1>7. Tail(a) = b
  BY <1>1, <1>2, <1>3, <1>5, <1>6, SeqEqual
<1>8. a[1] = Encode(s[c + 1])
  <2>1. 1 \in 1..n
    BY <1>1
  <2>2. QED
    BY <1>2, <2>1
<1>9. QED
  BY <1>7, <1>8 DEF a, b
\* The peer sends a request.
LEMMA CarryOneMore ==
  ASSUME NEW s \in Seq(PeerRequests), NEW c \in 0..Len(s), NEW r \in Seq(Token), NEW w \in Seq(Token),
         Carry(r, w, s, c), NEW request \in PeerRequests
  PROVE  LET code == Encode(request)
         IN w \o code \in Seq(Token) /\ Carry(r, w \o code, Append(s, request), c)
<1> DEFINE code == Encode(request)
           a == CodesOf(s, c)
<1>1. a \in Seq(Seq(Token))
  BY CodesAre
<1>2. CodesOf(Append(s, request), c) = Append(a, code)
  BY CodesGrow
<1>3. code \in Seq(Token)
  BY EncodeIs DEF IsRequest
<1>4. r \o w = FlattenSeq(a)
  BY DEF Carry
<1> HIDE DEF code, a
<1>5. FlattenSeq(Append(a, code)) = FlattenSeq(a) \o code
  BY <1>1, <1>3, FlattenAppend
<1>6. Regroups(r, w, code)
  BY <1>3, Regrouped
<1>7. r \o (w \o code) = FlattenSeq(CodesOf(Append(s, request), c))
  BY <1>2, <1>4, <1>5, <1>6, Zenon DEF Regroups
<1>8. w \o code \in Seq(Token)
  BY <1>3, ConcatProperties
<1>9. QED
  BY <1>7, <1>8 DEF Carry, code

\* Some of it arrives.
LEMMA CarryArrives ==
  ASSUME NEW s \in Seq(PeerRequests), NEW c \in 0..Len(s), NEW r \in Seq(Token), NEW w \in Seq(Token),
         Carry(r, w, s, c), NEW n \in 1..Len(w)
  PROVE  /\ r \o SubSeq(w, 1, n) \in Seq(Token) /\ SubSeq(w, n + 1, Len(w)) \in Seq(Token)
         /\ Carry(r \o SubSeq(w, 1, n), SubSeq(w, n + 1, Len(w)), s, c)
<1>1. n \in 0..Len(w)
  OBVIOUS
<1>2. PICK a, b : a = SubSeq(w, 1, n) /\ b = SubSeq(w, n + 1, Len(w))
  OBVIOUS
<1>3. a \in Seq(Token) /\ b \in Seq(Token)
  BY <1>1, <1>2, CutInTwo
<1>8. a \o b = w
  BY <1>1, <1>2, CutInTwo
<1>4. Regroups(r, a, b)
  BY <1>3, Regrouped, Zenon
<1>5. r \o a \in Seq(Token)
  BY <1>3, ConcatProperties
<1>6. Carry(r \o a, b, s, c)
  <2>1. r \o w = FlattenSeq(CodesOf(s, c))
    BY DEF Carry
  <2>2. QED
    BY <1>8, <1>4, <2>1, Zenon DEF Carry, Regroups
<1>7. QED
  BY <1>2, <1>3, <1>5, <1>6

\* Two ways to begin the same sequence.
LEMMA BeginsAlike ==
  ASSUME NEW S, NEW s \in Seq(S), NEW t \in Seq(S), NEW code \in Seq(S), NEW rest \in Seq(S),
         Begins(s, t, code, rest)
  PROVE  \A i \in 1..Len(s) : i <= Len(code) => s[i] = code[i]
<1> SUFFICES ASSUME NEW i \in 1..Len(s), i <= Len(code) PROVE s[i] = code[i]
  OBVIOUS
<1>1. IsJoined(s \o t, s, t) /\ IsJoined(code \o rest, code, rest)
  BY JoinedIs
<1>2. s \o t = code \o rest
  BY DEF Begins
<1>3. i \in 1..Len(code)
  OBVIOUS
<1>4. (s \o t)[i] = s[i] /\ (code \o rest)[i] = code[i]
  BY <1>1, <1>3, Zenon DEF IsJoined
<1>5. QED
  BY <1>2, <1>4, Zenon

\* A frame that is found in what has arrived is the next request the peer has
\* sent, and what is behind it are the others.
LEMMA RequestIsNext ==
  ASSUME NEW s \in Seq(PeerRequests), NEW c \in 0..Len(s), NEW w \in Seq(Token), Carry(stream, w, s, c),
         stream \in Seq(Token), seen \in Seq(Token), Len(seen) = Len(stream),
         \A i \in 1..Len(stream) : stream[i] \in {CR, LF} => seen[i] = stream[i],
         HasFrame
  PROVE  /\ c + 1 \in 1..Len(s) /\ WellFormed(s[c + 1]) /\ FrameAtHead = FrameOf(s[c + 1])
         /\ BodyEnd \in 0..Len(stream)
         /\ Carry(SubSeq(stream, BodyEnd + 1, Len(stream)), w, s, c + 1)
<1>1. stream \o w = FlattenSeq(CodesOf(s, c))
  BY DEF Carry
<1>2. c # Len(s)
  <2>1. SUFFICES ASSUME c = Len(s) PROVE FALSE
    OBVIOUS
  <2>2. CodesOf(s, c) \in Seq(Seq(Token)) /\ Len(CodesOf(s, c)) = 0
    BY <2>1, CodesAre
  <2>3. stream \o w = <<>>
    BY <1>1, <2>2, FlattenEmpty
  <2>4. Len(stream) = 0 /\ Len(seen) = 0
    BY <2>3
  <2>5. Breaks = {}
    BY <2>4 DEF Breaks
  <2>6. Breaks # {}
    BY DEF HasFrame, HasLength, HasHead, ProtoIsValid
  <2>7. QED
    BY <2>5, <2>6
<1>3. c + 1 \in 1..Len(s) /\ c + 1 \in 0..Len(s)
  BY <1>2
<1>4. PICK r \in PeerRequests : r = s[c + 1]
  BY <1>3
<1> DEFINE code == Encode(r)
           rest == FlattenSeq(CodesOf(s, c + 1))
<1>5. rest \in Seq(Token)
  BY <1>3, CodesAre, FlattenType
<1>6. FlattenSeq(CodesOf(s, c)) = code \o rest
  <2>1. CodesOf(s, c) \in Seq(Seq(Token)) /\ Len(CodesOf(s, c)) # 0
    BY <1>2, CodesAre
  <2>2. FlattenSeq(CodesOf(s, c)) = CodesOf(s, c)[1] \o FlattenSeq(Tail(CodesOf(s, c)))
    BY <2>1, FlattenCons
  <2>3. CodesOf(s, c)[1] = code /\ Tail(CodesOf(s, c)) = CodesOf(s, c + 1)
    BY <1>2, <1>4, CodesShrink
  <2>4. QED
    BY <2>2, <2>3, Zenon
<1>7. Begins(stream, w, code, rest)
  BY <1>1, <1>6, Zenon DEF Begins
<1>8. code \in Seq(Token)
  BY EncodeIs DEF IsRequest
<1> HIDE DEF code, rest
<1>9. \A i \in 1..Len(stream) : i <= Len(code) => stream[i] = code[i]
  BY <1>5, <1>7, <1>8, BeginsAlike
<1>10. BeginsWith(r)
  BY <1>9 DEF BeginsWith, code
<1>11. /\ WellFormed(r) /\ FrameAtHead = FrameOf(r)
       /\ BodyEnd = Len(code) /\ BodyEnd \in 0..Len(stream)
  BY <1>10, FrameIs DEF code
<1>12. PICK a, b : a = SubSeq(stream, 1, BodyEnd) /\ b = SubSeq(stream, BodyEnd + 1, Len(stream))
  OBVIOUS
<1>13. /\ a \in Seq(Token) /\ b \in Seq(Token) /\ a \o b = stream /\ Len(a) = BodyEnd
       /\ \A i \in 1..BodyEnd : a[i] = stream[i]
  BY <1>11, <1>12, CutInTwo
<1>14. a = code
  <2>1. \A i \in 1..Len(a) : a[i] = code[i]
    BY <1>9, <1>11, <1>13
  <2>2. QED
    BY <1>8, <1>11, <1>13, <2>1, SeqEqual
<1>15. Begins(code \o b, w, code, rest)
  BY <1>7, <1>13, <1>14, Zenon
<1>16. b \o w = rest
  BY <1>5, <1>8, <1>13, <1>15, CutOff
<1>17. Carry(b, w, s, c + 1)
  BY <1>16, Zenon DEF Carry, rest
<1>18. QED
  BY <1>3, <1>4, <1>11, <1>12, <1>17

-----------------------------------------------------------------------------
(* The inductive invariant *)

\* External: no segment begins with a part of a line break. Where one does, the
\* run http_server_split shows that a request is not found.
OnlyBetweenLines == \A token : MaySplit(token) => token \notin {CR, LF}

Frame == {FrameOf(r) : r \in PeerRequests}

\* The types, the sequences included.
Types ==
  /\ TypeOK
  /\ stream \in Seq(Token) /\ seen \in Seq(Token) /\ wire \in Seq(Token)
  /\ handled \in Seq(Frame) /\ responses \in Seq([to : Nat, by : Nat])

\* What has arrived or will arrive are the requests that have not been parsed.
Pending == Carry(stream, wire, sent, Len(handled))

\* The iterator shows the line breaks, and the next segment does not begin
\* with a part of one.
Shown == \A i \in 1..Len(stream) : stream[i] \in {CR, LF} => seen[i] = stream[i]
BetweenLines == wire # <<>> => wire[1] \notin {CR, LF}

\* An endpoint that answers is one that was added for the last frame.
AtEndpoint == pc = "answering" => Len(handled) # 0 /\ Endpoint(Last(handled).proto) # Nobody

IInv == Types /\ Pending /\ Shown /\ BetweenLines /\ ParsedAsSent /\ OneResponseEach /\ AtEndpoint

\* Who answers was added for the path and the method.
Serves(i, proto) ==
  i \in 0..Len(Mappings) /\ (i # Nobody => Mappings[i].filter = proto.path /\ proto.method \in Mappings[i].methods)

LEMMA EndpointIs ==
  ASSUME NEW proto
  PROVE  Serves(Endpoint(proto), proto)
<1>1. CASE Answering(proto) = {}
  <2>1. Endpoint(proto) = Nobody /\ Nobody \in 0..Len(Mappings)
    BY <1>1, HttpServerAssumption DEF Endpoint, Nobody
  <2>2. QED
    BY <2>1 DEF Serves
<1>2. CASE Answering(proto) # {}
  <2>1. Answering(proto) \subseteq Nat
    BY DEF Answering
  <2>2. Min(Answering(proto)) \in Answering(proto)
    BY <1>2, <2>1, LeastIs
  <2>3. PICK i \in Answering(proto) : Endpoint(proto) = i
    BY <1>2, <2>2 DEF Endpoint
  <2>4. i \in 1..Len(Mappings) /\ Matches(Mappings[i], proto)
    BY <2>3 DEF Answering
  <2>5. QED
    BY <2>3, <2>4 DEF Serves, Matches
<1>3. QED
  BY <1>1, <1>2

LEMMA InitInv == Init => IInv
<1> SUFFICES ASSUME Init PROVE IInv
  OBVIOUS
<1>1. /\ stream = <<>> /\ seen = <<>> /\ wire = <<>> /\ handled = <<>> /\ responses = <<>> /\ sent = <<>>
      /\ pc = "idle" /\ news = FALSE /\ lastFull = FALSE /\ upgraded = FALSE /\ crashed = FALSE
  BY DEF Init
<1>2. Len(<<>>) = 0 /\ 1..0 = {} /\ \A S : <<>> \in Seq(S)
  BY EmptySeq
<1>3. TypeOK
  <2>1. Len(handled) = 0 /\ Len(sent) = 0 /\ Len(responses) = 0 /\ sent \in Seq(PeerRequests)
    BY <1>1, <1>2
  <2>2. \A k \in 1..Len(responses) : responses[k] \in [to : 1..Len(handled), by : 0..Len(Mappings)]
    BY <1>2, <2>1
  <2>3. Len(handled) <= Len(sent) /\ Len(stream) = Len(seen)
    BY <1>1, <2>1
  <2>4. QED
    BY <1>1, <2>1, <2>2, <2>3 DEF TypeOK
<1>4. Types
  BY <1>1, <1>2, <1>3 DEF Types
<1>5. Pending
  <2>1. sent \in Seq(PeerRequests) /\ Len(sent) = 0 /\ Len(handled) = 0 /\ 0 \in 0..Len(sent)
    BY <1>1, <1>2
  <2>2. CodesOf(sent, 0) \in Seq(Seq(Token)) /\ Len(CodesOf(sent, 0)) = Len(sent) - 0
    BY <2>1, CodesAre
  <2>3. FlattenSeq(CodesOf(sent, 0)) = <<>>
    BY <2>1, <2>2, FlattenEmpty
  <2>4. <<>> \o <<>> = <<>>
    BY ConcatEmptySeq, <1>2
  <2>5. QED
    BY <1>1, <2>1, <2>3, <2>4 DEF Pending, Carry
<1>6. Shown /\ BetweenLines
  BY <1>1, <1>2 DEF Shown, BetweenLines
<1>7. ParsedAsSent
  BY <1>1, <1>2 DEF ParsedAsSent
<1>8. OneResponseEach
  BY <1>1, <1>2, <1>3 DEF OneResponseEach
<1>9. AtEndpoint
  BY <1>1 DEF AtEndpoint
<1>10. QED
  BY <1>4, <1>5, <1>6, <1>7, <1>8, <1>9 DEF IInv

\* The buffer and the peer, and what has been done so far.
Idle == UNCHANGED <<stream, seen, handled, responses, peer>>

LEMMA IdleKeeps ==
  ASSUME IInv, Idle, lastFull' \in BOOLEAN, news' \in BOOLEAN, upgraded' \in BOOLEAN, crashed' \in BOOLEAN,
         pc' \in {"idle", "updating", "answering"}, pc' # "idle" => ~upgraded',
         pc' = "answering" <=> pc = "answering"
  PROVE  IInv'
<1>1. /\ stream' = stream /\ seen' = seen /\ handled' = handled /\ responses' = responses
      /\ sent' = sent /\ wire' = wire
  BY DEF Idle, peer
<1>2. TypeOK'
  BY <1>1 DEF IInv, Types, TypeOK
<1>3. Types'
  BY <1>1, <1>2 DEF IInv, Types
<1>4. Pending' /\ Shown' /\ BetweenLines' /\ ParsedAsSent'
  <2>1. Pending'
    BY <1>1 DEF IInv, Pending
  <2>2. Shown' /\ BetweenLines'
    BY <1>1 DEF IInv, Shown, BetweenLines
  <2>3. ParsedAsSent'
    BY <1>1 DEF IInv, ParsedAsSent
  <2>4. QED
    BY <2>1, <2>2, <2>3
<1>5. OneResponseEach'
  BY <1>1, <1>2 DEF IInv, OneResponseEach
<1>6. AtEndpoint'
  BY <1>1 DEF IInv, AtEndpoint
<1>7. QED
  BY <1>3, <1>4, <1>5, <1>6 DEF IInv

\* A response is sent for the last frame, by an endpoint that was added for it
\* or by the server.
LEMMA AnswerKeeps ==
  ASSUME IInv, Answers, NEW by, by \in {Nobody, Endpoint(Last(handled).proto)},
         responses' = Append(responses, [to |-> Len(handled), by |-> by]),
         pc' \in {"idle", "updating"}, upgraded' \in BOOLEAN, pc' # "idle" => ~upgraded'
  PROVE  IInv'
<1> DEFINE n == Len(handled)
           answer == [to |-> n, by |-> by]
<1>1. /\ stream' = stream /\ seen' = seen /\ lastFull' = lastFull /\ news' = news /\ handled' = handled
      /\ crashed' = crashed /\ sent' = sent /\ wire' = wire /\ pc = "answering"
  BY DEF Answers, buffer, peer
<1>2. /\ Types /\ TypeOK /\ Pending /\ Shown /\ BetweenLines /\ ParsedAsSent /\ OneResponseEach
      /\ Len(handled) # 0
  BY <1>1 DEF IInv, AtEndpoint, Types
<1>3. handled \in Seq(Frame) /\ responses \in Seq([to : Nat, by : Nat]) /\ n \in Nat /\ n # 0
  BY <1>2 DEF Types
<1>4. Len(responses) = n - 1
  BY <1>1, <1>2 DEF OneResponseEach
<1>5. handled[n].proto = sent[n].proto /\ Last(handled) = handled[n]
  <2>1. n \in 1..n
    BY <1>3
  <2>2. handled[n] = [proto   |-> sent[n].proto,
                      headers |-> {<<sent[n].headers[j]>> : j \in 1..Len(sent[n].headers)},
                      body    |-> sent[n].body]
    BY <1>2, <2>1 DEF ParsedAsSent
  <2>3. QED
    BY <2>2 DEF Last
<1>6. Serves(by, sent[n].proto)
  <2>1. Serves(Nobody, sent[n].proto)
    BY HttpServerAssumption DEF Serves, Nobody
  <2>2. Serves(Endpoint(sent[n].proto), sent[n].proto)
    BY EndpointIs
  <2>3. QED
    BY <1>5, <2>1, <2>2
<1>7. by \in 0..Len(Mappings) /\ Len(Mappings) \in Nat
  BY <1>6, HttpServerAssumption DEF Serves
<1>8. answer \in [to : 1..n, by : 0..Len(Mappings)] /\ answer \in [to : Nat, by : Nat]
  BY <1>3, <1>7
<1>9. /\ responses' \in Seq([to : Nat, by : Nat]) /\ Len(responses') = n
      /\ responses'[n] = answer /\ \A k \in 1..(n - 1) : responses'[k] = responses[k]
  <2> HIDE DEF answer, n
  <2>1. responses' = Append(responses, answer)
    BY DEF answer, n
  <2>2. QED
    BY <1>3, <1>4, <1>8, <2>1
<1>10. TypeOK'
  <2>1. \A k \in 1..(n - 1) : responses[k] \in [to : 1..n, by : 0..Len(Mappings)]
    BY <1>2, <1>4 DEF TypeOK
  <2>2. \A k \in 1..n : responses'[k] \in [to : 1..n, by : 0..Len(Mappings)]
    <3>1. ASSUME NEW k \in 1..n PROVE responses'[k] \in [to : 1..n, by : 0..Len(Mappings)]
      <4>1. k = n \/ k \in 1..(n - 1)
        BY <1>3
      <4> HIDE DEF answer
      <4>2. QED
        BY <1>8, <1>9, <2>1, <4>1
    <3>2. QED
      BY <3>1
  <2>3. \A k \in 1..Len(responses') : responses'[k] \in [to : 1..Len(handled'), by : 0..Len(Mappings)]
    BY <1>1, <1>9, <2>2
  <2>4. /\ Len(stream') = Len(seen') /\ lastFull' \in BOOLEAN /\ news' \in BOOLEAN /\ crashed' \in BOOLEAN
        /\ Len(handled') <= Len(sent') /\ sent' \in Seq(PeerRequests)
    BY <1>1, <1>2 DEF TypeOK
  <2>5. pc' \in {"idle", "updating", "answering"} /\ upgraded' \in BOOLEAN /\ (pc' # "idle" => ~upgraded')
    OBVIOUS
  <2>6. QED
    BY <2>3, <2>4, <2>5, Zenon DEF TypeOK
<1>11. Types'
  BY <1>1, <1>2, <1>9, <1>10 DEF Types
<1>12. Pending' /\ Shown' /\ BetweenLines' /\ ParsedAsSent'
  <2>1. Pending'
    BY <1>1, <1>2 DEF Pending
  <2>2. Shown' /\ BetweenLines'
    BY <1>1, <1>2 DEF Shown, BetweenLines
  <2>3. ParsedAsSent'
    BY <1>1, <1>2 DEF ParsedAsSent
  <2>4. QED
    BY <2>1, <2>2, <2>3
<1>13. OneResponseEach'
  <2>1. \A k \in 1..(n - 1) : responses[k].to = k /\ Serves(responses[k].by, sent[k].proto)
    <3>1. ASSUME NEW k \in 1..(n - 1) PROVE responses[k].to = k /\ Serves(responses[k].by, sent[k].proto)
      <4>1. /\ responses[k].to = k
            /\ responses[k].by # Nobody =>
                 /\ Mappings[responses[k].by].filter = sent[k].proto.path
                 /\ sent[k].proto.method \in Mappings[responses[k].by].methods
        BY <1>2, <1>4 DEF OneResponseEach
      <4>2. responses[k] \in [to : 1..n, by : 0..Len(Mappings)]
        BY <1>2, <1>4 DEF TypeOK
      <4>3. QED
        BY <4>1, <4>2 DEF Serves
    <3>2. QED
      BY <3>1
  <2>2. ASSUME NEW k \in 1..n
        PROVE  /\ responses'[k].to = k
               /\ responses'[k].by # Nobody =>
                    /\ Mappings[responses'[k].by].filter = sent[k].proto.path
                    /\ sent[k].proto.method \in Mappings[responses'[k].by].methods
    <3>1. responses'[k].to = k /\ Serves(responses'[k].by, sent[k].proto)
      <4>1. CASE k = n
        BY <1>6, <1>9, <4>1
      <4>2. CASE k # n
        <5>1. k \in 1..(n - 1)
          BY <1>3, <4>2
        <5> HIDE DEF answer
        <5>2. QED
          BY <1>9, <2>1, <5>1
      <4>3. QED
        BY <4>1, <4>2
    <3>2. QED
      BY <3>1 DEF Serves
  <2>3. Len(responses') = Len(handled') - (IF pc' = "answering" THEN 1 ELSE 0)
    BY <1>1, <1>3, <1>9
  <2>4. QED
    BY <1>1, <1>9, <1>10, <2>2, <2>3 DEF OneResponseEach
<1>14. AtEndpoint'
  BY DEF AtEndpoint
<1>15. QED
  BY <1>11, <1>12, <1>13, <1>14 DEF IInv

\* A frame is parsed: it is the next request, and nobody or the endpoint that
\* was added for it is to answer.
LEMMA ParseKeeps ==
  ASSUME IInv, Parse
  PROVE  IInv'
<1> DEFINE n == Len(handled)
           frame == FrameAtHead
           next == sent[n + 1]
<1>1. /\ pc = "updating" /\ HasFrame
      /\ handled' = Append(handled, frame)
      /\ \/ /\ Endpoint(frame.proto) = Nobody /\ responses' = Append(responses, [to |-> n + 1, by |-> Nobody])
            /\ pc' = pc
         \/ Endpoint(frame.proto) # Nobody /\ pc' = "answering" /\ responses' = responses
      /\ CommitRead
      /\ lastFull' = lastFull /\ news' = news /\ upgraded' = upgraded /\ crashed' = crashed
      /\ sent' = sent /\ wire' = wire
  BY DEF Parse, peer
<1>2. /\ Types /\ TypeOK /\ Pending /\ Shown /\ BetweenLines /\ ParsedAsSent /\ OneResponseEach
  BY DEF IInv, Types
<1>3. /\ stream \in Seq(Token) /\ seen \in Seq(Token) /\ wire \in Seq(Token) /\ Len(stream) = Len(seen)
      /\ handled \in Seq(Frame) /\ responses \in Seq([to : Nat, by : Nat]) /\ sent \in Seq(PeerRequests)
      /\ n \in 0..Len(sent) /\ n \in Nat
  BY <1>2 DEF Types, TypeOK
<1>4. Carry(stream, wire, sent, n) /\ \A i \in 1..Len(stream) : stream[i] \in {CR, LF} => seen[i] = stream[i]
  BY <1>2 DEF Pending, Shown
<1>5. /\ n + 1 \in 1..Len(sent) /\ WellFormed(next) /\ frame = FrameOf(next)
      /\ BodyEnd \in 0..Len(stream)
      /\ Carry(SubSeq(stream, BodyEnd + 1, Len(stream)), wire, sent, n + 1)
  BY <1>1, <1>3, <1>4, RequestIsNext
<1> DEFINE e == BodyEnd
           left == Len(stream) - e
<1>6. stream' = SubSeq(stream, e + 1, Len(stream)) /\ seen' = SubSeq(seen, e + 1, Len(seen))
  BY <1>1 DEF CommitRead
<1> HIDE DEF frame, e
<1>7. e \in 0..Len(stream) /\ e \in 0..Len(seen) /\ left \in Nat
  BY <1>3, <1>5 DEF e
<1>8. /\ stream' \in Seq(Token) /\ Len(stream') = left
      /\ \A i \in 1..left : stream'[i] = stream[e + i]
  BY <1>3, <1>6, <1>7, CutInTwo
<1>9. /\ seen' \in Seq(Token) /\ Len(seen') = left
      /\ \A i \in 1..left : seen'[i] = seen[e + i]
  BY <1>3, <1>6, <1>7, CutInTwo
<1>10. next \in PeerRequests /\ frame \in Frame
  <2>1. next \in PeerRequests
    BY <1>3, <1>5
  <2>2. QED
    BY <1>5, <2>1 DEF Frame
<1>11. /\ handled' \in Seq(Frame) /\ Len(handled') = n + 1
       /\ handled'[n + 1] = frame /\ \A i \in 1..n : handled'[i] = handled[i]
  BY <1>1, <1>3, <1>10
<1>12. pc' \in {"idle", "updating", "answering"} /\ (pc' = "answering" <=> Endpoint(frame.proto) # Nobody)
  BY <1>1
<1>13. frame.proto = next.proto
  BY <1>5 DEF FrameOf
<1>14. Len(responses) = n
  BY <1>1, <1>2, <1>3 DEF OneResponseEach
<1> DEFINE m == IF pc' = "answering" THEN n ELSE n + 1
<1>15. /\ responses' \in Seq([to : Nat, by : Nat]) /\ Len(responses') = m
       /\ \A k \in 1..n : responses'[k] = responses[k]
       /\ \A k \in 1..m : k \in 1..n \/ responses'[k] = [to |-> k, by |-> Nobody]
  <2> HIDE DEF n
  <2>1. CASE pc' = "answering"
    <3>1. responses' = responses
      BY <1>1, <2>1
    <3>2. QED
      BY <1>3, <1>14, <2>1, <3>1
  <2>2. CASE pc' # "answering"
    <3> DEFINE answer == [to |-> n + 1, by |-> Nobody]
    <3>1. responses' = Append(responses, answer)
      BY <1>1, <2>2
    <3>2. answer \in [to : Nat, by : Nat]
      BY <1>3 DEF Nobody
    <3> HIDE DEF answer
    <3>3. /\ responses' \in Seq([to : Nat, by : Nat]) /\ Len(responses') = n + 1
          /\ \A k \in 1..n : responses'[k] = responses[k]
      BY <1>3, <1>14, <3>1, <3>2
    <3>4. responses'[n + 1] = answer
      BY <1>3, <1>14, <3>1, <3>2
    <3>5. ASSUME NEW k \in 1..m PROVE k \in 1..n \/ responses'[k] = [to |-> k, by |-> Nobody]
      <4>1. k \in 1..n \/ k = n + 1
        BY <1>3, <2>2
      <4>2. QED
        BY <3>4, <4>1 DEF answer
    <3>6. QED
      BY <2>2, <3>3, <3>5
  <2>3. QED
    BY <2>1, <2>2
<1> HIDE DEF n, next, left, m
<1>16. m \in {n, n + 1}
  BY DEF m
<1>17. TypeOK'
  <2>1. \A k \in 1..n : responses[k] \in [to : 1..n, by : 0..Len(Mappings)]
    BY <1>2, <1>14 DEF TypeOK, n
  <2>2. ASSUME NEW k \in 1..m PROVE responses'[k] \in [to : 1..(n + 1), by : 0..Len(Mappings)]
    <3>1. CASE k \in 1..n
      <4>1. responses'[k] = responses[k] /\ responses[k] \in [to : 1..n, by : 0..Len(Mappings)]
        BY <1>15, <2>1, <3>1
      <4>2. QED
        BY <1>3, <4>1
    <3>2. CASE k \notin 1..n
      <4>1. responses'[k] = [to |-> k, by |-> Nobody]
        BY <1>15, <3>2
      <4>2. k \in 1..(n + 1) /\ Nobody \in 0..Len(Mappings)
        BY <1>3, <1>16, HttpServerAssumption DEF Nobody
      <4>3. QED
        BY <4>1, <4>2
    <3>3. QED
      BY <3>1, <3>2
  <2>3. \A k \in 1..Len(responses') : responses'[k] \in [to : 1..Len(handled'), by : 0..Len(Mappings)]
    BY <1>11, <1>15, <2>2
  <2>4. Len(stream') = Len(seen') /\ Len(handled') <= Len(sent')
    BY <1>1, <1>3, <1>5, <1>8, <1>9, <1>11
  <2>5. /\ lastFull' \in BOOLEAN /\ news' \in BOOLEAN /\ upgraded' \in BOOLEAN /\ crashed' \in BOOLEAN
        /\ sent' \in Seq(PeerRequests) /\ (pc' # "idle" => ~upgraded')
    BY <1>1, <1>2 DEF TypeOK
  <2>6. QED
    BY <1>12, <2>3, <2>4, <2>5, Zenon DEF TypeOK
<1>18. Types'
  BY <1>1, <1>3, <1>8, <1>9, <1>11, <1>15, <1>17 DEF Types
<1>19. Pending'
  <2>1. Carry(stream', wire', sent', Len(handled'))
    BY <1>1, <1>5, <1>6, <1>11 DEF e
  <2>2. QED
    BY <2>1 DEF Pending
<1>20. Shown'
  <2>1. ASSUME NEW i \in 1..left, stream'[i] \in {CR, LF} PROVE seen'[i] = stream'[i]
    <3>1. e + i \in 1..Len(stream)
      BY <1>3, <1>7 DEF left
    <3>2. QED
      BY <1>4, <1>8, <1>9, <2>1, <3>1
  <2>2. QED
    BY <1>8, <2>1 DEF Shown
<1>21. BetweenLines'
  BY <1>1, <1>2 DEF BetweenLines
<1>22. ParsedAsSent'
  <2>1. ASSUME NEW i \in 1..(n + 1) PROVE WellFormed(sent[i]) /\ handled'[i] = FrameOf(sent[i])
    <3>1. CASE i \in 1..n
      <4>1. WellFormed(sent[i]) /\ handled[i] = FrameOf(sent[i])
        BY <1>2, <3>1 DEF ParsedAsSent, FrameOf, n
      <4>2. QED
        BY <1>11, <3>1, <4>1
    <3>2. CASE i \notin 1..n
      <4>1. i = n + 1
        BY <1>3, <3>2
      <4>2. QED
        BY <1>5, <1>11, <4>1 DEF next
    <3>3. QED
      BY <3>1, <3>2
  <2>2. QED
    BY ZenonT(40), <1>1, <1>11, <2>1 DEF ParsedAsSent, FrameOf
<1>23. OneResponseEach'
  <2>1. ASSUME NEW k \in 1..m
        PROVE  /\ responses'[k].to = k
               /\ responses'[k].by # Nobody =>
                    /\ Mappings[responses'[k].by].filter = sent[k].proto.path
                    /\ sent[k].proto.method \in Mappings[responses'[k].by].methods
    <3>1. CASE k \in 1..n
      <4>1. responses'[k] = responses[k] /\ k \in 1..Len(responses)
        BY <1>14, <1>15, <3>1
      <4>2. QED
        BY <1>2, <4>1 DEF OneResponseEach
    <3>2. CASE k \notin 1..n
      <4>1. responses'[k] = [to |-> k, by |-> Nobody]
        BY <1>15, <3>2
      <4>2. QED
        BY <4>1
    <3>3. QED
      BY <3>1, <3>2
  <2>2. Len(responses') = Len(handled') - (IF pc' = "answering" THEN 1 ELSE 0)
    BY <1>3, <1>11, <1>15 DEF m
  <2>3. QED
    BY <1>1, <1>15, <1>17, <2>1, <2>2 DEF OneResponseEach
<1>24. AtEndpoint'
  <2>1. Last(handled') = frame /\ Len(handled') # 0
    BY <1>3, <1>11 DEF Last
  <2>2. QED
    BY <1>12, <2>1 DEF AtEndpoint
<1>25. QED
  BY <1>18, <1>19, <1>20, <1>21, <1>22, <1>23, <1>24 DEF IInv

\* The peer sends a request.
LEMMA PeerSendsKeeps ==
  ASSUME IInv, NEW request \in PeerRequests, PeerSends(request)
  PROVE  IInv'
<1> DEFINE n == Len(handled)
           code == Encode(request)
<1>1. /\ sent' = Append(sent, request) /\ wire' = wire \o code
      /\ stream' = stream /\ seen' = seen /\ lastFull' = lastFull /\ pc' = pc /\ news' = news
      /\ handled' = handled /\ responses' = responses /\ upgraded' = upgraded /\ crashed' = crashed
  BY DEF PeerSends, buffer
<1>2. /\ Types /\ TypeOK /\ Pending /\ Shown /\ BetweenLines /\ ParsedAsSent /\ OneResponseEach /\ AtEndpoint
  BY DEF IInv, Types
<1>3. /\ stream \in Seq(Token) /\ wire \in Seq(Token) /\ sent \in Seq(PeerRequests)
      /\ n \in 0..Len(sent) /\ n \in Nat /\ handled \in Seq(Frame)
  BY <1>2 DEF Types, TypeOK
<1>4. Carry(stream, wire, sent, n)
  BY <1>2 DEF Pending
<1>5. wire \o code \in Seq(Token) /\ Carry(stream, wire \o code, Append(sent, request), n)
  BY <1>3, <1>4, CarryOneMore
<1>6. /\ sent' \in Seq(PeerRequests) /\ Len(sent') = Len(sent) + 1
      /\ \A k \in 1..n : sent'[k] = sent[k]
  BY <1>1, <1>3
<1>7. BetweenLines'
  <2>1. IsRequest(code, request, Len(request.headers))
    BY EncodeIs
  <2>2. Len(request.headers) \in Nat /\ Len(request.body) \in Nat /\ request.proto \notin {CR, LF}
    BY RequestIs
  <2> HIDE DEF code
  <2>3. code \in Seq(Token) /\ code[1] = request.proto /\ Len(code) # 0
    <3>1. PICK h \in Nat, m \in Nat : h = Len(request.headers) /\ m = Len(request.body)
      BY <2>2
    <3>2. code \in Seq(Token) /\ code[1] = request.proto /\ Len(code) = 3 * h + 5 + m
      BY <2>1, <3>1 DEF IsRequest
    <3>3. QED
      BY <3>2
  <2>4. IsJoined(wire \o code, wire, code)
    BY <1>3, <2>3, JoinedIs
  <2>5. CASE wire = <<>>
    <3>1. Len(wire) = 0 /\ 1 \in 1..Len(code)
      BY <2>3, <2>5
    <3>2. (wire \o code)[Len(wire) + 1] = code[1]
      BY <2>4, <3>1 DEF IsJoined
    <3>3. (wire \o code)[1] = request.proto
      BY <2>3, <3>1, <3>2
    <3>4. QED
      BY <1>1, <2>2, <3>3 DEF BetweenLines
  <2>6. CASE wire # <<>>
    <3>1. wire[1] \notin {CR, LF} /\ 1 \in 1..Len(wire)
      BY <1>2, <1>3, <2>6 DEF BetweenLines
    <3>2. (wire \o code)[1] = wire[1]
      BY <2>4, <3>1 DEF IsJoined
    <3>3. QED
      BY <1>1, <3>1, <3>2 DEF BetweenLines
  <2>7. QED
    BY <2>5, <2>6
<1> HIDE DEF n, code
<1>8. TypeOK'
  <2>1. Len(handled') <= Len(sent')
    <3>1. Len(sent) \in Nat
      BY <1>3
    <3>2. QED
      BY <1>1, <1>3, <1>6, <3>1 DEF n
  <2>2. QED
    BY <1>1, <1>2, <1>6, <2>1 DEF TypeOK
<1>9. Types'
  BY <1>1, <1>2, <1>5, <1>8 DEF Types
<1>10. Pending'
  BY <1>1, <1>5 DEF Pending, n
<1>11. Shown' /\ AtEndpoint'
  BY <1>1, <1>2 DEF Shown, AtEndpoint
<1>12. ParsedAsSent'
  <2>1. ASSUME NEW i \in 1..n PROVE WellFormed(sent'[i]) /\ handled'[i] = FrameOf(sent'[i])
    <3>1. WellFormed(sent[i]) /\ handled[i] = FrameOf(sent[i])
      BY <1>2 DEF ParsedAsSent, FrameOf, n
    <3>2. QED
      BY <1>1, <1>6, <3>1
  <2>2. QED
    BY <1>1, <2>1 DEF ParsedAsSent, FrameOf, n
<1>13. OneResponseEach'
  <2>1. Len(responses) \in Nat /\ Len(responses) <= n
    <3>1. Len(responses) = n - (IF pc = "answering" THEN 1 ELSE 0)
      BY <1>2 DEF OneResponseEach, n
    <3>2. responses \in Seq([to : Nat, by : Nat])
      BY <1>2 DEF Types
    <3>3. QED
      BY <1>3, <3>1, <3>2
  <2>2. ASSUME NEW k \in 1..Len(responses)
        PROVE  /\ responses[k].to = k
               /\ responses[k].by # Nobody =>
                    /\ Mappings[responses[k].by].filter = sent'[k].proto.path
                    /\ sent'[k].proto.method \in Mappings[responses[k].by].methods
    <3>1. sent'[k] = sent[k]
      BY <1>3, <1>6, <2>1
    <3>2. QED
      BY <1>2, <3>1 DEF OneResponseEach
  <2>3. Len(responses) = Len(handled) - (IF pc = "answering" THEN 1 ELSE 0)
    BY <1>2 DEF OneResponseEach
  <2>4. QED
    BY <1>1, <1>8, <2>2, <2>3 DEF OneResponseEach
<1>14. QED
  BY <1>7, <1>9, <1>10, <1>11, <1>12, <1>13 DEF IInv

\* What the iterator shows of a segment that does not begin with a part of a
\* line break.
LEMMA SegmentIsShown ==
  ASSUME NEW tokens \in Seq(Token), Len(tokens) # 0, tokens[1] \notin {CR, LF},
         NEW stale \in Token, NEW first \in BOOLEAN,
         NEW shown, shown = IF first THEN tokens ELSE <<stale>> \o Tail(tokens)
  PROVE  /\ shown \in Seq(Token) /\ Len(shown) = Len(tokens)
         /\ \A i \in 1..Len(tokens) : tokens[i] \in {CR, LF} => shown[i] = tokens[i]
<1>1. CASE first
  BY <1>1
<1>2. CASE ~first
  <2> DEFINE p == <<stale>>
             q == Tail(tokens)
  <2>1. p \in Seq(Token) /\ Len(p) = 1
    OBVIOUS
  <2>2. tokens # <<>>
    OBVIOUS
  <2>3. q \in Seq(Token) /\ Len(q) = Len(tokens) - 1 /\ \A i \in 1..Len(q) : q[i] = tokens[i + 1]
    BY <2>2, HeadTailProperties
  <2>4. shown = p \o q
    BY <1>2
  <2> HIDE DEF p, q
  <2>5. p \o q \in Seq(Token) /\ IsJoined(p \o q, p, q)
    BY <2>1, <2>3, JoinedIs
  <2>6. shown \in Seq(Token) /\ IsJoined(shown, p, q)
    BY <2>4, <2>5
  <2> HIDE <2>4
  <2>7. Len(shown) = Len(tokens)
    BY <2>1, <2>3, <2>6 DEF IsJoined
  <2>8. ASSUME NEW i \in 1..Len(tokens), tokens[i] \in {CR, LF} PROVE shown[i] = tokens[i]
    <3>1. i # 1
      BY <2>8
    <3>2. i - 1 \in 1..Len(q) /\ (i - 1) + 1 = i /\ 1 + (i - 1) = i
      BY <2>3, <3>1
    <3>3. shown[1 + (i - 1)] = q[i - 1]
      BY <2>1, <2>6, <3>2 DEF IsJoined
    <3>4. QED
      BY <2>3, <3>2, <3>3
  <2>9. QED
    BY <2>6, <2>7, <2>8
<1>3. QED
  BY <1>1, <1>2

\* A segment arrives.
LEMMA ArriveKeeps ==
  ASSUME OnlyBetweenLines, IInv, NEW n \in Nat, Arrive(n)
  PROVE  IInv'
<1>1. PICK stale \in Stale : Received(n, stale)
  BY DEF Arrive
<1> DEFINE a == SubSeq(wire, 1, n)
           b == SubSeq(wire, n + 1, Len(wire))
           first == stream = <<>> /\ handled = <<>>
           shown == IF first THEN a ELSE <<stale>> \o Tail(a)
<1>2. /\ n \in 1..Min({Len(wire), CHUNK_SIZE})
      /\ n < Len(wire) => MaySplit(wire[n + 1])
      /\ lastFull' = (n = CHUNK_SIZE) /\ wire' = b /\ news' = TRUE
      /\ pc' = pc /\ handled' = handled /\ responses' = responses /\ upgraded' = upgraded
      /\ crashed' = crashed /\ sent' = sent
      /\ stream' = stream \o a /\ seen' = seen \o shown
  <2>1. stream' = stream \o a /\ seen' = seen \o shown
    BY <1>1 DEF Received
  <2>2. QED
    BY <2>1 DEF Arrive
<1>3. /\ Types /\ TypeOK /\ Pending /\ Shown /\ BetweenLines /\ ParsedAsSent /\ OneResponseEach /\ AtEndpoint
  BY DEF IInv, Types
<1>4. /\ stream \in Seq(Token) /\ seen \in Seq(Token) /\ wire \in Seq(Token) /\ sent \in Seq(PeerRequests)
      /\ Len(stream) = Len(seen) /\ Len(handled) \in 0..Len(sent)
  BY <1>3 DEF Types, TypeOK
<1>5. n \in 1..Len(wire) /\ Len(wire) \in Nat
  <2>1. {Len(wire), CHUNK_SIZE} \subseteq Nat /\ Len(wire) \in {Len(wire), CHUNK_SIZE}
    BY <1>4, HttpServerAssumption
  <2>2. Min({Len(wire), CHUNK_SIZE}) \in Nat /\ Min({Len(wire), CHUNK_SIZE}) <= Len(wire)
    BY <2>1, LeastIs
  <2> HIDE DEF Min
  <2>3. QED
    BY <1>2, <1>4, <2>2
<1>6. Carry(stream, wire, sent, Len(handled))
  BY <1>3 DEF Pending
<1>7. stream \o a \in Seq(Token) /\ b \in Seq(Token) /\ Carry(stream \o a, b, sent, Len(handled))
  BY <1>4, <1>5, <1>6, CarryArrives
<1>8. /\ a \in Seq(Token) /\ Len(a) = n /\ \A i \in 1..n : a[i] = wire[i]
      /\ Len(b) = Len(wire) - n /\ \A i \in 1..(Len(wire) - n) : b[i] = wire[n + i]
  <2>1. n \in 0..Len(wire)
    BY <1>5
  <2>2. QED
    BY <1>4, <2>1, CutInTwo
<1>9. BetweenLines'
  <2>1. ASSUME b # <<>> PROVE b[1] \notin {CR, LF}
    <3>1. Len(b) # 0
      BY <1>7, <2>1
    <3> HIDE DEF b
    <3>2. n < Len(wire) /\ 1 \in 1..(Len(wire) - n)
      BY <1>5, <1>8, <3>1
    <3>3. b[1] = wire[n + 1] /\ MaySplit(wire[n + 1])
      BY <1>2, <1>8, <3>2
    <3>4. QED
      BY <3>3 DEF OnlyBetweenLines
  <2>2. QED
    BY <1>2, <2>1 DEF BetweenLines
<1>10. wire[1] \notin {CR, LF}
  <2>1. wire # <<>>
    BY <1>5
  <2>2. QED
    BY <1>3, <2>1 DEF BetweenLines
<1>11. stale \in Token /\ first \in BOOLEAN
  BY TokensAre DEF Stale
<1>12. Len(a) # 0 /\ a[1] \notin {CR, LF}
  BY <1>5, <1>8, <1>10
<1>13. /\ shown \in Seq(Token) /\ Len(shown) = n
       /\ \A i \in 1..n : a[i] \in {CR, LF} => shown[i] = a[i]
  <2> HIDE DEF a, first
  <2>1. /\ shown \in Seq(Token) /\ Len(shown) = Len(a)
        /\ \A i \in 1..Len(a) : a[i] \in {CR, LF} => shown[i] = a[i]
    BY <1>8, <1>11, <1>12, SegmentIsShown
  <2> HIDE DEF shown
  <2>2. QED
    BY <1>8, <2>1
<1> HIDE DEF a, b, first, shown
<1>14. IsJoined(stream \o a, stream, a)
  BY <1>4, <1>8, JoinedIs
<1>15. seen \o shown \in Seq(Token) /\ IsJoined(seen \o shown, seen, shown)
  BY <1>4, <1>13, JoinedIs
<1>16. IsJoined(stream', stream, a) /\ IsJoined(seen', seen, shown)
  BY <1>2, <1>14, <1>15
<1>17. Len(stream') = Len(stream) + n /\ Len(seen') = Len(stream) + n
  BY <1>4, <1>8, <1>13, <1>16 DEF IsJoined
<1>18. Shown'
  <2>1. ASSUME NEW i \in 1..(Len(stream) + n), stream'[i] \in {CR, LF} PROVE seen'[i] = stream'[i]
    <3>1. CASE i \in 1..Len(stream)
      <4>1. stream'[i] = stream[i] /\ seen'[i] = seen[i]
        BY <1>4, <1>16, <3>1 DEF IsJoined
      <4>2. QED
        BY <1>3, <2>1, <3>1, <4>1 DEF Shown
    <3>2. CASE i \notin 1..Len(stream)
      <4>1. i - Len(stream) \in 1..n /\ Len(stream) + (i - Len(stream)) = i
        BY <1>4, <3>2
      <4>2. PICK k \in 1..n : k = i - Len(stream) /\ Len(stream) + k = i
        BY <4>1
      <4>3. stream'[i] = a[k] /\ seen'[i] = shown[k]
        BY <1>4, <1>8, <1>13, <1>16, <4>2 DEF IsJoined
      <4>4. QED
        BY <1>13, <2>1, <4>3
    <3>3. QED
      BY <3>1, <3>2
  <2>2. QED
    BY <1>17, <2>1 DEF Shown
<1>19. TypeOK'
  <2>1. Len(stream') = Len(seen') /\ lastFull' \in BOOLEAN /\ news' \in BOOLEAN
    BY <1>2, <1>17
  <2>2. QED
    BY <1>2, <1>3, <2>1 DEF TypeOK
<1>20. Types'
  BY <1>2, <1>3, <1>7, <1>15, <1>19 DEF Types
<1>21. Pending'
  BY <1>2, <1>7 DEF Pending
<1>22. ParsedAsSent'
  BY <1>2, <1>3 DEF ParsedAsSent
<1>23. OneResponseEach'
  BY <1>2, <1>3, <1>19 DEF OneResponseEach
<1>24. AtEndpoint'
  BY <1>2, <1>3 DEF AtEndpoint
<1>25. QED
  BY <1>9, <1>18, <1>20, <1>21, <1>22, <1>23, <1>24 DEF IInv

LEMMA NextInv ==
  ASSUME OnlyBetweenLines, IInv, [Next]_vars
  PROVE  IInv'
<1>1. TypeOK
  BY DEF IInv, Types
<1>2. CASE UpdateOn
  BY <1>1, <1>2, IdleKeeps DEF UpdateOn, buffer, Idle, TypeOK
<1>3. CASE NoFrame
  BY <1>1, <1>3, IdleKeeps DEF NoFrame, buffer, Idle, TypeOK
<1>4. CASE Throw
  BY <1>1, <1>4, IdleKeeps DEF Throw, buffer, Idle, TypeOK
<1>5. CASE Parse
  BY <1>5, ParseKeeps
<1>6. CASE HasResponded
  BY <1>1, <1>6, AnswerKeeps DEF HasResponded, Answer, Answers, TypeOK
<1>7. CASE UseDefault
  BY <1>1, <1>7, AnswerKeeps DEF UseDefault, Answers, TypeOK
<1>8. CASE ShouldTerminate
  BY <1>1, <1>8, AnswerKeeps DEF ShouldTerminate, Answer, Answers, TypeOK
<1>9. ASSUME NEW request \in PeerRequests, PeerSends(request) PROVE IInv'
  BY <1>9, PeerSendsKeeps
<1>10. ASSUME NEW n \in 1..CHUNK_SIZE, Arrive(n) PROVE IInv'
  BY <1>10, ArriveKeeps
<1>11. CASE UNCHANGED vars
  BY <1>1, <1>11, IdleKeeps DEF vars, buffer, Idle, TypeOK
<1>12. QED
  BY <1>2, <1>3, <1>4, <1>5, <1>6, <1>7, <1>8, <1>9, <1>10, <1>11 DEF Next, Step

\* Every reachable state satisfies the invariant, if no segment begins with a
\* part of a line break.
THEOREM Invariance ==
  ASSUME OnlyBetweenLines
  PROVE  Spec => []IInv
<1>1. ASSUME IInv, [Next]_vars PROVE IInv'
  BY <1>1, NextInv
<1>2. QED
  BY <1>1, InitInv, PTL DEF Spec

-----------------------------------------------------------------------------
(* What the server promises *)

\* The frames that are parsed are the requests that were sent, in their order,
\* each with its own path, headers and body, however many segments they arrive
\* in and wherever between the lines these begin; and only those that are
\* well-formed (RequestFrame::FromStream).
THEOREM RequestsAsSent ==
  ASSUME OnlyBetweenLines
  PROVE  Spec => []ParsedAsSent
<1>1. IInv => ParsedAsSent
  BY DEF IInv
<1>2. QED
  BY <1>1, Invariance, PTL

\* Each frame takes its own bytes from the stream and no other, so what is left
\* begins with a request again (StreamReader::CommitRead).
THEOREM OwnBytesOnly ==
  ASSUME OnlyBetweenLines
  PROVE  Spec => []NothingLostOrTaken
<1>1. IInv => NothingLostOrTaken
  BY Zenon DEF IInv, Pending, Carry, CodesOf, NothingLostOrTaken
<1>2. QED
  BY <1>1, Invariance, PTL

\* The n-th response is for the n-th request, and an endpoint speaks only to
\* requests for the path and the method it was added for (Server::UpdateOn).
THEOREM AnsweredOnce ==
  ASSUME OnlyBetweenLines
  PROVE  Spec => []OneResponseEach
<1>1. IInv => OneResponseEach
  BY DEF IInv
<1>2. QED
  BY <1>1, Invariance, PTL
================================================================================
