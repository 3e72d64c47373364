------------------------- MODULE BatchParser_proofs --------------------------
(***************************************************************************)
(* What the parser of BatchProtocol makes of the lines and the values of a *)
(* batch. What a batch looks like on the wire is a sequence; what is left  *)
(* of it after some of its commands, properties and values is Rest, and a  *)
(* place of the parser (At) is its state when such a rest is still to      *)
(* come. There is a lemma for what each line does at each place.           *)
(***************************************************************************)
EXTENDS Parts, Functions, FiniteSetTheorems, SequenceTheorems, WellFoundedInduction, TLAPS

NatLess == {p \in Nat \X Nat : p[1] < p[2]}

LEMMA LeastNumber ==
  ASSUME NEW T, T \subseteq Nat, T # {}
  PROVE  \E n \in T : \A m \in T : n <= m
<1>1. NatLess = OpToRel(<, Nat)
  BY DEF OpToRel, NatLess
<1>2. IsWellFoundedOn(NatLess, Nat)
  BY <1>1, NatLessThanWellFounded
<1>3. PICK n \in T : \A m \in T : <<m, n>> \notin NatLess
  BY <1>2, WFMin
<1>4. ASSUME NEW m \in T, ~(n <= m) PROVE FALSE
  <2>1. m \in Nat /\ n \in Nat /\ m < n
    BY <1>4
  <2>2. <<m, n>> \in NatLess
    BY <2>1 DEF NatLess
  <2> QED BY <2>2, <1>3
<1> QED BY <1>4

-----------------------------------------------------------------------------
(* Sequences of sequences.                                                 *)

\* A set of numbers that has 1, and with a number the next one up to n, has all.
LEMMA UpTo ==
  ASSUME NEW n \in Nat, NEW T, \A i \in 1..n : (i = 1 \/ i - 1 \in T) => i \in T
  PROVE  1..n \subseteq T
<1> DEFINE U == {i \in 1..n : i \notin T}
<1> SUFFICES ASSUME U # {} PROVE FALSE
  OBVIOUS
<1>1. U \subseteq Nat
  OBVIOUS
<1> HIDE DEF U
<1>2. PICK i \in U : \A j \in U : i <= j
  BY <1>1, LeastNumber
<1>3. i \in 1..n /\ i \notin T
  BY DEF U
<1>4. i # 1 /\ i - 1 \in 1..n /\ i - 1 \notin T
  BY <1>3
<1>5. i - 1 \in U
  BY <1>4 DEF U
<1> QED BY <1>2, <1>3, <1>5

\* f has what FlattenSeq has made of the first n sequences of ss.
Flattens(f, ss, n) == f = [i \in 1..n |-> IF i = 1 THEN ss[i] ELSE f[i - 1] \o ss[i]]

Joins(f, ss, n) == \A i \in 1..n : f[i] = IF i = 1 THEN ss[i] ELSE f[i - 1] \o ss[i]
Over(f, n, B)   == \A i \in 1..n : f[i] \in Seq(B)

LEMMA FlattensIn ==
  ASSUME NEW B, NEW n \in Nat, NEW ss, NEW f, Flattens(f, ss, n)
  PROVE  Joins(f, ss, n) /\ (Over(ss, n, B) => Over(f, n, B))
<1>1. PICK g : g = f
  OBVIOUS
<1>2. f = [i \in 1..n |-> IF i = 1 THEN ss[i] ELSE g[i - 1] \o ss[i]]
  BY <1>1, Zenon DEF Flattens
<1>3. DOMAIN f = 1..n /\ f = [i \in 1..n |-> f[i]]
      /\ \A i \in 1..n : f[i] = IF i = 1 THEN ss[i] ELSE g[i - 1] \o ss[i]
  BY ONLY <1>2, Zenon
<1>4. \A i \in 1..n : f[i] = IF i = 1 THEN ss[i] ELSE f[i - 1] \o ss[i]
  BY ONLY <1>1, <1>3, Zenon
<1>5. ASSUME \A i \in 1..n : ss[i] \in Seq(B) PROVE \A i \in 1..n : f[i] \in Seq(B)
  <2> DEFINE T == {i \in 1..n : f[i] \in Seq(B)}
  <2>1. ASSUME NEW i \in 1..n, i = 1 \/ i - 1 \in T PROVE i \in T
    <3>1. CASE i = 1
      BY <1>4, <1>5, <3>1
    <3>2. CASE i # 1
      <4>1. f[i] = f[i - 1] \o ss[i] /\ f[i - 1] \in Seq(B) /\ ss[i] \in Seq(B)
        BY <1>4, <1>5, <2>1, <3>2
      <4>2. f[i - 1] \o ss[i] \in Seq(B)
        BY ONLY <4>1, ConcatProperties
      <4> QED BY <4>1, <4>2
    <3> QED BY <3>1, <3>2
  <2> HIDE DEF T
  <2>2. 1..n \subseteq T
    BY ONLY <2>1, UpTo, n \in Nat
  <2> QED BY <2>2 DEF T
<1> QED BY <1>4, <1>5 DEF Joins, Over

LEMMA FlattensExists ==
  ASSUME NEW n \in Nat, NEW ss
  PROVE  \E f : Flattens(f, ss, n)
<1> DEFINE T == {i \in 1..n : \E f : Flattens(f, ss, i)}
<1>1. ASSUME NEW i \in 1..n, i = 1 \/ i - 1 \in T PROVE i \in T
  <2>1. PICK f : i = 1 \/ Flattens(f, ss, i - 1)
    BY <1>1
  <2> DEFINE g == [k \in 1..i |-> IF k = 1 THEN ss[k] ELSE IF k = i THEN f[i - 1] \o ss[i] ELSE f[k]]
  <2>2. \A k \in 1..i : g[k] = IF k = 1 THEN ss[k] ELSE g[k - 1] \o ss[k]
    <3> TAKE k \in 1..i
    <3>1. CASE k = 1
      BY <3>1
    <3>2. CASE k # 1
      <4>1. i # 1 /\ k - 1 \in 1..(i - 1) /\ i - 1 \in Nat /\ k - 1 # i /\ k - 1 \in 1..i
        BY <3>2
      <4>2. \A m \in 1..(i - 1) : f[m] = IF m = 1 THEN ss[m] ELSE f[m - 1] \o ss[m]
        <5>1. Flattens(f, ss, i - 1)
          BY <2>1, <4>1
        <5>2. i - 1 \in Nat
          BY <4>1
        <5>3. Joins(f, ss, i - 1)
          BY ONLY <5>1, <5>2, FlattensIn
        <5> QED BY ONLY <5>3 DEF Joins
      <4>3. g[k - 1] = f[k - 1]
        BY ONLY <4>1, <4>2, g[k - 1] = IF k - 1 = 1 THEN ss[k - 1] ELSE IF k - 1 = i THEN f[i - 1] \o ss[i] ELSE f[k - 1]
      <4>4. CASE k = i
        BY <3>2, <4>3, <4>4
      <4>5. CASE k # i
        <5>1. k \in 1..(i - 1)
          BY <4>5
        <5> QED BY <3>2, <4>2, <4>3, <4>5, <5>1
      <4> QED BY <4>4, <4>5
    <3> QED BY <3>1, <3>2
  <2>3. g = [k \in 1..i |-> g[k]]
    BY Zenon
  <2> HIDE DEF g
  <2>4. Flattens(g, ss, i)
    BY ONLY <2>2, <2>3, Zenon DEF Flattens
  <2> QED BY <2>4
<1>2. CASE n = 0
  <2>1. Flattens([k \in 1..n |-> 0], ss, n)
    BY <1>2 DEF Flattens
  <2> QED BY <2>1
<1>3. CASE n # 0
  <2> HIDE DEF T
  <2>1. 1..n \subseteq T /\ n \in 1..n
    BY <1>1, <1>3, UpTo
  <2> QED BY <2>1 DEF T
<1> QED BY <1>2, <1>3

LEMMA FlattenIs ==
  ASSUME NEW ss, Len(ss) \in Nat \ {0}
  PROVE  \E f : Flattens(f, ss, Len(ss)) /\ FlattenSeq(ss) = f[Len(ss)]
<1> DEFINE f == CHOOSE f : f = [i \in 1..Len(ss) |-> IF i = 1 THEN ss[i] ELSE f[i - 1] \o ss[i]]
<1>1. FlattenSeq(ss) = f[Len(ss)]
  BY Zenon DEF FlattenSeq
<1>2. \E g : g = [i \in 1..Len(ss) |-> IF i = 1 THEN ss[i] ELSE g[i - 1] \o ss[i]]
  <2>1. \E g : Flattens(g, ss, Len(ss))
    BY FlattensExists
  <2> QED BY <2>1, Zenon DEF Flattens
<1>3. f = [i \in 1..Len(ss) |-> IF i = 1 THEN ss[i] ELSE f[i - 1] \o ss[i]]
  BY <1>2, Zenon
<1> QED BY <1>1, <1>3, Zenon DEF Flattens

\* FlattenSeq, from the front.
\* Sequences are put together in any order.
Associative(B) == \A a, b, c \in Seq(B) : (a \o b) \o c = a \o (b \o c)

LEMMA AssociativeIs ==
  ASSUME NEW B
  PROVE  Associative(B)
<1> SUFFICES ASSUME NEW a \in Seq(B), NEW b \in Seq(B), NEW c \in Seq(B)
             PROVE  (a \o b) \o c = a \o (b \o c)
  BY DEF Associative
<1> QED BY ONLY a \in Seq(B), b \in Seq(B), c \in Seq(B), ConcatAssociative

\* Lists ss of elements of B, and t, the lists after the first.
RestOf(ss, t, B) ==
  /\ Len(ss) \in Nat \ {0} /\ Len(t) = Len(ss) - 1 /\ (Len(t) = 0 => t = <<>>)
  /\ \A i \in 1..Len(ss) : ss[i] \in Seq(B)
  /\ \A i \in 1..Len(t) : t[i] = ss[i + 1]

LEMMA FlattenFacts ==
  ASSUME NEW B, NEW ss, NEW t, RestOf(ss, t, B)
  PROVE  /\ FlattenSeq(ss) \in Seq(B)
         /\ FlattenSeq(ss) = ss[1] \o FlattenSeq(t)
<1> DEFINE n == Len(ss)
<1> /\ Len(ss) \in Nat \ {0} /\ Len(t) = Len(ss) - 1 /\ (Len(t) = 0 => t = <<>>)
    /\ \A i \in 1..Len(ss) : ss[i] \in Seq(B)
    /\ \A i \in 1..Len(t) : t[i] = ss[i + 1]
  BY DEF RestOf
<1>1. n \in Nat /\ n # 0 /\ n \in 1..n /\ 1 \in 1..n /\ ss[1] \in Seq(B)
  OBVIOUS
<1>2. PICK f : Flattens(f, ss, n) /\ FlattenSeq(ss) = f[n]
  BY FlattenIs
<1> HIDE DEF n
<1>3. /\ \A i \in 1..n : f[i] = IF i = 1 THEN ss[i] ELSE f[i - 1] \o ss[i]
      /\ \A i \in 1..n : f[i] \in Seq(B)
  <2>1. Over(ss, n, B)
    BY DEF n, Over
  <2>2. Joins(f, ss, n) /\ Over(f, n, B)
    BY ONLY <1>1, <1>2, <2>1, FlattensIn
  <2> QED BY <2>2 DEF Joins, Over
<1>4. FlattenSeq(ss) \in Seq(B)
  BY ONLY <1>1, <1>2, <1>3
<1>0. \A a, b, c \in Seq(B) : (a \o b) \o c = a \o (b \o c)
  <2>1. Associative(B)
    BY ONLY AssociativeIs
  <2> QED BY ONLY <2>1 DEF Associative
<1>5. CASE n = 1
  <2>1. t = <<>> /\ Len(<<>>) = 0
    BY <1>5 DEF n
  <2>2. FlattenSeq(t) = <<>>
    BY ONLY <2>1 DEF FlattenSeq
  <2>3. FlattenSeq(ss) = ss[1]
    BY <1>2, <1>3, <1>5
  <2>4. ss[1] \o <<>> = ss[1]
    BY ONLY <1>1, ConcatEmptySeq
  <2> QED BY ONLY <1>4, <2>2, <2>3, <2>4
<1>6. CASE n # 1
  <2>1. Len(t) \in Nat \ {0} /\ Len(t) = n - 1 /\ n - 1 \in 1..(n - 1) /\ (n - 1) + 1 = n
    BY <1>1, <1>6 DEF n
  <2>2. PICK h : Flattens(h, t, n - 1) /\ FlattenSeq(t) = h[n - 1]
    BY ONLY <2>1, FlattenIs
  <2>3. \A i \in 1..(n - 1) : t[i] \in Seq(B) /\ t[i] = ss[i + 1]
    <3>1. \A i \in 1..(n - 1) : i + 1 \in 1..n
      BY <1>1
    <3> QED BY <2>1, <3>1 DEF n
  <2>4. /\ \A i \in 1..(n - 1) : h[i] = IF i = 1 THEN t[i] ELSE h[i - 1] \o t[i]
        /\ \A i \in 1..(n - 1) : h[i] \in Seq(B)
    <3>1. n - 1 \in Nat
      BY <2>1
    <3>2. Over(t, n - 1, B)
      BY ONLY <2>3 DEF Over
    <3>3. Joins(h, t, n - 1) /\ Over(h, n - 1, B)
      BY ONLY <2>2, <3>1, <3>2, FlattensIn
    <3> QED BY <3>3 DEF Joins, Over
  <2> DEFINE T == {i \in 1..(n - 1) : f[i + 1] = ss[1] \o h[i]}
  <2>5. ASSUME NEW i \in 1..(n - 1), i = 1 \/ i - 1 \in T PROVE i \in T
    <3>1. i + 1 \in 1..n /\ i \in 1..n /\ i + 1 # 1 /\ (i + 1) - 1 = i
      BY <1>1
    <3>2. f[i + 1] = f[i] \o t[i]
      BY ONLY <1>3, <2>3, <3>1
    <3>3. CASE i = 1
      <4>1. f[1] = ss[1] /\ h[1] = t[1]
        BY ONLY <1>1, <1>3, <2>4, <3>3, i \in 1..(n - 1)
      <4> QED BY <3>2, <3>3, <4>1
    <3>4. CASE i # 1
      <4>1. i - 1 \in 1..(n - 1) /\ f[(i - 1) + 1] = ss[1] \o h[i - 1] /\ (i - 1) + 1 = i
        <5>1. i - 1 \in T
          BY ONLY <2>5, <3>4
        <5>2. i - 1 \in 1..(n - 1) /\ (i - 1) + 1 = i
          BY ONLY <1>1, <3>4, i \in 1..(n - 1)
        <5> QED BY ONLY <5>1, <5>2 DEF T
      <4>2. h[i] = h[i - 1] \o t[i] /\ h[i - 1] \in Seq(B) /\ t[i] \in Seq(B)
        BY ONLY <2>3, <2>4, <3>4, <4>1, i \in 1..(n - 1)
      <4>3. (ss[1] \o h[i - 1]) \o t[i] = ss[1] \o (h[i - 1] \o t[i])
        BY ONLY <1>0, <1>1, <4>2, Zenon
      <4>4. f[i + 1] = ss[1] \o h[i]
        BY ONLY <3>2, <4>1, <4>2, <4>3
      <4> QED BY <4>4
    <3> QED BY <3>3, <3>4
  <2> HIDE DEF T
  <2>6. n - 1 \in T
    <3>1. n - 1 \in Nat
      BY <2>1
    <3>2. 1..(n - 1) \subseteq T
      BY ONLY <2>5, <3>1, UpTo
    <3> QED BY ONLY <2>1, <3>2
  <2>7. f[n] = ss[1] \o h[n - 1]
    BY ONLY <2>1, <2>6 DEF T
  <2> QED BY <1>2, <1>4, <2>2, <2>7
<1> QED BY <1>5, <1>6

\* What is left of ss, and what comes after it, when its first i sequences are taken.
Rest(ss, i, after) == FlattenSeq(SubSeq(ss, i + 1, Len(ss))) \o after

\* ss has n sequences over B.
Lists(ss, n, B) == n \in Nat /\ ss = [i \in 1..n |-> ss[i]] /\ \A i \in 1..n : ss[i] \in Seq(B)

LEMMA ListsLen ==
  ASSUME NEW B, NEW n, NEW ss, Lists(ss, n, B)
  PROVE  ss \in Seq(Seq(B)) /\ Len(ss) = n /\ n \in Nat /\ \A i \in 1..n : ss[i] \in Seq(B)
<1> DEFINE S == Seq(B)
<1>1. n \in Nat /\ ss = [i \in 1..n |-> ss[i]] /\ \A i \in 1..n : ss[i] \in S
  BY DEF Lists
<1> HIDE DEF S
<1>2. ss \in Seq(S) /\ Len(ss) = n
  BY ONLY <1>1
<1> QED BY <1>1, <1>2 DEF S

RestIs(ss, n, after, B) ==
  /\ Rest(ss, 0, after) = FlattenSeq(ss) \o after
  /\ FlattenSeq(ss) \in Seq(B)
  /\ \A i \in 0..n : Rest(ss, i, after) \in Seq(B)
  /\ \A i \in 0..(n - 1) : Rest(ss, i, after) = ss[i + 1] \o Rest(ss, i + 1, after)
  /\ Rest(ss, n, after) = after

LEMMA RestFacts ==
  ASSUME NEW B, NEW n, NEW ss, Lists(ss, n, B), NEW after \in Seq(B)
  PROVE  RestIs(ss, n, after, B)
<1> DEFINE S == Seq(B)
           sub(i) == SubSeq(ss, i + 1, n)
<1>1. ss \in Seq(S) /\ Len(ss) = n /\ n \in Nat /\ \A i \in 1..n : ss[i] \in S
  BY ListsLen
<1>2. \A i : Rest(ss, i, after) = FlattenSeq(sub(i)) \o after
  BY <1>1 DEF Rest
<1> HIDE DEF S
<1>3. \A i \in 0..n : /\ sub(i) \in Seq(S) /\ Len(sub(i)) = n - i
                      /\ \A k \in 1..(n - i) : sub(i)[k] = ss[k + i] /\ sub(i)[k] \in S
  BY ONLY <1>1
<1>4. sub(0) = ss
  BY ONLY <1>1
<1>5. sub(n) = <<>>
  BY ONLY <1>1
<1> HIDE DEF sub
<1>6. \A i \in 0..(n - 1) : FlattenSeq(sub(i)) \in S /\ FlattenSeq(sub(i)) = ss[i + 1] \o FlattenSeq(sub(i + 1))
  <2> TAKE i \in 0..(n - 1)
  <2>1. /\ i \in 0..n /\ i + 1 \in 0..n /\ n - i \in Nat \ {0} /\ n - (i + 1) = (n - i) - 1
        /\ 1 \in 1..(n - i) /\ 1 + i = i + 1
    BY ONLY <1>1, i \in 0..(n - 1)
  <2>2. Len(sub(i)) = n - i /\ Len(sub(i + 1)) = (n - i) - 1 /\ sub(i)[1] = ss[i + 1] /\ sub(i + 1) \in Seq(S)
    BY <1>3, <2>1
  <2>3. \A k \in 1..Len(sub(i + 1)) : sub(i + 1)[k] = sub(i)[k + 1]
    <3> TAKE k \in 1..Len(sub(i + 1))
    <3>1. k \in 1..(n - (i + 1)) /\ k + 1 \in 1..(n - i) /\ k + (i + 1) = (k + 1) + i
      BY ONLY <1>1, <2>1, <2>2, k \in 1..Len(sub(i + 1)), i \in 0..(n - 1)
    <3> QED BY <1>3, <2>1, <3>1
  <2>4. \A k \in 1..Len(sub(i)) : sub(i)[k] \in Seq(B)
    BY <1>3, <2>1, <2>2 DEF S
  <2>5. Len(sub(i + 1)) = 0 => sub(i + 1) = <<>>
    BY ONLY <2>2
  <2>6. Len(sub(i)) \in Nat \ {0} /\ Len(sub(i + 1)) = Len(sub(i)) - 1
    BY <2>1, <2>2
  <2>7. FlattenSeq(sub(i)) \in Seq(B) /\ FlattenSeq(sub(i)) = sub(i)[1] \o FlattenSeq(sub(i + 1))
    <3>1. RestOf(sub(i), sub(i + 1), B)
      BY ONLY <2>3, <2>4, <2>5, <2>6 DEF RestOf
    <3> QED BY ONLY <3>1, FlattenFacts
  <2> QED BY <2>2, <2>7 DEF S
<1>7. FlattenSeq(<<>>) = <<>>
  BY DEF FlattenSeq
<1>8. \A i \in 0..n : FlattenSeq(sub(i)) \in Seq(B)
  <2> TAKE i \in 0..n
  <2>1. i \in 0..(n - 1) \/ i = n
    BY ONLY <1>1, i \in 0..n
  <2>2. FlattenSeq(sub(n)) \in Seq(B)
    <3>1. <<>> \in Seq(B)
      BY ONLY EmptySeq
    <3> QED BY ONLY <3>1, <1>5, <1>7
  <2>3. ASSUME i \in 0..(n - 1) PROVE FlattenSeq(sub(i)) \in Seq(B)
    <3>1. FlattenSeq(sub(i)) \in S
      BY ONLY <1>6, <2>3
    <3> QED BY ONLY <3>1 DEF S
  <2>4. ASSUME i = n PROVE FlattenSeq(sub(i)) \in Seq(B)
    BY ONLY <2>2, <2>4
  <2> QED BY ONLY <2>1, <2>3, <2>4
<1>0. \A a, b, c \in Seq(B) : (a \o b) \o c = a \o (b \o c)
  <2>1. Associative(B)
    BY ONLY AssociativeIs
  <2> QED BY ONLY <2>1 DEF Associative
<1>9. \A i \in 0..(n - 1) : Rest(ss, i, after) = ss[i + 1] \o Rest(ss, i + 1, after)
  <2> TAKE i \in 0..(n - 1)
  <2>1. i + 1 \in 0..n /\ ss[i + 1] \in Seq(B)
    BY <1>1 DEF S
  <2>2. FlattenSeq(sub(i + 1)) \in Seq(B)
    BY <1>8, <2>1
  <2>3. (ss[i + 1] \o FlattenSeq(sub(i + 1))) \o after = ss[i + 1] \o (FlattenSeq(sub(i + 1)) \o after)
    BY ONLY <1>0, <2>1, <2>2, after \in Seq(B), Zenon
  <2> QED BY <1>2, <1>6, <2>3
<1>10. \A i \in 0..n : Rest(ss, i, after) \in Seq(B)
  <2> TAKE i \in 0..n
  <2>1. FlattenSeq(sub(i)) \o after \in Seq(B)
    BY ONLY <1>8, after \in Seq(B), ConcatProperties, i \in 0..n
  <2> QED BY <1>2, <2>1
<1>11. Rest(ss, n, after) = after
  <2>1. <<>> \o after = after
    BY ConcatEmptySeq
  <2> QED BY <1>2, <1>5, <1>7, <2>1
<1>12. Rest(ss, 0, after) = FlattenSeq(ss) \o after
  BY <1>2, <1>4
<1>13. FlattenSeq(ss) \in Seq(B)
  <2>1. 0 \in 0..n
    BY <1>1
  <2> QED BY ONLY <1>4, <1>8, <2>1
<1> QED BY <1>9, <1>10, <1>11, <1>12, <1>13 DEF RestIs

-----------------------------------------------------------------------------
(* BatchProtocol: what is left of a batch.                                  *)

Tags  == {"newline", "byte", "M", "s", "x", "l", "None", "D", "P",
          "+", "/", "-", "%", "insert", ",", ".", "r"}
Bytes == Tags \X Nat

LEMMA BatchOperators ==
  /\ \A s : Batch!FlattenSeq(s) = FlattenSeq(s)
  /\ \A s : Batch!Last(s) = s[Len(s)]
  /\ \A s : Batch!Front(s) = SubSeq(s, 1, Len(s) - 1)
  /\ \A s : Batch!ToSet(s) = {s[i] : i \in DOMAIN s}
<1>1. \A s : Batch!FlattenSeq(s) = FlattenSeq(s)
  BY Zenon DEF Batch!FlattenSeq, FlattenSeq
<1> QED BY <1>1 DEF Batch!Last, Batch!Front, Batch!ToSet

LEMMA LineIs ==
  ASSUME NEW c \in Tags, NEW n \in Nat
  PROVE  /\ Batch!Line(c, n) = <<<<c, n>>, Batch!NL>> /\ Batch!Line(c, n) \in Seq(Bytes)
         /\ <<c, n>> \in Bytes /\ Batch!NL \in Bytes /\ <<Batch!NL>> \in Seq(Bytes)
<1>1. <<c, n>> \in Bytes /\ Batch!NL \in Bytes
  BY DEF Bytes, Batch!NL, Tags
<1> QED BY <1>1 DEF Batch!Line

\* a, b and c are bytes that follow each other.
LEMMA BytesJoin ==
  /\ \A a, b \in Seq(Bytes) : a \o b \in Seq(Bytes)
  /\ \A a, b, c \in Seq(Bytes) : (a \o b) \o c = a \o (b \o c)
  /\ \A a \in Seq(Bytes) : a \o <<>> = a /\ <<>> \o a = a
  /\ <<>> \in Seq(Bytes)
<1>1. \A a, b \in Seq(Bytes) : a \o b \in Seq(Bytes)
  BY ONLY ConcatProperties
<1>2. \A a, b, c \in Seq(Bytes) : (a \o b) \o c = a \o (b \o c)
  <2>1. Associative(Bytes)
    BY ONLY AssociativeIs
  <2> QED BY ONLY <2>1 DEF Associative
<1>3. \A a \in Seq(Bytes) : a \o <<>> = a /\ <<>> \o a = a
  BY ONLY ConcatEmptySeq
<1>4. <<>> \in Seq(Bytes)
  BY ONLY EmptySeq
<1> QED BY <1>1, <1>2, <1>3, <1>4

\* Three sequences of bytes, put together from either end.
Assoc(a, b, c) == (a \o b) \o c = a \o (b \o c) /\ a \o b \in Seq(Bytes) /\ b \o c \in Seq(Bytes)

LEMMA AssocIs ==
  ASSUME NEW a \in Seq(Bytes), NEW b \in Seq(Bytes), NEW c \in Seq(Bytes)
  PROVE  Assoc(a, b, c)
<1>1. (a \o b) \o c = a \o (b \o c)
  <2>1. Associative(Bytes)
    BY ONLY AssociativeIs
  <2> QED BY ONLY <2>1, a \in Seq(Bytes), b \in Seq(Bytes), c \in Seq(Bytes), Zenon DEF Associative
<1>2. a \o b \in Seq(Bytes)
  BY ONLY BytesJoin, a \in Seq(Bytes), b \in Seq(Bytes)
<1>3. b \o c \in Seq(Bytes)
  BY ONLY BytesJoin, b \in Seq(Bytes), c \in Seq(Bytes)
<1> QED BY ONLY <1>1, <1>2, <1>3 DEF Assoc

\* What follows two sequences follows the second of them, and the same of three.
Two(l, d)     == l \o d \in Seq(Bytes) /\ \A h \in Seq(Bytes) : (l \o d) \o h = l \o (d \o h)
Three(l, d, e) == /\ (l \o d) \o e \in Seq(Bytes)
                  /\ \A h \in Seq(Bytes) : ((l \o d) \o e) \o h = l \o (d \o (e \o h))

LEMMA JoinTwo ==
  ASSUME NEW l \in Seq(Bytes), NEW d \in Seq(Bytes)
  PROVE  Two(l, d)
<1>1. l \o d \in Seq(Bytes)
  BY ONLY BytesJoin, l \in Seq(Bytes), d \in Seq(Bytes)
<1>2. ASSUME NEW h \in Seq(Bytes) PROVE (l \o d) \o h = l \o (d \o h)
  <2>1. Assoc(l, d, h)
    BY ONLY l \in Seq(Bytes), d \in Seq(Bytes), h \in Seq(Bytes), AssocIs
  <2> QED BY ONLY <2>1 DEF Assoc
<1> QED BY ONLY <1>1, <1>2 DEF Two

LEMMA JoinThree ==
  ASSUME NEW l \in Seq(Bytes), NEW d \in Seq(Bytes), NEW e \in Seq(Bytes)
  PROVE  Three(l, d, e)
<1> DEFINE f == l \o d
<1>1. f \in Seq(Bytes)
  BY ONLY BytesJoin, l \in Seq(Bytes), d \in Seq(Bytes)
<1>2. ASSUME NEW h \in Seq(Bytes) PROVE (f \o e) \o h = l \o (d \o (e \o h))
  <2> DEFINE g == e \o h
  <2>1. g \in Seq(Bytes)
    BY ONLY BytesJoin, e \in Seq(Bytes), h \in Seq(Bytes)
  <2> HIDE DEF g
  <2>2. Assoc(l, d, g)
    BY ONLY <2>1, l \in Seq(Bytes), d \in Seq(Bytes), AssocIs
  <2>3. f \o g = l \o (d \o g)
    BY ONLY <2>2 DEF Assoc, f
  <2> HIDE DEF f
  <2>4. Assoc(f, e, h)
    BY ONLY <1>1, e \in Seq(Bytes), h \in Seq(Bytes), AssocIs
  <2>5. (f \o e) \o h = f \o g
    BY ONLY <2>4 DEF Assoc, g
  <2> QED BY ONLY <2>3, <2>5 DEF g
<1>3. f \o e \in Seq(Bytes)
  <2> HIDE DEF f
  <2> QED BY ONLY <1>1, BytesJoin, e \in Seq(Bytes)
<1> QED BY ONLY <1>2, <1>3 DEF Three, f

\* The bytes after the first i values, properties, inserts or commands.
ValuesLeft(vs, i)   == Rest([k \in 1..Len(vs) |-> Batch!SendOneProp(vs[k])], i, Batch!Line("M", 0))
PropsLeft(ps, i)    == Rest([k \in 1..Len(ps) |-> Batch!SendProp(ps[k])], i, Batch!Line(",", 0))
InsertsLeft(n, i)   == Rest([k \in 1..n |-> Batch!Line("insert", 0)], i, Batch!Line("%", 0))
CommandsLeft(cs, i) == Rest([k \in 1..Len(cs) |-> Batch!SendCommand(cs[k])], i, Batch!Line(".", 0))

LEMMA LeftIs ==
  ASSUME NEW n \in Nat, NEW L, L = [k \in 1..n |-> L[k]], \A k \in 1..n : L[k] \in Seq(Bytes),
         NEW end \in Tags
  PROVE  RestIs(L, n, Batch!Line(end, 0), Bytes)
<1>1. Lists(L, n, Bytes)
  BY DEF Lists
<1>2. Batch!Line(end, 0) \in Seq(Bytes)
  BY LineIs
<1> QED BY ONLY <1>1, <1>2, RestFacts

LEMMA PayloadIs ==
  ASSUME NEW d \in Seq(Batch!Payload)
  PROVE  d \in Seq(Bytes) /\ Len(d) \in Nat /\ \A i \in 1..Len(d) : d[i][1] \in {"newline", "byte"}
<1>1. \A x \in Batch!Payload : x \in Bytes /\ x[1] \in {"newline", "byte"}
  <2> TAKE x \in Batch!Payload
  <2>1. CASE x = Batch!NL
    BY <2>1 DEF Batch!NL, Bytes, Tags
  <2>2. CASE x \in {"byte"} \X Nat
    <3>1. PICK n \in Nat : x = <<"byte", n>>
      BY <2>2
    <3> QED BY <3>1 DEF Bytes, Tags
  <2> QED BY <2>1, <2>2 DEF Batch!Payload
<1>2. \A i \in 1..Len(d) : d[i] \in Batch!Payload
  OBVIOUS
<1> QED BY <1>1, <1>2

LEMMA ValueIs ==
  ASSUME NEW v \in Batch!SentValues
  PROVE  /\ v.type \in {"s", "x", "l"} /\ v.data \in Seq(Batch!Payload) /\ v.data \in Seq(Bytes)
         /\ v = Batch!Val(v.type, v.data) /\ (v.type = "l" => v.data = <<>>)
         /\ Batch!SendOneProp(v) \in Seq(Bytes)
         /\ v.type = "l" => Batch!SendOneProp(v) = Batch!Line("l", 0)
         /\ v.type # "l" => \A h \in Seq(Bytes) : Batch!SendOneProp(v) \o h =
              Batch!Line(v.type, Len(v.data)) \o (v.data \o (<<Batch!NL>> \o h))
<1>1. /\ v.type \in {"s", "x", "l"} /\ v.data \in Seq(Batch!Payload)
      /\ v = Batch!Val(v.type, v.data) /\ (v.type = "l" => v.data = <<>>)
  <2> DEFINE D == Seq(Batch!Payload)
  <2>1. <<>> \in D
    BY EmptySeq
  <2>2. v \in [type : {"s", "x"}, data : D] \cup {[type |-> "l", data |-> <<>>]}
    BY DEF Batch!SentValues, Batch!Val
  <2> HIDE DEF D
  <2>3. CASE v \in [type : {"s", "x"}, data : D]
    BY ONLY <2>3 DEF D, Batch!Val
  <2>4. CASE v = [type |-> "l", data |-> <<>>]
    BY ONLY <2>1, <2>4 DEF D, Batch!Val
  <2> QED BY <2>2, <2>3, <2>4
<1>2. v.data \in Seq(Bytes) /\ Len(v.data) \in Nat
  BY ONLY <1>1, PayloadIs
<1>3. v.type \in Tags
  BY <1>1 DEF Tags
<1>4. Batch!Line("l", 0) \in Seq(Bytes) /\ Batch!Line(v.type, Len(v.data)) \in Seq(Bytes) /\ <<Batch!NL>> \in Seq(Bytes)
  <2>1. "l" \in Tags
    BY DEF Tags
  <2> QED BY ONLY <1>2, <1>3, <2>1, LineIs
<1>5. v.type = "l" => Batch!SendOneProp(v) = Batch!Line("l", 0)
  BY DEF Batch!SendOneProp
<1>6. v.type # "l" => Batch!SendOneProp(v) = (Batch!Line(v.type, Len(v.data)) \o v.data) \o <<Batch!NL>>
  BY <1>1 DEF Batch!SendOneProp
<1> DEFINE l == Batch!Line(v.type, Len(v.data))
           d == v.data
           e == <<Batch!NL>>
<1>7. (l \o d) \o e \in Seq(Bytes) /\ \A h \in Seq(Bytes) : ((l \o d) \o e) \o h = l \o (d \o (e \o h))
  <2>1. l \in Seq(Bytes) /\ d \in Seq(Bytes) /\ e \in Seq(Bytes)
    BY <1>2, <1>4
  <2> HIDE DEF l, d, e
  <2>2. Three(l, d, e)
    BY ONLY <2>1, JoinThree
  <2> QED BY ONLY <2>2 DEF Three
<1> QED BY <1>1, <1>2, <1>4, <1>5, <1>6, <1>7

\* The values of a list, one after the other.
LEMMA ValuesLeftIs ==
  ASSUME NEW vs \in Seq(Batch!SentValues)
  PROVE  /\ Len(vs) \in Nat /\ \A i \in 1..Len(vs) : vs[i] \in Batch!SentValues
         /\ \A i \in 0..Len(vs) : ValuesLeft(vs, i) \in Seq(Bytes)
         /\ \A i \in 0..(Len(vs) - 1) : ValuesLeft(vs, i) = Batch!SendOneProp(vs[i + 1]) \o ValuesLeft(vs, i + 1)
         /\ ValuesLeft(vs, Len(vs)) = Batch!Line("M", 0)
         /\ Batch!Lines(Batch!SendOneProp, vs) \o Batch!Line("M", 0) = ValuesLeft(vs, 0)
         /\ Batch!Lines(Batch!SendOneProp, vs) \in Seq(Bytes)
<1> DEFINE n == Len(vs)
           L == [k \in 1..n |-> Batch!SendOneProp(vs[k])]
<1>1. n \in Nat /\ DOMAIN vs = 1..n /\ \A i \in 1..n : vs[i] \in Batch!SentValues
  OBVIOUS
<1>2. Batch!Lines(Batch!SendOneProp, vs) = FlattenSeq(L)
  <2>1. [i \in DOMAIN vs |-> Batch!SendOneProp(vs[i])] = L
    BY <1>1
  <2> QED BY <2>1, BatchOperators, Zenon DEF Batch!Lines
<1>3. \A i : ValuesLeft(vs, i) = Rest(L, i, Batch!Line("M", 0))
  BY DEF ValuesLeft
<1>4. L = [k \in 1..n |-> L[k]] /\ \A k \in 1..n : L[k] \in Seq(Bytes) /\ L[k] = Batch!SendOneProp(vs[k])
  BY <1>1, ValueIs
<1>5. "M" \in Tags
  BY DEF Tags
<1> HIDE DEF L, n
<1>6. RestIs(L, n, Batch!Line("M", 0), Bytes)
  BY ONLY <1>1, <1>4, <1>5, LeftIs
<1>7. \A i \in 0..(n - 1) : i + 1 \in 1..n
  BY <1>1
<1> QED BY <1>1, <1>2, <1>3, <1>4, <1>6, <1>7 DEF n, RestIs

\* A property is sent as a list, as nothing, or as one value.
ListProp(p) == p.value.vals \in Seq(Batch!SentValues) /\ p.value = Batch!Many(p.value.vals)
NoProp(p)   == p.value = Batch!One(Batch!None)
OneProp(p)  == p.value.vals[1] \in Batch!SentValues /\ p.value = Batch!One(p.value.vals[1])

IsProp(p) == p \in Batch!Props /\ IF p.value.many THEN p.value.vals \in Seq(Batch!SentValues) ELSE Len(p.value.vals) = 1

LEMMA PropKinds ==
  ASSUME NEW p, IsProp(p)
  PROVE  /\ p.key \in Nat \ {0} /\ (ListProp(p) \/ NoProp(p) \/ OneProp(p))
         /\ p = [key |-> p.key, value |-> p.value]
<1> DEFINE V == Batch!SentValues
           W == V \cup {Batch!None}
           S == Seq(W)
           q == p.value
<1>1. p \in [key : Nat \ {0}, value : [many : BOOLEAN, vals : S]]
  BY DEF IsProp, Batch!Props
<1> HIDE DEF S
<1>2. /\ p.key \in Nat \ {0} /\ p = [key |-> p.key, value |-> p.value]
      /\ q = [many |-> q.many, vals |-> q.vals] /\ q.many \in BOOLEAN /\ q.vals \in S
  BY ONLY <1>1
<1> HIDE DEF q
<1>3. CASE q.many
  <2>1. q.many = TRUE
    BY <1>2, <1>3
  <2>2. q.vals \in Seq(Batch!SentValues)
    BY <1>3 DEF IsProp, q
  <2>3. q = Batch!Many(q.vals)
    BY <1>2, <2>1 DEF Batch!Many
  <2> QED BY <1>2, <2>2, <2>3 DEF ListProp, q
<1>4. CASE ~q.many
  <2>1. q.many = FALSE /\ Len(q.vals) = 1
    BY <1>2, <1>4 DEF IsProp, q
  <2> HIDE DEF W
  <2>2. q.vals = <<q.vals[1]>> /\ q.vals[1] \in W
    BY ONLY <1>2, <2>1 DEF S
  <2>3. q = Batch!One(q.vals[1])
    BY <1>2, <2>1, <2>2 DEF Batch!One
  <2>4. q.vals[1] \in V \/ q.vals[1] = Batch!None
    BY <2>2 DEF W
  <2> QED BY <1>2, <2>3, <2>4, Zenon DEF OneProp, NoProp, q
<1> QED BY <1>3, <1>4

LEMMA PropIs ==
  ASSUME NEW p, IsProp(p)
  PROVE  /\ Batch!SendProp(p) \in Seq(Bytes)
         /\ Batch!Line("M", p.key) \in Seq(Bytes) /\ Batch!Line("P", p.key) \in Seq(Bytes) /\ Batch!Line("D", p.key) \in Seq(Bytes)
         /\ ListProp(p) => \A h \in Seq(Bytes) :
              Batch!SendProp(p) \o h = Batch!Line("M", p.key) \o (ValuesLeft(p.value.vals, 0) \o h)
         /\ NoProp(p) => Batch!SendProp(p) = Batch!Line("D", p.key)
         /\ OneProp(p) => \A h \in Seq(Bytes) :
              Batch!SendProp(p) \o h = Batch!Line("P", p.key) \o (Batch!SendOneProp(p.value.vals[1]) \o h)
<1> DEFINE a == Batch!Line("M", p.key)
           vs == p.value.vals
<1>1. p.key \in Nat \ {0} /\ (ListProp(p) \/ NoProp(p) \/ OneProp(p))
  BY PropKinds
<1>2. /\ Batch!Line("M", p.key) \in Seq(Bytes) /\ Batch!Line("P", p.key) \in Seq(Bytes) /\ Batch!Line("D", p.key) \in Seq(Bytes)
      /\ Batch!Line("M", 0) \in Seq(Bytes)
  <2>1. "M" \in Tags /\ "P" \in Tags /\ "D" \in Tags /\ p.key \in Nat /\ 0 \in Nat
    BY <1>1 DEF Tags
  <2> QED BY ONLY <2>1, LineIs
<1>3. ASSUME ListProp(p)
      PROVE  /\ Batch!SendProp(p) \in Seq(Bytes)
             /\ \A h \in Seq(Bytes) : Batch!SendProp(p) \o h = a \o (ValuesLeft(vs, 0) \o h)
  <2> DEFINE b == Batch!Lines(Batch!SendOneProp, vs)
             c == Batch!Line("M", 0)
  <2>1. vs \in Seq(Batch!SentValues) /\ p.value.many = TRUE
    BY <1>3 DEF ListProp, Batch!Many
  <2>2. b \in Seq(Bytes) /\ b \o c = ValuesLeft(vs, 0)
    BY ONLY <2>1, ValuesLeftIs
  <2>3. a \in Seq(Bytes) /\ c \in Seq(Bytes)
    BY <1>2
  <2>4. Batch!SendProp(p) = (a \o b) \o c
    BY <2>1 DEF Batch!SendProp
  <2> HIDE DEF a, b, c
  <2>5. (a \o b) \o c \in Seq(Bytes) /\ \A h \in Seq(Bytes) : ((a \o b) \o c) \o h = a \o (b \o (c \o h))
    <3>1. Three(a, b, c)
      BY ONLY <2>2, <2>3, JoinThree
    <3> QED BY ONLY <3>1 DEF Three
  <2>6. \A h \in Seq(Bytes) : (b \o c) \o h = b \o (c \o h)
    <3>1. Two(b, c)
      BY ONLY <2>2, <2>3, JoinTwo
    <3> QED BY ONLY <3>1 DEF Two
  <2> QED BY <2>2, <2>4, <2>5, <2>6
<1>4. ASSUME NoProp(p) PROVE Batch!SendProp(p) = Batch!Line("D", p.key)
  BY <1>4 DEF NoProp, Batch!SendProp, Batch!One
<1>5. ASSUME OneProp(p)
      PROVE  /\ Batch!SendProp(p) \in Seq(Bytes)
             /\ \A h \in Seq(Bytes) : Batch!SendProp(p) \o h = Batch!Line("P", p.key) \o (Batch!SendOneProp(vs[1]) \o h)
  <2> DEFINE b == Batch!Line("P", p.key)
             c == Batch!SendOneProp(vs[1])
  <2>1. vs[1] \in Batch!SentValues /\ p.value = Batch!One(vs[1]) /\ p.value.many = FALSE
    BY <1>5 DEF OneProp, Batch!One
  <2>2. vs[1] # Batch!None /\ c \in Seq(Bytes)
    <3>1. vs[1].type # "None"
      BY <2>1, ValueIs
    <3> QED BY <2>1, <3>1, ValueIs DEF Batch!None, Batch!Val
  <2>3. p.value # Batch!One(Batch!None)
    BY <2>1, <2>2 DEF Batch!One
  <2>4. Batch!SendProp(p) = b \o c
    BY <2>1, <2>3 DEF Batch!SendProp
  <2>5. b \in Seq(Bytes)
    BY <1>2
  <2> HIDE DEF b, c
  <2>6. b \o c \in Seq(Bytes) /\ \A h \in Seq(Bytes) : (b \o c) \o h = b \o (c \o h)
    <3>1. Two(b, c)
      BY ONLY <2>2, <2>5, JoinTwo
    <3> QED BY ONLY <3>1 DEF Two
  <2> QED BY <2>4, <2>6 DEF b, c
<1> QED BY <1>1, <1>2, <1>3, <1>4, <1>5

\* The properties of a command, one after the other.
LEMMA PropsLeftIs ==
  ASSUME NEW ps \in Seq(Batch!Props), \A i \in 1..Len(ps) : IsProp(ps[i])
  PROVE  /\ Len(ps) \in Nat
         /\ \A i \in 0..Len(ps) : PropsLeft(ps, i) \in Seq(Bytes)
         /\ \A i \in 0..(Len(ps) - 1) : PropsLeft(ps, i) = Batch!SendProp(ps[i + 1]) \o PropsLeft(ps, i + 1)
         /\ PropsLeft(ps, Len(ps)) = Batch!Line(",", 0)
         /\ Batch!Lines(Batch!SendProp, ps) \o Batch!Line(",", 0) = PropsLeft(ps, 0)
         /\ Batch!Lines(Batch!SendProp, ps) \in Seq(Bytes)
<1> DEFINE n == Len(ps)
           L == [k \in 1..n |-> Batch!SendProp(ps[k])]
<1>1. n \in Nat /\ DOMAIN ps = 1..n
  OBVIOUS
<1>2. Batch!Lines(Batch!SendProp, ps) = FlattenSeq(L)
  <2>1. [i \in DOMAIN ps |-> Batch!SendProp(ps[i])] = L
    BY <1>1
  <2> QED BY <2>1, BatchOperators, Zenon DEF Batch!Lines
<1>3. \A i : PropsLeft(ps, i) = Rest(L, i, Batch!Line(",", 0))
  BY DEF PropsLeft
<1>4. L = [k \in 1..n |-> L[k]] /\ \A k \in 1..n : L[k] \in Seq(Bytes) /\ L[k] = Batch!SendProp(ps[k])
  BY <1>1, PropIs
<1>5. "," \in Tags
  BY DEF Tags
<1> HIDE DEF L, n
<1>6. RestIs(L, n, Batch!Line(",", 0), Bytes)
  BY ONLY <1>1, <1>4, <1>5, LeftIs
<1>7. \A i \in 0..(n - 1) : i + 1 \in 1..n
  BY <1>1
<1> QED BY <1>1, <1>2, <1>3, <1>4, <1>6, <1>7 DEF n, RestIs

\* The inserts of a reordering.
LEMMA InsertsLeftIs ==
  ASSUME NEW n \in Nat
  PROVE  /\ \A i \in 0..n : InsertsLeft(n, i) \in Seq(Bytes)
         /\ \A i \in 0..(n - 1) : InsertsLeft(n, i) = Batch!Line("insert", 0) \o InsertsLeft(n, i + 1)
         /\ InsertsLeft(n, n) = Batch!Line("%", 0)
         /\ FlattenSeq([k \in 1..n |-> Batch!Line("insert", 0)]) \o Batch!Line("%", 0) = InsertsLeft(n, 0)
<1> DEFINE L == [k \in 1..n |-> Batch!Line("insert", 0)]
<1>1. \A i : InsertsLeft(n, i) = Rest(L, i, Batch!Line("%", 0))
  BY DEF InsertsLeft
<1>2. "%" \in Tags /\ "insert" \in Tags
  BY DEF Tags
<1>3. L = [k \in 1..n |-> L[k]] /\ \A k \in 1..n : L[k] \in Seq(Bytes) /\ L[k] = Batch!Line("insert", 0)
  BY <1>2, LineIs
<1> HIDE DEF L
<1>4. RestIs(L, n, Batch!Line("%", 0), Bytes)
  BY ONLY <1>2, <1>3, LeftIs, n \in Nat
<1>5. \A i \in 0..(n - 1) : i + 1 \in 1..n
  OBVIOUS
<1> QED BY <1>1, <1>3, <1>4, <1>5 DEF RestIs, L

\* A command that adds or modifies has properties, one for each key; the others
\* have none, and one that reorders has inserts.
CommandKinds(c) ==
  /\ c.op \in {"add", "modify", "remove", "reorder"}
  /\ c.props \in Seq(Batch!Props) /\ c.inserts \in Nat
  /\ c = Batch!Command(c.op, c.props, c.inserts)
  /\ \A i \in 1..Len(c.props) : IsProp(c.props[i])
  /\ \A i, j \in 1..Len(c.props) : c.props[i].key = c.props[j].key => i = j
  /\ c.op \in {"remove", "reorder"} => c.props = <<>>
  /\ c.op # "reorder" => c.inserts = 0

LEMMA CommandHas ==
  ASSUME NEW c, Batch!IsCommand(c)
  PROVE  CommandKinds(c) /\ Len(c.props) \in Nat
<1> DEFINE S == Seq(Batch!Props)
<1>1. c \in [op : {"add", "modify", "remove", "reorder"}, props : S, inserts : Nat]
  BY DEF Batch!IsCommand, Batch!Sendable
<1>2. /\ \A i \in DOMAIN c.props :
           /\ IF c.props[i].value.many THEN c.props[i].value.vals \in Seq(Batch!SentValues) ELSE Len(c.props[i].value.vals) = 1
           /\ \A j \in DOMAIN c.props : c.props[i].key = c.props[j].key => i = j
      /\ c.op \in {"remove", "reorder"} => c.props = <<>>
      /\ c.op # "reorder" => c.inserts = 0
  BY DEF Batch!IsCommand
<1> HIDE DEF S
<1>3. /\ c.op \in {"add", "modify", "remove", "reorder"} /\ c.props \in S /\ c.inserts \in Nat
      /\ c = [op |-> c.op, props |-> c.props, inserts |-> c.inserts]
  BY ONLY <1>1
<1>4. Len(c.props) \in Nat /\ DOMAIN c.props = 1..Len(c.props) /\ \A i \in 1..Len(c.props) : c.props[i] \in Batch!Props
  BY ONLY <1>3 DEF S
<1>5. \A i \in 1..Len(c.props) : IsProp(c.props[i])
  BY <1>2, <1>4, Zenon DEF IsProp
<1>6. \A i, j \in 1..Len(c.props) : c.props[i].key = c.props[j].key => i = j
  BY <1>2, <1>4, Zenon
<1>7. c = Batch!Command(c.op, c.props, c.inserts)
  BY <1>3 DEF Batch!Command
<1> QED BY <1>2, <1>3, <1>4, <1>5, <1>6, <1>7, Zenon DEF CommandKinds, S

LEMMA CommandIs ==
  ASSUME NEW c, Batch!IsCommand(c)
  PROVE  /\ Batch!SendCommand(c) \in Seq(Bytes)
         /\ c.op \in {"add", "modify"} => \A h \in Seq(Bytes) : Batch!SendCommand(c) \o h =
              Batch!Line(Batch!Opening[c.op], 1) \o (PropsLeft(c.props, 0) \o h)
         /\ c.op = "remove" => Batch!SendCommand(c) = Batch!Line("-", 1)
         /\ c.op = "reorder" => \A h \in Seq(Bytes) : Batch!SendCommand(c) \o h =
              Batch!Line("%", 1) \o (InsertsLeft(c.inserts, 0) \o h)
<1> DEFINE a == Batch!Line(Batch!Opening[c.op], 1)
           n == c.inserts
           ps == c.props
<1>1. /\ c.op \in {"add", "modify", "remove", "reorder"} /\ n \in Nat /\ ps \in Seq(Batch!Props)
      /\ \A i \in 1..Len(ps) : IsProp(ps[i])
  BY CommandHas DEF CommandKinds
<1>0. c.op \in {"add", "modify", "remove", "reorder"}
  BY <1>1
<1>2. /\ Batch!Opening[c.op] \in Tags
      /\ c.op = "reorder" => Batch!Opening[c.op] = "%"
      /\ c.op = "remove" => Batch!Opening[c.op] = "-"
  <2>1. Batch!Opening["add"] = "+" /\ Batch!Opening["modify"] = "/" /\ Batch!Opening["remove"] = "-" /\ Batch!Opening["reorder"] = "%"
    BY DEF Batch!Opening
  <2>2. "+" \in Tags /\ "/" \in Tags /\ "-" \in Tags /\ "%" \in Tags
    BY DEF Tags
  <2>3. "add" # "remove" /\ "add" # "reorder" /\ "modify" # "remove" /\ "modify" # "reorder" /\ "remove" # "reorder"
    OBVIOUS
  <2>4. c.op = "add" \/ c.op = "modify" \/ c.op = "remove" \/ c.op = "reorder"
    BY ONLY <1>0
  <2> QED BY ONLY <2>1, <2>2, <2>3, <2>4, Zenon
<1>3. a \in Seq(Bytes)
  BY <1>2, LineIs
<1>4. CASE c.op \in {"add", "modify"}
  <2> DEFINE d == PropsLeft(ps, 0)
  <2>1. d \in Seq(Bytes) /\ Batch!Lines(Batch!SendProp, ps) \o Batch!Line(",", 0) = d
    <3>1. 0 \in 0..Len(ps)
      BY <1>1
    <3> QED BY ONLY <1>1, <3>1, PropsLeftIs
  <2>2. Batch!SendCommand(c) = a \o d
    BY <1>4, <2>1 DEF Batch!SendCommand
  <2> HIDE DEF a, d
  <2>3. a \o d \in Seq(Bytes) /\ \A h \in Seq(Bytes) : (a \o d) \o h = a \o (d \o h)
    <3>1. Two(a, d)
      BY ONLY <1>3, <2>1, JoinTwo
    <3> QED BY ONLY <3>1 DEF Two
  <2> QED BY <1>4, <2>2, <2>3 DEF a, d
<1>5. CASE c.op = "reorder"
  <2> DEFINE d == InsertsLeft(n, 0)
  <2>1. d \in Seq(Bytes) /\ FlattenSeq([i \in 1..n |-> Batch!Line("insert", 0)]) \o Batch!Line("%", 0) = d
    <3>1. 0 \in 0..n
      BY <1>1
    <3> QED BY ONLY <1>1, <3>1, InsertsLeftIs
  <2>2. Batch!SendCommand(c) = a \o d
    BY <1>5, <2>1, BatchOperators DEF Batch!SendCommand
  <2> HIDE DEF a, d
  <2>3. a \o d \in Seq(Bytes) /\ \A h \in Seq(Bytes) : (a \o d) \o h = a \o (d \o h)
    <3>1. Two(a, d)
      BY ONLY <1>3, <2>1, JoinTwo
    <3> QED BY ONLY <3>1 DEF Two
  <2> QED BY <1>2, <1>5, <2>2, <2>3 DEF a, d
<1>6. CASE c.op = "remove"
  <2>1. Batch!SendCommand(c) = a \o <<>>
    BY <1>6 DEF Batch!SendCommand
  <2>2. a \o <<>> = a
    BY <1>3, ConcatEmptySeq
  <2> QED BY <1>2, <1>3, <1>6, <2>1, <2>2
<1>7. c.op \in {"add", "modify"} \/ c.op = "reorder" \/ c.op = "remove"
  BY <1>1
<1> QED BY ONLY <1>4, <1>5, <1>6, <1>7, Zenon

LEMMA BatchHas ==
  ASSUME NEW b, Batch!IsBatch(b)
  PROVE  Len(b) \in Nat /\ DOMAIN b = 1..Len(b) /\ \A i \in 1..Len(b) : Batch!IsCommand(b[i])
<1>1. b \in Seq(Batch!Sendable) /\ \A i \in DOMAIN b : Batch!IsCommand(b[i])
  BY DEF Batch!IsBatch
<1> QED BY ONLY <1>1

LEMMA CommandsLeftIs ==
  ASSUME NEW b, Batch!IsBatch(b)
  PROVE  /\ \A i \in 0..Len(b) : CommandsLeft(b, i) \in Seq(Bytes)
         /\ \A i \in 0..(Len(b) - 1) : CommandsLeft(b, i) = Batch!SendCommand(b[i + 1]) \o CommandsLeft(b, i + 1)
         /\ CommandsLeft(b, Len(b)) = Batch!Line(".", 0)
         /\ Batch!SendCommands(b) = Batch!Line("M", 0) \o CommandsLeft(b, 0)
         /\ Batch!SendCommands(b) \in Seq(Bytes)
<1> DEFINE n == Len(b)
           L == [k \in 1..n |-> Batch!SendCommand(b[k])]
           m == Batch!Line("M", 0)
           f == Batch!Lines(Batch!SendCommand, b)
           e == Batch!Line(".", 0)
<1>1. n \in Nat /\ DOMAIN b = 1..n /\ \A i \in 1..n : Batch!IsCommand(b[i])
  BY BatchHas
<1>2. f = FlattenSeq(L)
  <2>1. [i \in DOMAIN b |-> Batch!SendCommand(b[i])] = L
    BY <1>1
  <2> QED BY <2>1, BatchOperators, Zenon DEF Batch!Lines
<1>3. \A i : CommandsLeft(b, i) = Rest(L, i, e)
  BY DEF CommandsLeft
<1>4. L = [k \in 1..n |-> L[k]] /\ \A k \in 1..n : L[k] \in Seq(Bytes) /\ L[k] = Batch!SendCommand(b[k])
  BY <1>1, CommandIs
<1>5. "." \in Tags /\ "M" \in Tags
  BY DEF Tags
<1>6. m \in Seq(Bytes) /\ e \in Seq(Bytes)
  BY <1>5, LineIs
<1>7. Batch!SendCommands(b) = (m \o f) \o e
  BY DEF Batch!SendCommands
<1> HIDE DEF L, n, e, f, m
<1>8. RestIs(L, n, Batch!Line(".", 0), Bytes)
  BY ONLY <1>1, <1>4, <1>5, LeftIs
<1>9. \A i \in 0..(n - 1) : i + 1 \in 1..n
  BY <1>1
<1>12. f \in Seq(Bytes)
  BY <1>2, <1>8 DEF RestIs
<1>10. f \in Seq(Bytes) /\ f \o e = CommandsLeft(b, 0)
  BY <1>12, <1>2, <1>3, <1>8 DEF RestIs, e
<1>11. (m \o f) \o e = m \o (f \o e) /\ (m \o f) \o e \in Seq(Bytes)
  <2>1. (m \o f) \o e = m \o (f \o e) /\ m \o f \in Seq(Bytes)
    <3>1. (m \o f) \o e = m \o (f \o e)
      <4>1. Assoc(m, f, e)
        BY ONLY <1>6, <1>12, AssocIs
      <4> QED BY ONLY <4>1 DEF Assoc
    <3>2. m \o f \in Seq(Bytes)
      BY ONLY <1>6, <1>12, BytesJoin
    <3> QED BY <3>1, <3>2
  <2>2. (m \o f) \o e \in Seq(Bytes)
    BY ONLY <1>6, <2>1, BytesJoin
  <2> QED BY <2>1, <2>2
<1> QED BY <1>1, <1>3, <1>4, <1>7, <1>8, <1>9, <1>10, <1>11 DEF n, RestIs, e, m

-----------------------------------------------------------------------------
(* BatchProtocol: what the reader of the server takes from the stream.      *)

Unread == unprocessed \o c2s
Flow   == bin \o Unread

LEMMA Cancel ==
  ASSUME NEW a \in Seq(Bytes), NEW b \in Seq(Bytes), NEW c \in Seq(Bytes), a \o b = a \o c
  PROVE  b = c
BY ConcatSimplifications, Zenon

\* u, which is not shorter than w, and c begin with w, and f comes after it.
Begins(u, c, w, f) ==
  /\ u \in Seq(Bytes) /\ c \in Seq(Bytes) /\ w \in Seq(Bytes) /\ f \in Seq(Bytes)
  /\ u \o c = w \o f /\ Len(w) <= Len(u)

\* What is left of u when w is taken.
Left(u, w) == SubSeq(u, Len(w) + 1, Len(u))

LEMMA Taken ==
  ASSUME NEW u, NEW c, NEW w, NEW f, Begins(u, c, w, f)
  PROVE  SubSeq(u, 1, Len(w)) = w /\ Left(u, w) \in Seq(Bytes) /\ Left(u, w) \o c = f /\ u = w \o Left(u, w)
<1>0. /\ u \in Seq(Bytes) /\ c \in Seq(Bytes) /\ w \in Seq(Bytes) /\ f \in Seq(Bytes)
      /\ u \o c = w \o f /\ Len(w) <= Len(u)
  BY DEF Begins
<1> DEFINE n == Len(w)
           m == Len(u)
           r == SubSeq(u, n + 1, m)
<1>1. n \in Nat /\ m \in Nat /\ n <= m /\ Len(c) \in Nat /\ Len(f) \in Nat
  BY <1>0
<1>2. Len(u \o c) = m + Len(c) /\ Len(w \o f) = n + Len(f)
  BY <1>0
<1>3. m + Len(c) = n + Len(f)
  BY <1>0, <1>2
<1>4. \A i \in 1..m : (u \o c)[i] = u[i]
  BY <1>0
<1>5. \A i \in 1..n : (w \o f)[i] = w[i]
  BY <1>0
<1>6. \A i \in 1..Len(c) : (u \o c)[m + i] = c[i]
  BY <1>0
<1>7. \A i \in 1..Len(f) : (w \o f)[n + i] = f[i]
  BY <1>0
<1>8. \A i \in 1..n : u[i] = w[i]
  BY <1>0, <1>1, <1>4, <1>5
<1>9. SubSeq(u, 1, n) = w
  <2>1. SubSeq(u, 1, n) \in Seq(Bytes) /\ Len(SubSeq(u, 1, n)) = n /\ \A i \in 1..n : SubSeq(u, 1, n)[i] = u[i]
    BY <1>0, <1>1
  <2> QED BY <1>0, <1>8, <2>1, SeqEqual
<1>10. r \in Seq(Bytes) /\ Len(r) = m - n /\ \A i \in 1..(m - n) : r[i] = u[n + i]
  BY <1>0, <1>1
<1>12. u = w \o r
  <2>1. 1 \in 1..(m + 1) /\ n \in (1 - 1)..m /\ m \in n..m
    BY <1>1
  <2>2. SubSeq(u, 1, n) \o SubSeq(u, n + 1, m) = SubSeq(u, 1, m)
    BY ONLY <1>0, <2>1, ConcatAdjacentSubSeq
  <2>3. SubSeq(u, 1, m) = u
    BY ONLY <1>0, SubSeqFull
  <2> QED BY <1>9, <2>2, <2>3
<1>11. r \o c = f
  <2>0. r \in Seq(Bytes)
    BY <1>10
  <2> HIDE DEF r
  <2>1. Assoc(w, r, c)
    BY ONLY <1>0, <2>0, AssocIs
  <2>2. w \o (r \o c) = w \o f /\ r \o c \in Seq(Bytes)
    BY <1>0, <1>12, <2>1 DEF Assoc
  <2> QED BY ONLY <1>0, <2>2, Cancel
<1> QED BY <1>9, <1>10, <1>11, <1>12 DEF Left

\* f is what is left to read of g, when it was sent only up to a byte at which
\* the controller raised, and t was sent then.
Cut(f, g, t) ==
  \E p, q \in Seq(Bytes) : g = p \o q /\ f = p \o t /\ q # <<>> /\ Batch!Raisable(q[1])

\* What is sent after a batch that was cut.
After(k) == IF k = "aborting" THEN Batch!Line("r", 0) ELSE <<>>

\* f is what is left to read when g is left of the batch, and the controller is in k.
Goes(k, f, g) == IF k = "waiting" THEN f = g ELSE Cut(f, g, After(k))

LEMMA AfterIs == \A k : After(k) \in Seq(Bytes)
<1>1. "r" \in Tags
  BY DEF Tags
<1> QED BY <1>1, LineIs, BytesJoin DEF After

LEMMA Peel ==
  ASSUME NEW k, NEW f, NEW w \in Seq(Bytes), NEW g \in Seq(Bytes), w # <<>>,
         \A i \in 2..Len(w) : ~Batch!Raisable(w[i]), Goes(k, f, w \o g)
  PROVE  \/ \E h \in Seq(Bytes) : f = w \o h /\ Goes(k, h, g)
         \/ k # "waiting" /\ f = After(k) /\ Batch!Raisable(w[1])
<1>1. CASE k = "waiting"
  BY <1>1 DEF Goes
<1>2. CASE k # "waiting"
  <2> DEFINE t == After(k)
  <2>0. t \in Seq(Bytes)
    BY AfterIs
  <2>1. PICK p, q \in Seq(Bytes) : w \o g = p \o q /\ f = p \o t /\ q # <<>> /\ Batch!Raisable(q[1])
    BY <1>2 DEF Goes, Cut
  <2> HIDE DEF t
  <2>2. CASE Len(w) <= Len(p)
    <3> DEFINE r == Left(p, w)
    <3>1. r \in Seq(Bytes) /\ r \o q = g /\ p = w \o r
      <4>1. Begins(p, q, w, g)
        BY <2>1, <2>2 DEF Begins
      <4> QED BY ONLY <4>1, Taken
    <3> HIDE DEF r
    <3>0. r \in Seq(Bytes)
      BY <3>1
    <3>3. r \o t \in Seq(Bytes) /\ (w \o r) \o t = w \o (r \o t)
      <4>1. Assoc(w, r, t)
        BY ONLY <2>0, <3>0, w \in Seq(Bytes), AssocIs
      <4> QED BY <4>1 DEF Assoc
    <3>4. Cut(r \o t, g, t)
      BY <2>1, <3>1, Zenon DEF Cut
    <3>5. Goes(k, r \o t, g)
      BY <1>2, <3>4 DEF Goes, t
    <3>6. f = w \o (r \o t)
      BY <2>1, <3>1, <3>3
    <3> QED BY ONLY <3>3, <3>5, <3>6, Zenon
  <2>3. CASE ~(Len(w) <= Len(p))
    <3>1. Len(p) \in Nat /\ Len(w) \in Nat /\ Len(q) \in Nat /\ Len(q) # 0
      BY <2>1
    <3>2. (p \o q)[Len(p) + 1] = q[1] /\ (w \o g)[Len(p) + 1] = w[Len(p) + 1]
      BY <2>3, <3>1
    <3>3. Batch!Raisable(w[Len(p) + 1])
      BY <2>1, <3>2
    <3>4. Len(p) + 1 \notin 2..Len(w)
      BY <3>3
    <3>5. Len(p) = 0
      BY <2>3, <3>1, <3>4
    <3>6. p = <<>>
      BY <3>5
    <3>7. f = t
      BY <2>0, <2>1, <3>6, BytesJoin
    <3> QED BY <1>2, <3>3, <3>5, <3>7 DEF t
  <2> QED BY <2>2, <2>3
<1> QED BY <1>1, <1>2

LEMMA FirstByte ==
  ASSUME NEW a \in Seq(Bytes), NEW b \in Seq(Bytes), Len(a) >= 1
  PROVE  (a \o b)[1] = a[1]
BY SMT

LEMMA OneByte ==
  ASSUME NEW a \in Seq(Bytes), Len(a) >= 1
  PROVE  SubSeq(a, 1, 1) = <<a[1]>>
<1>1. SubSeq(a, 1, 1) \in Seq(Bytes) /\ Len(SubSeq(a, 1, 1)) = 1 /\ SubSeq(a, 1, 1)[1] = a[1]
  OBVIOUS
<1>2. a[1] \in Bytes
  OBVIOUS
<1> DEFINE s == SubSeq(a, 1, 1)
           e == a[1]
<1> HIDE DEF s, e
<1>3. s \in Seq(Bytes) /\ Len(s) = 1 /\ s[1] = e
  BY ONLY <1>1 DEF s, e
<1>4. s = <<e>>
  BY ONLY <1>3
<1> QED BY <1>4 DEF s, e

LEMMA FirstNewline ==
  ASSUME NEW u, Len(u) \in Nat, Len(u) >= 2, u[1] # Batch!NL, u[2] = Batch!NL
  PROVE  Batch!SelectInSeq(u, LAMBDA b : b = Batch!NL) = 2
<1> DEFINE I == {i \in 1..Len(u) : u[i] = Batch!NL}
<1>1. 2 \in I /\ \A i \in I : 2 <= i
  OBVIOUS
<1>2. Batch!SelectInSeq(u, LAMBDA b : b = Batch!NL) = IF I # {} THEN Batch!Min(I) ELSE 0
  BY Zenon DEF Batch!SelectInSeq
<1>3. Batch!Min(I) = CHOOSE x \in I : \A y \in I : x <= y
  BY Zenon DEF Batch!Min
<1>4. \A x \in I : (\A y \in I : x <= y) => x = 2
  BY <1>1
<1> QED BY <1>1, <1>2, <1>3, <1>4

BytesOK    == unprocessed \in Seq(Bytes) /\ c2s \in Seq(Bytes) /\ bin \in Seq(Bytes)
Processing == Batch!ProcessLine \/ Batch!ProcessString \/ Batch!ProcessBinary

\* What a step of the reader that processes line leaves in the stream is h.
Processes(line, h) ==
  /\ Batch!Process(line) /\ UNCHANGED <<client, sent, batches>>
  /\ bin' = <<>> /\ Flow' = h /\ BytesOK'

\* A step that only fills the buffer of binary data.
Buffers ==
  /\ UNCHANGED <<client, sent, batches, s2c, conn, received, kept, stack, Batch!parse>>
  /\ Flow' = Flow /\ BytesOK'

LEMMA FlowIs ==
  ASSUME BytesOK
  PROVE  Unread \in Seq(Bytes) /\ Flow \in Seq(Bytes) /\ (bin = <<>> => Flow = Unread)
<1>1. unprocessed \in Seq(Bytes) /\ c2s \in Seq(Bytes) /\ bin \in Seq(Bytes)
  BY DEF BytesOK
<1>2. Unread \in Seq(Bytes)
  BY ONLY <1>1, BytesJoin DEF Unread
<1>3. Flow \in Seq(Bytes)
  BY ONLY <1>1, <1>2, BytesJoin DEF Flow
<1>4. bin = <<>> => Flow = Unread
  BY ONLY <1>2, BytesJoin DEF Flow
<1> QED BY <1>2, <1>3, <1>4

\* After a step that leaves bin empty.
LEMMA FlowNext ==
  ASSUME c2s \in Seq(Bytes), unprocessed' \in Seq(Bytes), c2s' = c2s, bin' = <<>>
  PROVE  Flow' = unprocessed' \o c2s /\ BytesOK'
<1>1. unprocessed' \o c2s \in Seq(Bytes)
  BY ONLY BytesJoin, c2s \in Seq(Bytes), unprocessed' \in Seq(Bytes)
<1>2. <<>> \o (unprocessed' \o c2s) = unprocessed' \o c2s
  BY ONLY <1>1, BytesJoin
<1>3. <<>> \in Seq(Bytes)
  BY BytesJoin
<1> QED BY <1>2, <1>3 DEF Flow, Unread, BytesOK

\* A line, when the processor wants one.
LEMMA ReadsLine ==
  ASSUME BytesOK, bin = <<>>, want.kind = "line", NEW x \in Bytes, x # Batch!NL, NEW h \in Seq(Bytes),
         Flow = <<x, Batch!NL>> \o h, Processing
  PROVE  Processes(<<x>>, h)
<1> DEFINE u == unprocessed
           w == <<x, Batch!NL>>
<1>1. u \in Seq(Bytes) /\ c2s \in Seq(Bytes) /\ Len(u) \in Nat
  BY DEF BytesOK
<1>2. Unread = w \o h /\ Unread = u \o c2s
  BY FlowIs DEF Unread
<1>3. w \in Seq(Bytes) /\ Len(w) = 2 /\ w[1] = x /\ w[2] = Batch!NL
  <2>1. Batch!NL \in Bytes
    BY DEF Batch!NL, Bytes, Tags
  <2> QED BY <2>1
<1>4. Batch!ProcessLine
  BY DEF Processing, Batch!ProcessString, Batch!ProcessBinary, Batch!HasString, Batch!HasBinary
<1>5. PICK i \in 1..Len(u) : u[i] = Batch!NL
  <2>1. Batch!NL \in Batch!ToSet(u) /\ DOMAIN u = 1..Len(u)
    BY <1>1, <1>4 DEF Batch!ProcessLine, Batch!HasLine
  <2> QED BY <2>1 DEF Batch!ToSet
<1> HIDE DEF w
<1>6. (u \o c2s)[1] = u[1] /\ (w \o h)[1] = w[1]
  <2>1. Len(u) >= 1 /\ Len(w) >= 1
    BY <1>1, <1>3, <1>5
  <2> QED BY ONLY <1>1, <1>3, <2>1, FirstByte, h \in Seq(Bytes)
<1>7. u[1] = x
  BY <1>2, <1>3, <1>6
<1>8. i # 1 /\ Len(u) >= 2 /\ Len(w) <= Len(u)
  BY <1>1, <1>3, <1>5, <1>7
<1>9. Begins(u, c2s, w, h)
  BY <1>1, <1>2, <1>3, <1>8 DEF Begins
<1>10. SubSeq(u, 1, Len(w)) = w /\ Left(u, w) \in Seq(Bytes) /\ Left(u, w) \o c2s = h
  BY ONLY <1>9, Taken
<1>11. u[2] = Batch!NL
  <2>1. SubSeq(u, 1, 2)[2] = u[2]
    BY <1>1, <1>8
  <2> QED BY <1>3, <1>10, <2>1
<1>12. Batch!SelectInSeq(u, LAMBDA b : b = Batch!NL) = 2
  BY ONLY <1>1, <1>7, <1>8, <1>11, x # Batch!NL, FirstNewline
<1>13. Batch!Pass(1)
  <2>1. Batch!Pass(Batch!SelectInSeq(u, LAMBDA b : b = Batch!NL) - 1)
    BY <1>4, Zenon DEF Batch!ProcessLine
  <2>2. Batch!SelectInSeq(u, LAMBDA b : b = Batch!NL) - 1 = 1
    BY ONLY <1>12
  <2> QED BY ONLY <2>1, <2>2, Zenon
<1>14. /\ unprocessed' = Left(u, w) /\ c2s' = c2s /\ bin' = bin /\ UNCHANGED <<client, sent, batches>>
       /\ Batch!Process(SubSeq(u, 1, 1))
  <2>1. unprocessed' = SubSeq(u, 1 + 2, Len(u)) /\ Batch!Process(SubSeq(u, 1, 1)) /\ UNCHANGED <<client, sent, batches, c2s, bin>>
    BY <1>13, Zenon DEF Batch!Pass
  <2>2. SubSeq(u, 1 + 2, Len(u)) = Left(u, w)
    BY <1>3 DEF Left
  <2> QED BY <2>1, <2>2
<1>15. SubSeq(u, 1, 1) = <<x>>
  <2>1. Len(u) >= 1
    BY <1>1, <1>8
  <2>2. SubSeq(u, 1, 1) = <<u[1]>>
    BY ONLY <1>1, <2>1, OneByte
  <2> QED BY <1>7, <2>2
<1>16. Flow' = h /\ BytesOK'
  BY <1>1, <1>10, <1>14, FlowNext
<1> QED BY <1>14, <1>15, <1>16, Zenon DEF Processes

LEMMA ReadsNothing ==
  ASSUME BytesOK, bin = <<>>, want.kind = "line", Flow = <<>>, Processing
  PROVE  FALSE
<1>1. unprocessed \in Seq(Bytes) /\ c2s \in Seq(Bytes)
  BY DEF BytesOK
<1>2. unprocessed = <<>>
  BY <1>1, FlowIs DEF Unread
<1> QED BY <1>2 DEF Processing, Batch!ProcessLine, Batch!ProcessString, Batch!ProcessBinary,
                     Batch!HasLine, Batch!HasString, Batch!HasBinary, Batch!ToSet

\* A string with its newline, when the processor wants it.
LEMMA ReadsString ==
  ASSUME BytesOK, bin = <<>>, NEW d \in Seq(Bytes), want = [kind |-> "string", left |-> Len(d) + 1],
         NEW h \in Seq(Bytes), Flow = (d \o <<Batch!NL>>) \o h, Processing
  PROVE  Processes(d, h)
<1> DEFINE u == unprocessed
           e == <<Batch!NL>>
           w == d \o e
<1>1. u \in Seq(Bytes) /\ c2s \in Seq(Bytes) /\ Len(u) \in Nat /\ Len(d) \in Nat
  BY DEF BytesOK
<1>2. e \in Seq(Bytes) /\ Len(e) = 1
  <2>1. Batch!NL \in Bytes
    BY DEF Batch!NL, Bytes, Tags
  <2> QED BY <2>1
<1>3. Unread = w \o h /\ Unread = u \o c2s
  BY FlowIs DEF Unread
<1>4. want.kind = "string" /\ want.left = Len(d) + 1
  OBVIOUS
<1>5. Batch!HasString /\ Batch!Pass(want.left - 1)
  BY <1>4 DEF Processing, Batch!ProcessLine, Batch!ProcessString, Batch!ProcessBinary, Batch!HasLine, Batch!HasBinary
<1> HIDE DEF e
<1>6. Assoc(d, e, h)
  BY ONLY <1>2, d \in Seq(Bytes), h \in Seq(Bytes), AssocIs
<1>7. w \in Seq(Bytes) /\ Len(w) = Len(d) + 1 /\ w \o h = d \o (e \o h) /\ e \o h \in Seq(Bytes)
  <2>1. Len(d \o e) = Len(d) + 1
    <3>1. Len(d \o e) = Len(d) + Len(e)
      BY ONLY <1>2, d \in Seq(Bytes), ConcatProperties, Zenon
    <3> QED BY ONLY <1>2, <3>1
  <2>2. (d \o e) \o h = d \o (e \o h) /\ d \o e \in Seq(Bytes) /\ e \o h \in Seq(Bytes)
    BY ONLY <1>6 DEF Assoc
  <2> HIDE DEF e
  <2> QED BY ONLY <2>1, <2>2, Zenon
<1> HIDE DEF w
<1>8. Len(w) <= Len(u) /\ Len(d) <= Len(u)
  BY <1>1, <1>4, <1>5, <1>7 DEF Batch!HasString
<1>9. Begins(u, c2s, w, h) /\ Begins(u, c2s, d, e \o h)
  BY <1>1, <1>3, <1>7, <1>8 DEF Begins
<1>10. Left(u, w) \in Seq(Bytes) /\ Left(u, w) \o c2s = h
  BY ONLY <1>9, Taken
<1>11. SubSeq(u, 1, Len(d)) = d
  BY ONLY <1>9, Taken
<1>12. /\ unprocessed' = SubSeq(u, want.left - 1 + 2, Len(u)) /\ Batch!Process(SubSeq(u, 1, want.left - 1))
       /\ UNCHANGED <<client, sent, batches, c2s, bin>>
  BY <1>5, Zenon DEF Batch!Pass
<1>13. want.left - 1 = Len(d) /\ want.left - 1 + 2 = Len(w) + 1
  BY <1>1, <1>4, <1>7
<1>14. unprocessed' = Left(u, w)
  BY ONLY <1>12, <1>13, Zenon DEF Left
<1>15. Batch!Process(d)
  BY ONLY <1>11, <1>12, <1>13, Zenon
<1>16. Flow' = h /\ BytesOK'
  BY <1>1, <1>10, <1>12, <1>14, FlowNext
<1> QED BY <1>12, <1>15, <1>16, Zenon DEF Processes

LEMMA EqualFront ==
  ASSUME NEW a \in Seq(Bytes), NEW b \in Seq(Bytes), NEW w \in Seq(Bytes), NEW h \in Seq(Bytes),
         a \o b = w \o h, Len(a) = Len(w)
  PROVE  a = w /\ b = h
<1>1. Begins(a, b, w, h)
  <2>1. Len(w) \in Nat
    OBVIOUS
  <2>2. Len(w) <= Len(a)
    BY <2>1
  <2> QED BY <2>2 DEF Begins
<1>2. SubSeq(a, 1, Len(w)) = w
  BY ONLY <1>1, Taken
<1>3. SubSeq(a, 1, Len(a)) = a
  BY ONLY SubSeqFull, a \in Seq(Bytes)
<1>4. a = w
  BY <1>2, <1>3
<1>5. w \o b = w \o h
  BY <1>4
<1>6. b = h
  BY ONLY <1>5, b \in Seq(Bytes), w \in Seq(Bytes), h \in Seq(Bytes), Cancel
<1> QED BY <1>4, <1>6

\* The last byte and the others of data and a newline.
LEMMA FrontOf ==
  ASSUME NEW d \in Seq(Bytes), NEW x \in Bytes
  PROVE  Batch!Last(d \o <<x>>) = x /\ Batch!Front(d \o <<x>>) = d
<1>1. Len(d) \in Nat /\ Len(d \o <<x>>) = Len(d) + 1 /\ (d \o <<x>>)[Len(d) + 1] = x
  OBVIOUS
<1>2. <<x>> \in Seq(Bytes)
  OBVIOUS
<1>3. <<x>> \o <<>> = <<x>>
  BY ONLY <1>2, BytesJoin
<1>4. Begins(d \o <<x>>, <<>>, d, <<x>>)
  <2>1. d \o <<x>> \in Seq(Bytes) /\ <<>> \in Seq(Bytes)
    BY ONLY <1>2, BytesJoin, d \in Seq(Bytes)
  <2>2. (d \o <<x>>) \o <<>> = d \o <<x>>
    BY ONLY <2>1, BytesJoin
  <2> QED BY <1>1, <1>2, <2>1, <2>2 DEF Begins
<1>5. SubSeq(d \o <<x>>, 1, Len(d)) = d
  BY ONLY <1>4, Taken
<1>6. (Len(d) + 1) - 1 = Len(d)
  BY <1>1
<1> QED BY <1>1, <1>5, <1>6, BatchOperators

WantsBinary(d) == /\ want = [kind |-> "binary", left |-> (Len(d) + 1) - Len(bin)]
                  /\ Len(bin) <= Len(d)

\* A binary with its newline, or a part of it.
LEMMA ReadsBinary ==
  ASSUME BytesOK, NEW d \in Seq(Bytes), WantsBinary(d),
         NEW h \in Seq(Bytes), Flow = (d \o <<Batch!NL>>) \o h, Processing
  PROVE  Processes(d, h) \/ (Buffers /\ WantsBinary(d)')
<1> DEFINE u == unprocessed
           w == d \o <<Batch!NL>>
           n == IF Len(u) < want.left THEN Len(u) ELSE want.left
           y == SubSeq(u, 1, n)
           z == SubSeq(u, n + 1, Len(u))
           got == bin \o y
<1>1. u \in Seq(Bytes) /\ c2s \in Seq(Bytes) /\ bin \in Seq(Bytes)
  BY DEF BytesOK
<1>2. Len(u) \in Nat /\ Len(d) \in Nat /\ Len(bin) \in Nat
  BY <1>1
<1>3. want.kind = "binary" /\ want.left = (Len(d) + 1) - Len(bin) /\ Len(bin) <= Len(d)
  BY DEF WantsBinary
<1>4. n \in 0..Len(u) /\ n <= want.left
  BY <1>2, <1>3
<1>5. Batch!NL \in Bytes
  BY DEF Batch!NL, Bytes, Tags
<1>6. w \in Seq(Bytes) /\ Len(w) = Len(d) + 1
  BY <1>5
<1>7. /\ unprocessed' = z /\ UNCHANGED <<client, sent, batches, c2s>>
      /\ IF n < want.left
         THEN /\ bin' = got /\ want' = [want EXCEPT !.left = @ - n]
              /\ Batch!Quiet /\ UNCHANGED <<stack, Batch!parse>>
         ELSE /\ bin' = <<>>
              /\ IF Batch!Last(got) = Batch!NL THEN Batch!Process(Batch!Front(got)) ELSE Batch!Trapped
  <2>1. Batch!ProcessBinary
    BY <1>3 DEF Processing, Batch!ProcessLine, Batch!ProcessString, Batch!HasLine, Batch!HasString
  <2> QED BY <2>1, Zenon DEF Batch!ProcessBinary
<1> HIDE DEF n
<1>8. y \in Seq(Bytes) /\ z \in Seq(Bytes) /\ Len(y) = n /\ y \o z = u
  <2>1. y \in Seq(Bytes) /\ z \in Seq(Bytes) /\ Len(y) = n
    BY <1>1, <1>2, <1>4
  <2>2. 1 \in 1..(Len(u) + 1) /\ n \in (1 - 1)..Len(u) /\ Len(u) \in n..Len(u)
    BY <1>2, <1>4
  <2>3. y \o z = SubSeq(u, 1, Len(u))
    BY ONLY <1>1, <2>2, ConcatAdjacentSubSeq
  <2>4. SubSeq(u, 1, Len(u)) = u
    BY ONLY <1>1, SubSeqFull
  <2> QED BY <2>1, <2>3, <2>4
<1>9. CASE n < want.left
  <2>1. n = Len(u)
    BY <1>2, <1>3, <1>9 DEF n
  <2>2. z = <<>>
    BY <1>2, <2>1
  <2> HIDE DEF y, z
  <2>3. y = u
    BY ONLY <1>8, <2>2, BytesJoin
  <2>4. bin' = bin \o u /\ unprocessed' = <<>> /\ c2s' = c2s
    BY <1>7, <1>9, <2>2, <2>3
  <2>5. <<>> \in Seq(Bytes) /\ <<>> \o c2s = c2s /\ bin \o u \in Seq(Bytes)
    BY ONLY <1>1, BytesJoin
  <2>6. Assoc(bin, u, c2s)
    BY ONLY <1>1, AssocIs
  <2>7. Flow' = Flow /\ BytesOK'
    BY <1>1, <2>4, <2>5, <2>6 DEF Flow, Unread, BytesOK, Assoc
  <2>8. Len(bin \o u) = Len(bin) + n
    BY <1>1, <2>1
  <2>9. want' = [kind |-> "binary", left |-> (Len(d) + 1) - (Len(bin) + n)]
    <3>1. want' = [want EXCEPT !.left = @ - n]
      BY <1>7, <1>9
    <3>2. want = [kind |-> "binary", left |-> (Len(d) + 1) - Len(bin)]
      BY DEF WantsBinary
    <3> QED BY <1>2, <1>4, <3>1, <3>2
  <2>10. WantsBinary(d)'
    BY <1>2, <1>3, <1>4, <1>9, <2>4, <2>8, <2>9 DEF WantsBinary
  <2>11. UNCHANGED <<client, sent, batches, s2c, conn, received, kept, stack, Batch!parse>>
    BY <1>7, <1>9, Zenon DEF Batch!Quiet
  <2> QED BY <2>7, <2>10, <2>11, Zenon DEF Buffers
<1>10. CASE ~(n < want.left)
  <2>1. n = want.left
    BY <1>2, <1>3, <1>4, <1>10
  <2> HIDE DEF y, z
  <2>2. got \in Seq(Bytes) /\ Len(got) = Len(w)
    BY <1>1, <1>2, <1>3, <1>6, <1>8, <2>1
  <2>3. Assoc(y, z, c2s) /\ Assoc(bin, y, z \o c2s) /\ z \o c2s \in Seq(Bytes)
    <3>1. z \o c2s \in Seq(Bytes)
      BY ONLY <1>1, <1>8, BytesJoin
    <3> QED BY ONLY <1>1, <1>8, <3>1, AssocIs
  <2>4. Flow = got \o (z \o c2s)
    BY <1>8, <2>3 DEF Assoc, Flow, Unread
  <2> HIDE DEF got, w
  <2>5. got = w /\ z \o c2s = h
    <3>1. got \o (z \o c2s) = w \o h
      BY <2>4 DEF w
    <3>2. Len(got) = Len(w) /\ got \in Seq(Bytes) /\ w \in Seq(Bytes) /\ z \o c2s \in Seq(Bytes)
      BY <1>6, <2>2, <2>3
    <3> QED BY ONLY <3>1, <3>2, h \in Seq(Bytes), EqualFront
  <2>6. Batch!Last(w) = Batch!NL /\ Batch!Front(w) = d
    BY ONLY <1>5, FrontOf, d \in Seq(Bytes) DEF w
  <2>7. Batch!Process(d) /\ bin' = <<>> /\ unprocessed' = z /\ UNCHANGED <<client, sent, batches, c2s>>
    BY ONLY <1>7, <1>10, <2>5, <2>6, Zenon
  <2>9. UNCHANGED <<client, sent, batches>>
    BY <2>7
  <2>8. Flow' = h /\ BytesOK'
    <3>1. c2s \in Seq(Bytes) /\ unprocessed' \in Seq(Bytes) /\ c2s' = c2s /\ bin' = <<>>
      BY <1>1, <1>8, <2>7
    <3>2. Flow' = unprocessed' \o c2s /\ BytesOK'
      BY ONLY <3>1, FlowNext
    <3> QED BY <2>5, <2>7, <3>2
  <2>10. Processes(d, h)
    BY ONLY <2>7, <2>8, <2>9 DEF Processes
  <2> QED BY <2>10
<1> QED BY <1>9, <1>10

-----------------------------------------------------------------------------
(* BatchProtocol: where the parser is when g is left of batch b.            *)

\* The last property of b's first i commands, and of the first j properties of the
\* next one, is a list.
LastList(b, i, j) ==
  IF j > 0 THEN b[i + 1].props[j].value.many
  ELSE \E m \in 1..i :
         /\ b[m].props # <<>> /\ b[m].props[Len(b[m].props)].value.many
         /\ \A l \in (m + 1)..i : b[l].props = <<>>

\* No batch removes a property right after a list.
NoneAfterList ==
  \A b \in Batches : \A i \in 0..(Len(b) - 1) : \A j \in 0..(Len(b[i + 1].props) - 1) :
    LastList(b, i, j) => b[i + 1].props[j + 1].value # Batch!One(Batch!None)

Got(b, n) == [i \in 1..n |-> Batch!AsReceived(b[i])]
Dict(ps, n) == [k \in {ps[i].key : i \in 1..n} |-> ps[CHOOSE i \in 1..n : ps[i].key = k].value]
Pending == IF prop_values # Batch!NoValues THEN Batch!Many(prop_values) ELSE Batch!One(prop_value)

WantsLine == bin = <<>> /\ want = [kind |-> "line", left |-> 0]

\* The value of prop_values is that of the last property, or of none.
ListOnly(b, i, j) == prop_values # Batch!NoValues => LastList(b, i, j)

\* The parse has i commands, and of the next one n properties.
Parsed(b, i, n, key) ==
  /\ commands = Got(b, i) /\ command = Batch!Command(b[i + 1].op, Dict(b[i + 1].props, n), 0)
  /\ prop_name = key

AtCommand(b, i, g) ==
  /\ i \in 0..Len(b) /\ stack = <<"MultipleOne">> /\ WantsLine
  /\ g = CommandsLeft(b, i)
  /\ NoneAfterList => Batch!Complete = Got(b, i) /\ ListOnly(b, i, 0)

\* Command i + 1 of b is one with properties.
HasProps(b, i) == i \in 0..(Len(b) - 1) /\ b[i + 1].op \in {"add", "modify"}

PropsRest(b, i, j) == PropsLeft(b[i + 1].props, j) \o CommandsLeft(b, i + 1)

AtProps(b, i, j, g) ==
  /\ HasProps(b, i) /\ j \in 0..Len(b[i + 1].props)
  /\ stack = <<"MultipleOne", "Props">> /\ WantsLine
  /\ g = PropsRest(b, i, j)
  /\ NoneAfterList =>
       /\ ListOnly(b, i, j)
       /\ IF j = 0 THEN Parsed(b, i, 0, 0)
          ELSE Parsed(b, i, j - 1, b[i + 1].props[j].key) /\ Pending = b[i + 1].props[j].value

\* A value that is sent as data.
Cont(v) == IF v.type = "s" THEN "String" ELSE "Binary"
WantsData(v) ==
  \/ v.type = "s" /\ bin = <<>> /\ want = [kind |-> "string", left |-> Len(v.data) + 1]
  \/ v.type = "x" /\ WantsBinary(v.data)

HasOne(b, i, j) == HasProps(b, i) /\ j \in 0..(Len(b[i + 1].props) - 1) /\ OneProp(b[i + 1].props[j + 1])
OneOf(b, i, j)  == b[i + 1].props[j + 1].value.vals[1]
ParsedOne(b, i, j) == Parsed(b, i, j, b[i + 1].props[j + 1].key) /\ prop_values = Batch!NoValues

AtProp(b, i, j, g) ==
  /\ HasOne(b, i, j)
  /\ stack = <<"MultipleOne", "Props", "Prop">> /\ WantsLine
  /\ g = Batch!SendOneProp(OneOf(b, i, j)) \o PropsRest(b, i, j + 1)
  /\ NoneAfterList => ParsedOne(b, i, j)

AtPropData(b, i, j, g) ==
  /\ HasOne(b, i, j) /\ OneOf(b, i, j).type # "l"
  /\ stack = <<"MultipleOne", "Props", Cont(OneOf(b, i, j))>> /\ WantsData(OneOf(b, i, j))
  /\ g = (OneOf(b, i, j).data \o <<Batch!NL>>) \o PropsRest(b, i, j + 1)
  /\ NoneAfterList => ParsedOne(b, i, j)

HasList(b, i, j) == HasProps(b, i) /\ j \in 0..(Len(b[i + 1].props) - 1) /\ ListProp(b[i + 1].props[j + 1])
ListOf(b, i, j)  == b[i + 1].props[j + 1].value.vals
ParsedList(b, i, j, k) ==
  Parsed(b, i, j, b[i + 1].props[j + 1].key) /\ prop_values = SubSeq(ListOf(b, i, j), 1, k)

AtPropMulti(b, i, j, k, g) ==
  /\ HasList(b, i, j) /\ k \in 0..Len(ListOf(b, i, j))
  /\ stack = <<"MultipleOne", "Props", "PropMulti">> /\ WantsLine
  /\ g = ValuesLeft(ListOf(b, i, j), k) \o PropsRest(b, i, j + 1)
  /\ NoneAfterList => ParsedList(b, i, j, k)

AtMultiData(b, i, j, k, g) ==
  /\ HasList(b, i, j) /\ k \in 0..(Len(ListOf(b, i, j)) - 1) /\ ListOf(b, i, j)[k + 1].type # "l"
  /\ stack = <<"MultipleOne", "Props", "PropMulti", Cont(ListOf(b, i, j)[k + 1])>>
  /\ WantsData(ListOf(b, i, j)[k + 1])
  /\ g = (ListOf(b, i, j)[k + 1].data \o <<Batch!NL>>)
           \o (ValuesLeft(ListOf(b, i, j), k + 1) \o PropsRest(b, i, j + 1))
  /\ NoneAfterList => ParsedList(b, i, j, k)

AtInserts(b, i, k, g) ==
  /\ i \in 0..(Len(b) - 1) /\ b[i + 1].op = "reorder" /\ k \in 0..b[i + 1].inserts
  /\ stack = <<"MultipleOne", "Inserts">> /\ WantsLine
  /\ g = InsertsLeft(b[i + 1].inserts, k) \o CommandsLeft(b, i + 1)
  /\ NoneAfterList =>
       /\ commands = Got(b, i) /\ command = Batch!Command("reorder", Dict(b[i + 1].props, 0), k)
       /\ ListOnly(b, i, 0)

Synced == stack = <<>> /\ WantsLine /\ command = Batch!NoCommand

AtStart(b, g) == Synced /\ g = Batch!SendCommands(b)

At(b, g) ==
  \/ AtStart(b, g)
  \/ \E i \in Nat : AtCommand(b, i, g)
  \/ \E i, j \in Nat : AtProps(b, i, j, g) \/ AtProp(b, i, j, g) \/ AtPropData(b, i, j, g)
  \/ \E i, j, k \in Nat : AtPropMulti(b, i, j, k, g) \/ AtMultiData(b, i, j, k, g)
  \/ \E i, k \in Nat : AtInserts(b, i, k, g)

-----------------------------------------------------------------------------
(* BatchProtocol: a step of the processor.                                  *)

LEMMA Dispatch ==
  ASSUME NEW line, NEW below, NEW cont, stack # <<>>, Batch!Last(stack) = cont, Batch!Front(stack) = below,
         Batch!Process(line)
  PROVE  /\ cont = "MultipleOne" => Batch!ExpectMultipleOne(line[1], below)
         /\ cont = "Props" => Batch!ExpectProps(line[1], below)
         /\ cont = "Prop" => Batch!ExpectProp(line[1], below)
         /\ cont = "PropMulti" => Batch!ExpectPropMulti(line[1], below)
         /\ cont = "String" => Batch!ExpectData("s", line, below)
         /\ cont = "Binary" => Batch!ExpectData("x", line, below)
         /\ cont = "Inserts" => Batch!ExpectInserts(line[1], below)
BY DEF Batch!Process

LEMMA Stacks ==
  /\ \A a : Batch!Last(<<a>>) = a /\ Batch!Front(<<a>>) = <<>>
  /\ \A a, b : Batch!Last(<<a, b>>) = b /\ Batch!Front(<<a, b>>) = <<a>>
  /\ \A a, b, c : Batch!Last(<<a, b, c>>) = c /\ Batch!Front(<<a, b, c>>) = <<a, b>>
  /\ \A a, b, c, d : Batch!Last(<<a, b, c, d>>) = d /\ Batch!Front(<<a, b, c, d>>) = <<a, b, c>>
<1>1. ASSUME NEW a PROVE Batch!Last(<<a>>) = a /\ Batch!Front(<<a>>) = <<>>
  <2> DEFINE T == {a}
             t == <<a>>
             s == SubSeq(t, 1, 0)
  <2>1. t \in Seq(T) /\ Len(t) = 1 /\ t[1] = a
    OBVIOUS
  <2> HIDE DEF T, t, s
  <2>2. Batch!Last(t) = a /\ Batch!Front(t) = s
    <3>1. Batch!Last(t) = t[Len(t)] /\ Batch!Front(t) = SubSeq(t, 1, Len(t) - 1)
      BY ONLY BatchOperators, Zenon
    <3>2. Len(t) = 1 /\ Len(t) - 1 = 0
      BY ONLY <2>1
    <3>3. t[1] = a
      BY ONLY <2>1
    <3>4. Batch!Last(t) = t[1] /\ Batch!Front(t) = SubSeq(t, 1, 0)
      BY ONLY <3>1, <3>2, Zenon
    <3> QED BY <3>3, <3>4 DEF s
  <2>3. s = <<>>
    BY ONLY <2>1 DEF s
  <2> QED BY <2>2, <2>3 DEF t
<1>2. ASSUME NEW a, NEW b PROVE Batch!Last(<<a, b>>) = b /\ Batch!Front(<<a, b>>) = <<a>>
  <2> DEFINE T == {a, b}
             t == <<a, b>>
             s == SubSeq(t, 1, 1)
  <2>1. t \in Seq(T) /\ Len(t) = 2 /\ t[1] = a /\ t[2] = b
    OBVIOUS
  <2> HIDE DEF T, t, s
  <2>2. Batch!Last(t) = b /\ Batch!Front(t) = s
    <3>1. Batch!Last(t) = t[Len(t)] /\ Batch!Front(t) = SubSeq(t, 1, Len(t) - 1)
      BY ONLY BatchOperators, Zenon
    <3>2. Len(t) = 2 /\ Len(t) - 1 = 1
      BY ONLY <2>1
    <3>3. t[2] = b
      BY ONLY <2>1
    <3>4. Batch!Last(t) = t[2] /\ Batch!Front(t) = SubSeq(t, 1, 1)
      BY ONLY <3>1, <3>2, Zenon
    <3> QED BY <3>3, <3>4 DEF s
  <2>3. s \in Seq(T) /\ Len(s) = 1 /\ s[1] = a
    BY ONLY <2>1 DEF s
  <2>4. s = <<a>>
    BY ONLY <2>3
  <2> QED BY <2>2, <2>4 DEF t
<1>3. ASSUME NEW a, NEW b, NEW c PROVE Batch!Last(<<a, b, c>>) = c /\ Batch!Front(<<a, b, c>>) = <<a, b>>
  <2> DEFINE T == {a, b, c}
             t == <<a, b, c>>
             s == SubSeq(t, 1, 2)
  <2>1. t \in Seq(T) /\ Len(t) = 3 /\ t[1] = a /\ t[2] = b /\ t[3] = c
    OBVIOUS
  <2> HIDE DEF T, t, s
  <2>2. Batch!Last(t) = c /\ Batch!Front(t) = s
    <3>1. Batch!Last(t) = t[Len(t)] /\ Batch!Front(t) = SubSeq(t, 1, Len(t) - 1)
      BY ONLY BatchOperators, Zenon
    <3>2. Len(t) = 3 /\ Len(t) - 1 = 2
      BY ONLY <2>1
    <3>3. t[3] = c
      BY ONLY <2>1
    <3>4. Batch!Last(t) = t[3] /\ Batch!Front(t) = SubSeq(t, 1, 2)
      BY ONLY <3>1, <3>2, Zenon
    <3> QED BY <3>3, <3>4 DEF s
  <2>3. s \in Seq(T) /\ Len(s) = 2 /\ s[1] = a /\ s[2] = b
    BY ONLY <2>1 DEF s
  <2>4. s = <<a, b>>
    BY ONLY <2>3
  <2> QED BY <2>2, <2>4 DEF t
<1>4. ASSUME NEW a, NEW b, NEW c, NEW d PROVE Batch!Last(<<a, b, c, d>>) = d /\ Batch!Front(<<a, b, c, d>>) = <<a, b, c>>
  <2> DEFINE T == {a, b, c, d}
             t == <<a, b, c, d>>
             s == SubSeq(t, 1, 3)
  <2>1. t \in Seq(T) /\ Len(t) = 4 /\ t[1] = a /\ t[2] = b /\ t[3] = c /\ t[4] = d
    OBVIOUS
  <2> HIDE DEF T, t, s
  <2>2. Batch!Last(t) = d /\ Batch!Front(t) = s
    <3>1. Batch!Last(t) = t[Len(t)] /\ Batch!Front(t) = SubSeq(t, 1, Len(t) - 1)
      BY ONLY BatchOperators, Zenon
    <3>2. Len(t) = 4 /\ Len(t) - 1 = 3
      BY ONLY <2>1
    <3>3. t[4] = d
      BY ONLY <2>1
    <3>4. Batch!Last(t) = t[4] /\ Batch!Front(t) = SubSeq(t, 1, 3)
      BY ONLY <3>1, <3>2, Zenon
    <3> QED BY <3>3, <3>4 DEF s
  <2>3. s \in Seq(T) /\ Len(s) = 3 /\ s[1] = a /\ s[2] = b /\ s[3] = c
    BY ONLY <2>1 DEF s
  <2>4. s = <<a, b, c>>
    BY ONLY <2>3
  <2> QED BY <2>2, <2>4 DEF t
<1> QED BY <1>1, <1>2, <1>3, <1>4

\* A step processes the line at the front of g, or that of the abort.
Took(k, line, r) == \E h \in Seq(Bytes) : Processes(line, h) /\ Goes(k, h, r)
TookAbort(k)     == k = "aborting" /\ Processes(<<<<"r", 0>>>>, <<>>)

LEMMA TakesLine ==
  ASSUME BytesOK, WantsLine, NEW k, NEW c \in Tags, c # "newline", NEW n \in Nat,
         NEW r \in Seq(Bytes), Goes(k, Flow, Batch!Line(c, n) \o r), Processing
  PROVE  Took(k, <<<<c, n>>>>, r) \/ (TookAbort(k) /\ Batch!Raisable(<<c, n>>))
<1> DEFINE w == Batch!Line(c, n)
           x == <<c, n>>
<1>1. bin = <<>> /\ want.kind = "line"
  BY DEF WantsLine
<1>2. w = <<x, Batch!NL>> /\ w \in Seq(Bytes) /\ x \in Bytes
  BY LineIs
<1>3. x # Batch!NL
  BY DEF Batch!NL
<1>4. w # <<>> /\ Len(w) = 2 /\ w[1] = x /\ w[2] = Batch!NL
  BY <1>2
<1>5. \A i \in 2..Len(w) : ~Batch!Raisable(w[i])
  BY <1>4 DEF Batch!Raisable, Batch!NL
<1>6. Goes(k, Flow, w \o r)
  OBVIOUS
<1> HIDE DEF w, x
<1>7. \/ \E h \in Seq(Bytes) : Flow = w \o h /\ Goes(k, h, r)
      \/ k # "waiting" /\ Flow = After(k) /\ Batch!Raisable(w[1])
  BY ONLY <1>2, <1>4, <1>5, <1>6, r \in Seq(Bytes), Peel
<1>8. ASSUME NEW h \in Seq(Bytes), Flow = w \o h, Goes(k, h, r)
      PROVE  Took(k, <<x>>, r)
  <2>1. Flow = <<x, Batch!NL>> \o h
    BY <1>2, <1>8
  <2>2. Processes(<<x>>, h)
    BY ONLY <1>1, <1>2, <1>3, <2>1, h \in Seq(Bytes), BytesOK, Processing, ReadsLine
  <2> QED BY <1>8, <2>2, Zenon DEF Took
<1>9. ASSUME k # "waiting", Flow = After(k), Batch!Raisable(w[1])
      PROVE  TookAbort(k) /\ Batch!Raisable(x)
  <2>1. CASE k = "aborting"
    <3> DEFINE y == <<"r", 0>>
    <3>1. "r" \in Tags
      BY DEF Tags
    <3>2. Batch!Line("r", 0) = <<y, Batch!NL>> /\ Batch!Line("r", 0) \in Seq(Bytes) /\ y \in Bytes
      BY <3>1, LineIs
    <3>3. y # Batch!NL
      BY DEF Batch!NL
    <3> HIDE DEF y
    <3>4. Flow = <<y, Batch!NL>> \o <<>>
      <4>1. Flow = Batch!Line("r", 0)
        BY <1>9, <2>1 DEF After
      <4>2. Batch!Line("r", 0) \o <<>> = Batch!Line("r", 0)
        BY ONLY <3>2, BytesJoin
      <4> QED BY <3>2, <4>1, <4>2
    <3>5. <<>> \in Seq(Bytes)
      BY BytesJoin
    <3>6. Processes(<<y>>, <<>>)
      BY ONLY <1>1, <3>2, <3>3, <3>4, <3>5, BytesOK, Processing, ReadsLine
    <3> QED BY <1>4, <1>9, <2>1, <3>6 DEF TookAbort, y
  <2>2. CASE k # "aborting"
    <3>1. Flow = <<>>
      BY <1>9, <2>2 DEF After
    <3> QED BY <1>1, <3>1, ReadsNothing
  <2> QED BY <2>1, <2>2
<1> QED BY <1>7, <1>8, <1>9, Zenon DEF x

\* Data is never cut: no byte of it is one at which the controller raises.
LEMMA TakesData ==
  ASSUME BytesOK, NEW v \in Batch!SentValues, v.type # "l", WantsData(v), NEW k,
         NEW r \in Seq(Bytes), Goes(k, Flow, (v.data \o <<Batch!NL>>) \o r), Processing
  PROVE  Took(k, v.data, r) \/ (Buffers /\ WantsData(v)')
<1> DEFINE d == v.data
           e == <<Batch!NL>>
           w == d \o e
<1>1. d \in Seq(Bytes) /\ d \in Seq(Batch!Payload)
  BY ValueIs
<1>2. e \in Seq(Bytes) /\ Len(e) = 1 /\ e[1] = Batch!NL
  <2>1. Batch!NL \in Bytes
    BY DEF Batch!NL, Bytes, Tags
  <2> QED BY <2>1
<1>3. Len(d) \in Nat /\ \A i \in 1..Len(d) : d[i][1] \in {"newline", "byte"}
  BY ONLY <1>1, PayloadIs
<1> HIDE DEF d, e
<1>4. w \in Seq(Bytes) /\ Len(w) = Len(d) + 1 /\ w[Len(d) + 1] = e[1] /\ \A i \in 1..Len(d) : w[i] = d[i]
  <2>1. w \in Seq(Bytes) /\ Len(w) = Len(d) + Len(e)
    BY ONLY <1>1, <1>2, ConcatProperties, Zenon
  <2>2. \A i \in 1..(Len(d) + Len(e)) : w[i] = IF i <= Len(d) THEN d[i] ELSE e[i - Len(d)]
    BY ONLY <1>1, <1>2, ConcatProperties, Zenon
  <2> HIDE DEF w
  <2>3. (Len(d) + 1) - Len(d) = 1 /\ Len(d) + 1 \in 1..(Len(d) + Len(e)) /\ ~(Len(d) + 1 <= Len(d))
    BY ONLY <1>2, <1>3
  <2> QED BY ONLY <1>2, <1>3, <2>1, <2>2, <2>3
<1> HIDE DEF w
<1>5. \A i \in 1..Len(w) : ~Batch!Raisable(w[i])
  <2> TAKE i \in 1..Len(w)
  <2>1. w[i][1] \in {"newline", "byte"}
    <3>1. CASE i = Len(d) + 1
      BY <1>2, <1>4, <3>1 DEF Batch!NL
    <3>2. CASE i # Len(d) + 1
      <4>1. i \in 1..Len(d)
        BY <1>3, <1>4, <3>2
      <4> QED BY <1>3, <1>4, <4>1
    <3> QED BY <3>1, <3>2
  <2> QED BY <2>1 DEF Batch!Raisable
<1>6. w # <<>> /\ 1 \in 1..Len(w) /\ \A i \in 2..Len(w) : ~Batch!Raisable(w[i])
  BY <1>3, <1>4, <1>5
<1>7. Goes(k, Flow, w \o r)
  BY DEF w, d, e
<1>8. PICK h \in Seq(Bytes) : Flow = w \o h /\ Goes(k, h, r)
  <2>1. \/ \E h \in Seq(Bytes) : Flow = w \o h /\ Goes(k, h, r)
        \/ k # "waiting" /\ Flow = After(k) /\ Batch!Raisable(w[1])
    BY ONLY <1>4, <1>6, <1>7, r \in Seq(Bytes), Peel
  <2> QED BY <1>5, <1>6, <2>1
<1>9. Flow = (d \o <<Batch!NL>>) \o h
  BY <1>8 DEF w, e
<1>10. CASE v.type = "s"
  <2>1. bin = <<>> /\ want = [kind |-> "string", left |-> Len(d) + 1]
    BY <1>10 DEF WantsData, d
  <2>2. Processes(d, h)
    BY ONLY <1>1, <1>9, <2>1, h \in Seq(Bytes), BytesOK, Processing, ReadsString
  <2> QED BY <1>8, <2>2, Zenon DEF Took, d
<1>11. CASE v.type # "s"
  <2>1. WantsBinary(d) /\ v.type = "x"
    BY <1>11 DEF WantsData, d
  <2>2. Processes(d, h) \/ (Buffers /\ WantsBinary(d)')
    BY ONLY <1>1, <1>9, <2>1, h \in Seq(Bytes), BytesOK, Processing, ReadsBinary
  <2>3. WantsBinary(d)' => WantsData(v)'
    BY <2>1 DEF WantsData, d
  <2> QED BY <1>8, <2>2, <2>3, Zenon DEF Took, d
<1> QED BY <1>10, <1>11

-----------------------------------------------------------------------------
(* BatchProtocol: what the parser makes of what it has read.                *)

LEMMA GotAppend ==
  ASSUME NEW b, NEW i \in Nat
  PROVE  Append(Got(b, i), Batch!AsReceived(b[i + 1])) = Got(b, i + 1)
<1> DEFINE x(j) == Batch!AsReceived(b[j])
           T == {x(j) : j \in 1..(i + 1)}
<1>1. Got(b, i) = [j \in 1..i |-> x(j)] /\ Got(b, i + 1) = [j \in 1..(i + 1) |-> x(j)]
  BY DEF Got
<1>2. \A j \in 1..(i + 1) : x(j) \in T
  OBVIOUS
<1> HIDE DEF T, x
<1> DEFINE f == [j \in 1..i |-> x(j)]
           g == [j \in 1..(i + 1) |-> x(j)]
<1>3. f \in Seq(T) /\ Len(f) = i /\ \A j \in 1..i : f[j] = x(j)
  BY ONLY <1>2, i \in Nat
<1>4. g \in Seq(T) /\ Len(g) = i + 1 /\ \A j \in 1..(i + 1) : g[j] = x(j)
  BY ONLY <1>2, i \in Nat
<1> HIDE DEF f, g
<1>5. x(i + 1) \in T
  BY <1>2
<1>6. /\ Append(f, x(i + 1)) \in Seq(T) /\ Len(Append(f, x(i + 1))) = i + 1
      /\ \A j \in 1..(i + 1) : Append(f, x(i + 1))[j] = IF j <= i THEN f[j] ELSE x(i + 1)
  BY ONLY <1>3, <1>5, i \in Nat
<1>7. \A j \in 1..(i + 1) : Append(f, x(i + 1))[j] = g[j]
  <2> TAKE j \in 1..(i + 1)
  <2>1. CASE j <= i
    BY ONLY <1>3, <1>4, <1>6, <2>1, i \in Nat, j \in 1..(i + 1)
  <2>2. CASE ~(j <= i)
    <3>1. j = i + 1
      BY ONLY <2>2, i \in Nat, j \in 1..(i + 1)
    <3> QED BY ONLY <1>4, <1>6, <2>2, <3>1, j \in 1..(i + 1)
  <2> QED BY <2>1, <2>2
<1>8. Append(f, x(i + 1)) = g
  BY ONLY <1>4, <1>6, <1>7, SeqEqual
<1> QED BY <1>1, <1>8 DEF f, g, x

LEMMA AsReceivedIs ==
  ASSUME NEW c, Batch!IsCommand(c)
  PROVE  Batch!AsReceived(c) = Batch!Command(c.op, Dict(c.props, Len(c.props)), c.inserts)
<1>1. c.props \in Seq(Batch!Props) /\ c = Batch!Command(c.op, c.props, c.inserts)
  BY CommandHas DEF CommandKinds
<1>2. DOMAIN c.props = 1..Len(c.props)
  BY <1>1
<1>3. Batch!AsDict(c.props) = Dict(c.props, Len(c.props))
  <2> DEFINE ps == c.props
             F(D) == [k \in {ps[i].key : i \in D} |-> ps[CHOOSE i \in D : ps[i].key = k].value]
  <2>1. Batch!AsDict(ps) = F(DOMAIN ps)
    BY Zenon DEF Batch!AsDict
  <2>2. Dict(ps, Len(ps)) = F(1..Len(ps))
    BY Zenon DEF Dict
  <2> HIDE DEF F
  <2> QED BY <1>2, <2>1, <2>2
<1>4. Batch!AsReceived(c) = [c EXCEPT !.props = Dict(c.props, Len(c.props))]
  BY <1>3, Zenon DEF Batch!AsReceived
<1> DEFINE D == Dict(c.props, Len(c.props))
<1> HIDE DEF D
<1>5. [Batch!Command(c.op, c.props, c.inserts) EXCEPT !.props = D] = Batch!Command(c.op, D, c.inserts)
  BY DEF Batch!Command
<1> QED BY <1>1, <1>4, <1>5 DEF D

LEMMA DictNext ==
  ASSUME NEW ps, NEW n, n \in Nat, NEW j \in 0..(n - 1),
         \A i, k \in 1..n : ps[i].key = ps[k].key => i = k
  PROVE  Batch!With(Dict(ps, j), ps[j + 1].key, ps[j + 1].value) = Dict(ps, j + 1)
<1> DEFINE K(m) == {ps[i].key : i \in 1..m}
           pick(m, x) == CHOOSE i \in 1..m : ps[i].key = x
<1>1. \A m : Dict(ps, m) = [x \in K(m) |-> ps[pick(m, x)].value]
  BY Zenon DEF Dict
<1>2. j \in Nat /\ j + 1 \in 1..n /\ j + 1 \in 1..(j + 1) /\ \A i \in 1..j : i \in 1..n /\ i \in 1..(j + 1) /\ i # j + 1
  OBVIOUS
<1>3. K(j + 1) = K(j) \cup {ps[j + 1].key}
  <2>1. \A i \in 1..(j + 1) : i \in 1..j \/ i = j + 1
    BY <1>2
  <2> QED BY <1>2, <2>1
<1>4. \A x \in K(j) : pick(j, x) = pick(j + 1, x)
  <2> TAKE x \in K(j)
  <2>1. PICK i \in 1..j : ps[i].key = x
    OBVIOUS
  <2>2. pick(j, x) = i
    BY <1>2, <2>1
  <2>3. pick(j + 1, x) = i
    <3>1. \A l \in 1..(j + 1) : ps[l].key = x => l = i
      BY <1>2, <2>1
    <3>2. i \in 1..(j + 1)
      BY <1>2
    <3> QED BY <2>1, <3>1, <3>2
  <2> QED BY <2>2, <2>3
<1>5. pick(j + 1, ps[j + 1].key) = j + 1
  BY <1>2
<1>6. ps[j + 1].key \notin K(j)
  BY <1>2
<1> HIDE DEF K, pick
<1>7. DOMAIN Dict(ps, j) = K(j) /\ \A x \in K(j) : Dict(ps, j)[x] = ps[pick(j, x)].value
  BY ONLY <1>1
<1>8. Batch!With(Dict(ps, j), ps[j + 1].key, ps[j + 1].value)
        = [x \in K(j) \cup {ps[j + 1].key} |-> IF x = ps[j + 1].key THEN ps[j + 1].value ELSE Dict(ps, j)[x]]
  BY <1>7 DEF Batch!With
<1>9. Dict(ps, j + 1) = [x \in K(j) \cup {ps[j + 1].key} |-> ps[pick(j + 1, x)].value]
  BY <1>1, <1>3
<1>10. \A x \in K(j) \cup {ps[j + 1].key} :
         (IF x = ps[j + 1].key THEN ps[j + 1].value ELSE Dict(ps, j)[x]) = ps[pick(j + 1, x)].value
  BY <1>4, <1>5, <1>6, <1>7
<1> QED BY <1>8, <1>9, <1>10

LEMMA DictEmpty == \A ps : Dict(ps, 0) = <<>>
<1> TAKE ps
<1>1. {ps[i].key : i \in 1..0} = {}
  OBVIOUS
<1>2. Dict(ps, 0) = [k \in {} |-> ps[CHOOSE i \in 1..0 : ps[i].key = k].value]
  BY <1>1, Zenon DEF Dict
<1> DEFINE f == Dict(ps, 0)
<1>3. DOMAIN f = {} /\ f = [k \in DOMAIN f |-> f[k]]
  BY <1>2
<1> HIDE DEF f
<1>4. f = [k \in 1..0 |-> f[k]]
  <2>1. 1..0 = {}
    OBVIOUS
  <2> QED BY <1>3, <2>1
<1>5. f \in Seq({}) /\ Len(f) = 0
  BY <1>4
<1>6. f = <<>>
  BY <1>5
<1> QED BY <1>6 DEF f

\* The command that is complete now is the one that was sent.
LEMMA CompleteIs ==
  ASSUME NEW b, Batch!IsBatch(b), NEW i \in 0..(Len(b) - 1), NEW cs, cs = Got(b, i),
         NEW c, c = Batch!Command(b[i + 1].op, Dict(b[i + 1].props, Len(b[i + 1].props)), b[i + 1].inserts)
  PROVE  (IF c = Batch!NoCommand THEN cs ELSE Append(cs, c)) = Got(b, i + 1)
<1>1. Len(b) \in Nat /\ i \in Nat /\ i + 1 \in 1..Len(b) /\ Batch!IsCommand(b[i + 1])
  BY BatchHas
<1>2. c = Batch!AsReceived(b[i + 1]) /\ b[i + 1].op \in {"add", "modify", "remove", "reorder"}
  BY <1>1, AsReceivedIs, CommandHas DEF CommandKinds
<1>3. c # Batch!NoCommand
  <2>1. c.op = b[i + 1].op
    BY DEF Batch!Command
  <2>2. Batch!NoCommand.op = "None"
    BY DEF Batch!NoCommand, Batch!Command
  <2> QED BY <1>2, <2>1, <2>2
<1> QED BY <1>1, <1>2, <1>3, GotAppend

LEMMA LastListNext ==
  ASSUME NEW b, Batch!IsBatch(b), NEW i \in 0..(Len(b) - 1)
  PROVE  /\ LastList(b, i, Len(b[i + 1].props)) => LastList(b, i + 1, 0)
         /\ \A j \in 1..Len(b[i + 1].props) : LastList(b, i, j) = b[i + 1].props[j].value.many
<1>1. Len(b) \in Nat /\ i \in Nat /\ i + 1 \in 1..Len(b) /\ Batch!IsCommand(b[i + 1])
  BY BatchHas
<1>2. b[i + 1].props \in Seq(Batch!Props)
  BY <1>1, CommandHas DEF CommandKinds
<1> DEFINE n == Len(b[i + 1].props)
<1>3. n \in Nat /\ (n = 0 => b[i + 1].props = <<>>)
  BY <1>2
<1>4. \A j \in 1..n : LastList(b, i, j) = b[i + 1].props[j].value.many
  <2> TAKE j \in 1..n
  <2>1. j > 0
    BY <1>3
  <2> QED BY ONLY <2>1, Zenon DEF LastList
<1>5. CASE n = 0
  <2>1. ASSUME LastList(b, i, n) PROVE LastList(b, i + 1, 0)
    <3>1. PICK m \in 1..i : /\ b[m].props # <<>> /\ b[m].props[Len(b[m].props)].value.many
                            /\ \A l \in (m + 1)..i : b[l].props = <<>>
      BY <1>5, <2>1 DEF LastList
    <3>2. \A l \in (m + 1)..(i + 1) : b[l].props = <<>>
      <4>1. \A l \in (m + 1)..(i + 1) : l \in (m + 1)..i \/ l = i + 1
        BY <1>1
      <4> QED BY <1>3, <1>5, <3>1, <4>1
    <3>3. m \in 1..(i + 1)
      BY <1>1
    <3> QED BY <3>1, <3>2, <3>3 DEF LastList
  <2> QED BY <1>4, <2>1
<1>6. CASE n # 0
  <2>1. ASSUME LastList(b, i, n) PROVE LastList(b, i + 1, 0)
    <3>1. n \in 1..n /\ b[i + 1].props[n].value.many
      BY <1>3, <1>4, <1>6, <2>1
    <3>2. b[i + 1].props # <<>>
      BY <1>3, <1>6
    <3>3. i + 1 \in 1..(i + 1) /\ (((i + 1) + 1)..(i + 1)) = {}
      BY <1>1
    <3> QED BY <3>1, <3>2, <3>3 DEF LastList
  <2> QED BY <1>4, <2>1
<1> QED BY <1>5, <1>6

-----------------------------------------------------------------------------
(* BatchProtocol: what each line and each value does to the parser.         *)

LEMMA Pushes ==
  /\ \A a : <<>> \o <<a>> = <<a>> /\ <<a>> \o <<>> = <<a>>
  /\ \A a, b : <<a>> \o <<b>> = <<a, b>> /\ <<a, b>> \o <<>> = <<a, b>>
  /\ \A a, b, c : <<a>> \o <<b, c>> = <<a, b, c>> /\ <<a, b>> \o <<c>> = <<a, b, c>>
                  /\ Append(<<a, b>>, c) = <<a, b, c>> /\ <<a, b, c>> \o <<>> = <<a, b, c>>
  /\ \A a, b, c, d : <<a, b, c>> \o <<d>> = <<a, b, c, d>> /\ <<a, b>> \o <<c, d>> = <<a, b, c, d>>
<1>1. ASSUME NEW a PROVE <<>> \o <<a>> = <<a>>
  <2> DEFINE T == {a}
             f == <<>>
             g == <<a>>
             s == f \o g
  <2>1. f \in Seq(T) /\ Len(f) = 0
    OBVIOUS
  <2>2. g \in Seq(T) /\ Len(g) = 1 /\ g[1] = a
    OBVIOUS
  <2> HIDE DEF T, f, g
  <2>5. /\ s \in Seq(T) /\ Len(s) = Len(f) + Len(g)
        /\ \A i \in 1..(Len(f) + Len(g)) : s[i] = IF i <= Len(f) THEN f[i] ELSE g[i - Len(f)]
    BY ONLY <2>1, <2>2, ConcatProperties, Zenon
  <2> HIDE DEF s
  <2>3. s \in Seq(T) /\ Len(s) = 1 /\ s[1] = a
    BY ONLY <2>1, <2>2, <2>5
  <2>4. s = <<a>>
    BY ONLY <2>3
  <2> QED BY <2>4 DEF s, f, g
<1>2. ASSUME NEW a PROVE <<a>> \o <<>> = <<a>>
  <2> DEFINE T == {a}
             f == <<a>>
             g == <<>>
             s == f \o g
  <2>1. f \in Seq(T) /\ Len(f) = 1 /\ f[1] = a
    OBVIOUS
  <2>2. g \in Seq(T) /\ Len(g) = 0
    OBVIOUS
  <2> HIDE DEF T, f, g
  <2>5. /\ s \in Seq(T) /\ Len(s) = Len(f) + Len(g)
        /\ \A i \in 1..(Len(f) + Len(g)) : s[i] = IF i <= Len(f) THEN f[i] ELSE g[i - Len(f)]
    BY ONLY <2>1, <2>2, ConcatProperties, Zenon
  <2> HIDE DEF s
  <2>3. s \in Seq(T) /\ Len(s) = 1 /\ s[1] = a
    BY ONLY <2>1, <2>2, <2>5
  <2>4. s = <<a>>
    BY ONLY <2>3
  <2> QED BY <2>4 DEF s, f, g
<1>3. ASSUME NEW a, NEW b PROVE <<a>> \o <<b>> = <<a, b>>
  <2> DEFINE T == {a, b}
             f == <<a>>
             g == <<b>>
             s == f \o g
  <2>1. f \in Seq(T) /\ Len(f) = 1 /\ f[1] = a
    OBVIOUS
  <2>2. g \in Seq(T) /\ Len(g) = 1 /\ g[1] = b
    OBVIOUS
  <2> HIDE DEF T, f, g
  <2>5. /\ s \in Seq(T) /\ Len(s) = Len(f) + Len(g)
        /\ \A i \in 1..(Len(f) + Len(g)) : s[i] = IF i <= Len(f) THEN f[i] ELSE g[i - Len(f)]
    BY ONLY <2>1, <2>2, ConcatProperties, Zenon
  <2> HIDE DEF s
  <2>3. s \in Seq(T) /\ Len(s) = 2 /\ s[1] = a /\ s[2] = b
    BY ONLY <2>1, <2>2, <2>5
  <2>4. s = <<a, b>>
    BY ONLY <2>3
  <2> QED BY <2>4 DEF s, f, g
<1>4. ASSUME NEW a, NEW b PROVE <<a, b>> \o <<>> = <<a, b>>
  <2> DEFINE T == {a, b}
             f == <<a, b>>
             g == <<>>
             s == f \o g
  <2>1. f \in Seq(T) /\ Len(f) = 2 /\ f[1] = a /\ f[2] = b
    OBVIOUS
  <2>2. g \in Seq(T) /\ Len(g) = 0
    OBVIOUS
  <2> HIDE DEF T, f, g
  <2>5. /\ s \in Seq(T) /\ Len(s) = Len(f) + Len(g)
        /\ \A i \in 1..(Len(f) + Len(g)) : s[i] = IF i <= Len(f) THEN f[i] ELSE g[i - Len(f)]
    BY ONLY <2>1, <2>2, ConcatProperties, Zenon
  <2> HIDE DEF s
  <2>3. s \in Seq(T) /\ Len(s) = 2 /\ s[1] = a /\ s[2] = b
    BY ONLY <2>1, <2>2, <2>5
  <2>4. s = <<a, b>>
    BY ONLY <2>3
  <2> QED BY <2>4 DEF s, f, g
<1>5. ASSUME NEW a, NEW b, NEW c PROVE <<a>> \o <<b, c>> = <<a, b, c>>
  <2> DEFINE T == {a, b, c}
             f == <<a>>
             g == <<b, c>>
             s == f \o g
  <2>1. f \in Seq(T) /\ Len(f) = 1 /\ f[1] = a
    OBVIOUS
  <2>2. g \in Seq(T) /\ Len(g) = 2 /\ g[1] = b /\ g[2] = c
    OBVIOUS
  <2> HIDE DEF T, f, g
  <2>5. /\ s \in Seq(T) /\ Len(s) = Len(f) + Len(g)
        /\ \A i \in 1..(Len(f) + Len(g)) : s[i] = IF i <= Len(f) THEN f[i] ELSE g[i - Len(f)]
    BY ONLY <2>1, <2>2, ConcatProperties, Zenon
  <2> HIDE DEF s
  <2>3. s \in Seq(T) /\ Len(s) = 3 /\ s[1] = a /\ s[2] = b /\ s[3] = c
    BY ONLY <2>1, <2>2, <2>5
  <2>4. s = <<a, b, c>>
    BY ONLY <2>3
  <2> QED BY <2>4 DEF s, f, g
<1>6. ASSUME NEW a, NEW b, NEW c PROVE <<a, b>> \o <<c>> = <<a, b, c>>
  <2> DEFINE T == {a, b, c}
             f == <<a, b>>
             g == <<c>>
             s == f \o g
  <2>1. f \in Seq(T) /\ Len(f) = 2 /\ f[1] = a /\ f[2] = b
    OBVIOUS
  <2>2. g \in Seq(T) /\ Len(g) = 1 /\ g[1] = c
    OBVIOUS
  <2> HIDE DEF T, f, g
  <2>5. /\ s \in Seq(T) /\ Len(s) = Len(f) + Len(g)
        /\ \A i \in 1..(Len(f) + Len(g)) : s[i] = IF i <= Len(f) THEN f[i] ELSE g[i - Len(f)]
    BY ONLY <2>1, <2>2, ConcatProperties, Zenon
  <2> HIDE DEF s
  <2>3. s \in Seq(T) /\ Len(s) = 3 /\ s[1] = a /\ s[2] = b /\ s[3] = c
    BY ONLY <2>1, <2>2, <2>5
  <2>4. s = <<a, b, c>>
    BY ONLY <2>3
  <2> QED BY <2>4 DEF s, f, g
<1>7. ASSUME NEW a, NEW b, NEW c PROVE <<a, b, c>> \o <<>> = <<a, b, c>>
  <2> DEFINE T == {a, b, c}
             f == <<a, b, c>>
             g == <<>>
             s == f \o g
  <2>1. f \in Seq(T) /\ Len(f) = 3 /\ f[1] = a /\ f[2] = b /\ f[3] = c
    OBVIOUS
  <2>2. g \in Seq(T) /\ Len(g) = 0
    OBVIOUS
  <2> HIDE DEF T, f, g
  <2>5. /\ s \in Seq(T) /\ Len(s) = Len(f) + Len(g)
        /\ \A i \in 1..(Len(f) + Len(g)) : s[i] = IF i <= Len(f) THEN f[i] ELSE g[i - Len(f)]
    BY ONLY <2>1, <2>2, ConcatProperties, Zenon
  <2> HIDE DEF s
  <2>3. s \in Seq(T) /\ Len(s) = 3 /\ s[1] = a /\ s[2] = b /\ s[3] = c
    BY ONLY <2>1, <2>2, <2>5
  <2>4. s = <<a, b, c>>
    BY ONLY <2>3
  <2> QED BY <2>4 DEF s, f, g
<1>8. ASSUME NEW a, NEW b, NEW c, NEW d PROVE <<a, b, c>> \o <<d>> = <<a, b, c, d>>
  <2> DEFINE T == {a, b, c, d}
             f == <<a, b, c>>
             g == <<d>>
             s == f \o g
  <2>1. f \in Seq(T) /\ Len(f) = 3 /\ f[1] = a /\ f[2] = b /\ f[3] = c
    OBVIOUS
  <2>2. g \in Seq(T) /\ Len(g) = 1 /\ g[1] = d
    OBVIOUS
  <2> HIDE DEF T, f, g
  <2>5. /\ s \in Seq(T) /\ Len(s) = Len(f) + Len(g)
        /\ \A i \in 1..(Len(f) + Len(g)) : s[i] = IF i <= Len(f) THEN f[i] ELSE g[i - Len(f)]
    BY ONLY <2>1, <2>2, ConcatProperties, Zenon
  <2> HIDE DEF s
  <2>3. s \in Seq(T) /\ Len(s) = 4 /\ s[1] = a /\ s[2] = b /\ s[3] = c /\ s[4] = d
    BY ONLY <2>1, <2>2, <2>5
  <2>4. s = <<a, b, c, d>>
    BY ONLY <2>3
  <2> QED BY <2>4 DEF s, f, g
<1>9. ASSUME NEW a, NEW b, NEW c, NEW d PROVE <<a, b>> \o <<c, d>> = <<a, b, c, d>>
  <2> DEFINE T == {a, b, c, d}
             f == <<a, b>>
             g == <<c, d>>
             s == f \o g
  <2>1. f \in Seq(T) /\ Len(f) = 2 /\ f[1] = a /\ f[2] = b
    OBVIOUS
  <2>2. g \in Seq(T) /\ Len(g) = 2 /\ g[1] = c /\ g[2] = d
    OBVIOUS
  <2> HIDE DEF T, f, g
  <2>5. /\ s \in Seq(T) /\ Len(s) = Len(f) + Len(g)
        /\ \A i \in 1..(Len(f) + Len(g)) : s[i] = IF i <= Len(f) THEN f[i] ELSE g[i - Len(f)]
    BY ONLY <2>1, <2>2, ConcatProperties, Zenon
  <2> HIDE DEF s
  <2>3. s \in Seq(T) /\ Len(s) = 4 /\ s[1] = a /\ s[2] = b /\ s[3] = c /\ s[4] = d
    BY ONLY <2>1, <2>2, <2>5
  <2>4. s = <<a, b, c, d>>
    BY ONLY <2>3
  <2> QED BY <2>4 DEF s, f, g
<1>10. ASSUME NEW a, NEW b, NEW c PROVE Append(<<a, b>>, c) = <<a, b, c>>
  <2> DEFINE T == {a, b, c}
             f == <<a, b>>
  <2>1. f \in Seq(T) /\ c \in T
    OBVIOUS
  <2> HIDE DEF T, f
  <2>2. Append(f, c) = f \o <<c>>
    BY ONLY <2>1, AppendIsConcat
  <2> QED BY <1>6, <2>2 DEF f
<1> QED BY <1>1, <1>2, <1>3, <1>4, <1>5, <1>6, <1>7, <1>8, <1>9, <1>10

LEMMA GotNone == \A b : Got(b, 0) = <<>>
<1> TAKE b
<1>1. Got(b, 0) \in Seq({Batch!AsReceived(b[j]) : j \in 1..0}) /\ Len(Got(b, 0)) = 0
  BY DEF Got
<1> QED BY <1>1

LEMMA StartRead ==
  ASSUME NEW b, Batch!IsBatch(b), NEW g, AtStart(b, g), NEW h, Processes(<<<<"M", 0>>>>, h)
  PROVE  AtCommand(b, 0, CommandsLeft(b, 0))' /\ Batch!Quiet
<1>1. stack = <<>>
  BY DEF AtStart, Synced
<1>2. Batch!CmdCommand(<<"M", 0>>) /\ bin' = <<>>
  BY <1>1 DEF Processes, Batch!Process
<1>3. /\ commands' = <<>> /\ command' = Batch!NoCommand /\ prop_values' = Batch!NoValues
      /\ stack' = <<"MultipleOne">> /\ want' = [kind |-> "line", left |-> 0] /\ Batch!Quiet
  BY <1>2, Pushes DEF Batch!CmdCommand, Batch!Push, Batch!WantLine
<1>4. Batch!Complete' = Got(b, 0) /\ ListOnly(b, 0, 0)'
  BY <1>3, GotNone DEF Batch!Complete, ListOnly
<1>5. 0 \in 0..Len(b)
  BY BatchHas
<1> QED BY <1>2, <1>3, <1>4, <1>5 DEF AtCommand, WantsLine

LEMMA CommandStep ==
  ASSUME NEW b, NEW i, NEW g, AtCommand(b, i, g), NEW c, NEW n, NEW h, Processes(<<<<c, n>>>>, h)
  PROVE  Batch!ExpectMultipleOne(<<c, n>>, <<>>) /\ bin' = <<>> /\ want' = [kind |-> "line", left |-> 0]
<1>1. stack = <<"MultipleOne">>
  BY DEF AtCommand
<1>2. Batch!Last(stack) = "MultipleOne" /\ Batch!Front(stack) = <<>> /\ stack # <<>>
  BY <1>1, Stacks
<1>3. Batch!ExpectMultipleOne(<<<<c, n>>>>[1], <<>>) /\ bin' = <<>>
  BY <1>2, Dispatch, Zenon DEF Processes
<1> QED BY <1>3 DEF Batch!ExpectMultipleOne, Batch!WantLine

LEMMA CommandOpens ==
  ASSUME NEW b, Batch!IsBatch(b), NEW i, NEW g, AtCommand(b, i, g), i < Len(b), b[i + 1].op \in {"add", "modify"},
         NEW h, Processes(<<<<Batch!Opening[b[i + 1].op], 1>>>>, h)
  PROVE  AtProps(b, i, 0, PropsRest(b, i, 0))' /\ Batch!Quiet
<1> DEFINE op == b[i + 1].op
           c == <<Batch!Opening[op], 1>>
<1>1. Batch!ExpectMultipleOne(c, <<>>) /\ bin' = <<>> /\ want' = [kind |-> "line", left |-> 0]
  BY CommandStep
<1>2. /\ c[1] \in {"+", "/"} /\ c[1] # "." /\ op = IF c[1] = "+" THEN "add" ELSE "modify"
  BY DEF Batch!Opening
<1> HIDE DEF c
<1>3. /\ commands' = Batch!Complete /\ prop_name' = 0 /\ command' = Batch!Command(op, <<>>, 0)
      /\ stack' = <<>> \o <<"MultipleOne", "Props">> /\ Batch!Quiet /\ UNCHANGED <<prop_value, prop_values>>
  BY <1>1, <1>2 DEF Batch!ExpectMultipleOne, Batch!Push
<1>4. stack' = <<"MultipleOne", "Props">>
  BY <1>3
<1>5. i \in 0..(Len(b) - 1) /\ 0 \in 0..Len(b[i + 1].props)
  <2>1. i \in 0..Len(b) /\ Len(b) \in Nat
    BY BatchHas DEF AtCommand
  <2>2. i + 1 \in 1..Len(b) /\ i \in 0..(Len(b) - 1)
    BY <2>1
  <2>3. Len(b[i + 1].props) \in Nat
    BY <2>2, BatchHas, CommandHas
  <2> QED BY <2>2, <2>3
<1>6. ASSUME NoneAfterList PROVE ListOnly(b, i, 0)' /\ Parsed(b, i, 0, 0)'
  <2>1. Batch!Complete = Got(b, i) /\ ListOnly(b, i, 0)
    BY <1>6 DEF AtCommand
  <2> QED BY <1>3, <2>1, DictEmpty DEF ListOnly, Parsed
<1> QED BY <1>1, <1>3, <1>4, <1>5, <1>6 DEF AtProps, HasProps, WantsLine

LEMMA CommandRemoves ==
  ASSUME NEW b, Batch!IsBatch(b), NEW i, NEW g, AtCommand(b, i, g), i < Len(b), b[i + 1].op = "remove",
         NEW h, Processes(<<<<"-", 1>>>>, h)
  PROVE  AtCommand(b, i + 1, CommandsLeft(b, i + 1))' /\ Batch!Quiet
<1>1. Batch!ExpectMultipleOne(<<"-", 1>>, <<>>) /\ bin' = <<>> /\ want' = [kind |-> "line", left |-> 0]
  BY CommandStep
<1>2. /\ commands' = Batch!Complete /\ command' = Batch!Command("remove", <<>>, 0)
      /\ stack' = <<>> \o <<"MultipleOne">> /\ Batch!Quiet /\ UNCHANGED <<prop_value, prop_values>>
  BY <1>1 DEF Batch!ExpectMultipleOne, Batch!Push
<1>3. i \in 0..(Len(b) - 1) /\ i + 1 \in 0..Len(b) /\ Batch!IsCommand(b[i + 1])
  <2>1. i \in 0..Len(b) /\ Len(b) \in Nat
    BY BatchHas DEF AtCommand
  <2>2. i + 1 \in 1..Len(b) /\ i \in 0..(Len(b) - 1) /\ i + 1 \in 0..Len(b)
    BY <2>1
  <2> QED BY <2>2, BatchHas
<1>4. b[i + 1].props = <<>> /\ b[i + 1].inserts = 0 /\ Len(b[i + 1].props) = 0
  BY <1>3, CommandHas DEF CommandKinds
<1>5. ASSUME NoneAfterList PROVE Batch!Complete' = Got(b, i + 1) /\ ListOnly(b, i + 1, 0)'
  <2>1. Batch!Complete = Got(b, i) /\ ListOnly(b, i, 0)
    BY <1>5 DEF AtCommand
  <2>2. commands' = Got(b, i) /\ command' = Batch!Command(b[i + 1].op, Dict(b[i + 1].props, Len(b[i + 1].props)), b[i + 1].inserts)
    BY <1>2, <1>4, <2>1, DictEmpty
  <2>3. Batch!Complete' = Got(b, i + 1)
    BY ONLY <1>3, <2>2, Batch!IsBatch(b), CompleteIs DEF Batch!Complete
  <2>4. ListOnly(b, i + 1, 0)'
    BY <1>2, <1>3, <1>4, <2>1, LastListNext DEF ListOnly
  <2> QED BY <2>3, <2>4
<1>6. stack' = <<"MultipleOne">>
  BY <1>2
<1> QED BY <1>1, <1>2, <1>3, <1>5, <1>6 DEF AtCommand, WantsLine

LEMMA CommandReorders ==
  ASSUME NEW b, Batch!IsBatch(b), NEW i, NEW g, AtCommand(b, i, g), i < Len(b), b[i + 1].op = "reorder",
         NEW h, Processes(<<<<"%", 1>>>>, h)
  PROVE  AtInserts(b, i, 0, InsertsLeft(b[i + 1].inserts, 0) \o CommandsLeft(b, i + 1))' /\ Batch!Quiet
<1>1. Batch!ExpectMultipleOne(<<"%", 1>>, <<>>) /\ bin' = <<>> /\ want' = [kind |-> "line", left |-> 0]
  BY CommandStep
<1>2. /\ commands' = Batch!Complete /\ command' = Batch!Command("reorder", <<>>, 0)
      /\ stack' = <<>> \o <<"MultipleOne", "Inserts">> /\ Batch!Quiet /\ UNCHANGED <<prop_value, prop_values>>
  BY <1>1 DEF Batch!ExpectMultipleOne, Batch!Push
<1>3. i \in 0..(Len(b) - 1) /\ 0 \in 0..b[i + 1].inserts
  <2>1. i \in 0..Len(b) /\ Len(b) \in Nat
    BY BatchHas DEF AtCommand
  <2>2. i + 1 \in 1..Len(b) /\ i \in 0..(Len(b) - 1)
    BY <2>1
  <2>3. b[i + 1].inserts \in Nat
    BY <2>2, BatchHas, CommandHas DEF CommandKinds
  <2> QED BY <2>2, <2>3
<1>4. stack' = <<"MultipleOne", "Inserts">>
  BY <1>2
<1>5. ASSUME NoneAfterList
      PROVE  /\ commands' = Got(b, i) /\ command' = Batch!Command("reorder", Dict(b[i + 1].props, 0), 0)
             /\ ListOnly(b, i, 0)'
  <2>1. Batch!Complete = Got(b, i) /\ ListOnly(b, i, 0)
    BY <1>5 DEF AtCommand
  <2> QED BY <1>2, <2>1, DictEmpty DEF ListOnly
<1> QED BY <1>1, <1>2, <1>3, <1>4, <1>5 DEF AtInserts, WantsLine

LEMMA PropsStep ==
  ASSUME NEW b, NEW i, NEW j, NEW g, AtProps(b, i, j, g), NEW c, NEW n, NEW h, Processes(<<<<c, n>>>>, h)
  PROVE  Batch!ExpectProps(<<c, n>>, <<"MultipleOne">>) /\ bin' = <<>>
<1>1. stack = <<"MultipleOne", "Props">>
  BY DEF AtProps
<1>2. Batch!Last(stack) = "Props" /\ Batch!Front(stack) = <<"MultipleOne">> /\ stack # <<>>
  BY <1>1, Stacks
<1>3. Batch!ExpectProps(<<<<c, n>>>>[1], <<"MultipleOne">>) /\ bin' = <<>>
  BY <1>2, Dispatch, Zenon DEF Processes
<1> QED BY <1>3

\* What the facts about a batch give for property j + 1 of its command i + 1.
PropOf(b, i, j) == b[i + 1].props[j + 1]

LEMMA PropsHas ==
  ASSUME NEW b, Batch!IsBatch(b), NEW i, HasProps(b, i)
  PROVE  /\ Len(b) \in Nat /\ i \in 0..(Len(b) - 1) /\ i + 1 \in 0..Len(b) /\ Batch!IsCommand(b[i + 1])
         /\ b[i + 1].props \in Seq(Batch!Props) /\ Len(b[i + 1].props) \in Nat /\ b[i + 1].inserts = 0
         /\ \A j \in 1..Len(b[i + 1].props) : IsProp(b[i + 1].props[j]) /\ b[i + 1].props[j].key \in Nat \ {0}
         /\ \A j, k \in 1..Len(b[i + 1].props) : b[i + 1].props[j].key = b[i + 1].props[k].key => j = k
<1>1. Len(b) \in Nat /\ i \in 0..(Len(b) - 1) /\ b[i + 1].op \in {"add", "modify"}
  BY BatchHas DEF HasProps
<1>2. i + 1 \in 1..Len(b) /\ i + 1 \in 0..Len(b)
  BY <1>1
<1>3. Batch!IsCommand(b[i + 1])
  BY <1>2, BatchHas
<1>4. CommandKinds(b[i + 1]) /\ Len(b[i + 1].props) \in Nat
  BY <1>3, CommandHas
<1>5. /\ b[i + 1].props \in Seq(Batch!Props) /\ b[i + 1].inserts = 0
      /\ \A j \in 1..Len(b[i + 1].props) : IsProp(b[i + 1].props[j])
      /\ \A j, k \in 1..Len(b[i + 1].props) : b[i + 1].props[j].key = b[i + 1].props[k].key => j = k
  <2>1. b[i + 1].op # "reorder"
    BY <1>1
  <2> QED BY ONLY <1>4, <2>1, Zenon DEF CommandKinds
<1>6. \A j \in 1..Len(b[i + 1].props) : b[i + 1].props[j].key \in Nat \ {0}
  BY <1>5, PropKinds
<1> QED BY <1>1, <1>2, <1>3, <1>4, <1>5, <1>6

LEMMA Stored ==
  ASSUME NEW b, Batch!IsBatch(b), NEW i, NEW j, NEW g, AtProps(b, i, j, g), NoneAfterList, Batch!StoreProp
  PROVE  command' = Batch!Command(b[i + 1].op, Dict(b[i + 1].props, j), 0)
<1> DEFINE ps == b[i + 1].props
           op == b[i + 1].op
<1>1. HasProps(b, i) /\ j \in 0..Len(ps)
  BY DEF AtProps
<1>2. /\ Len(ps) \in Nat /\ \A k \in 1..Len(ps) : ps[k].key \in Nat \ {0}
      /\ \A k, l \in 1..Len(ps) : ps[k].key = ps[l].key => k = l
  BY <1>1, PropsHas
<1>3. IF j = 0 THEN Parsed(b, i, 0, 0) ELSE Parsed(b, i, j - 1, ps[j].key) /\ Pending = ps[j].value
  BY DEF AtProps
<1> HIDE DEF ps, op
<1>4. CASE j = 0
  <2>1. prop_name = 0 /\ command = Batch!Command(op, Dict(ps, 0), 0)
    BY <1>3, <1>4 DEF Parsed, ps, op
  <2>2. command' = command
    BY <2>1 DEF Batch!StoreProp
  <2> QED BY <1>4, <2>1, <2>2 DEF ps, op
<1>5. CASE j # 0
  <2>1. j - 1 \in 0..(Len(ps) - 1) /\ (j - 1) + 1 = j /\ j \in 1..Len(ps)
    BY <1>1, <1>2, <1>5 DEF ps
  <2>2. prop_name = ps[j].key /\ command = Batch!Command(op, Dict(ps, j - 1), 0) /\ Pending = ps[j].value
    BY <1>3, <1>5 DEF Parsed, ps, op
  <2>3. prop_name # 0
    BY <1>2, <2>1, <2>2
  <2>4. command' = [command EXCEPT !.props = Batch!With(@, prop_name, Pending)]
    BY <2>3 DEF Batch!StoreProp, Pending
  <2>5. Batch!With(Dict(ps, j - 1), ps[j].key, ps[j].value) = Dict(ps, j)
    <3>1. Batch!With(Dict(ps, j - 1), ps[(j - 1) + 1].key, ps[(j - 1) + 1].value) = Dict(ps, (j - 1) + 1)
      BY ONLY <1>2, <2>1, DictNext
    <3> QED BY <2>1, <3>1
  <2>6. command' = Batch!Command(op, Batch!With(Dict(ps, j - 1), ps[j].key, ps[j].value), 0)
    BY <2>2, <2>4 DEF Batch!Command
  <2> QED BY <2>5, <2>6 DEF ps, op
<1> QED BY <1>4, <1>5

LEMMA PropsEnd ==
  ASSUME NEW b, Batch!IsBatch(b), NEW i, NEW j, NEW g, AtProps(b, i, j, g), j = Len(b[i + 1].props),
         NEW h, Processes(<<<<",", 0>>>>, h)
  PROVE  AtCommand(b, i + 1, CommandsLeft(b, i + 1))' /\ Batch!Quiet
<1>1. Batch!ExpectProps(<<",", 0>>, <<"MultipleOne">>) /\ bin' = <<>>
  BY PropsStep
<1>2. /\ Batch!StoreProp /\ UNCHANGED <<commands, prop_values>>
      /\ stack' = <<"MultipleOne">> \o <<>> /\ want' = [kind |-> "line", left |-> 0] /\ Batch!Quiet
  BY <1>1 DEF Batch!ExpectProps, Batch!Push, Batch!WantLine
<1>3. stack' = <<"MultipleOne">>
  BY <1>2, Pushes
<1>4. HasProps(b, i)
  BY DEF AtProps
<1>5. i \in 0..(Len(b) - 1) /\ i + 1 \in 0..Len(b) /\ b[i + 1].inserts = 0
  BY <1>4, PropsHas
<1>6. ASSUME NoneAfterList PROVE Batch!Complete' = Got(b, i + 1) /\ ListOnly(b, i + 1, 0)'
  <2>1. command' = Batch!Command(b[i + 1].op, Dict(b[i + 1].props, Len(b[i + 1].props)), b[i + 1].inserts)
    BY <1>2, <1>5, <1>6, Stored
  <2>2. commands' = Got(b, i)
    BY <1>2, <1>6 DEF AtProps, Parsed
  <2>3. Batch!Complete' = Got(b, i + 1)
    BY ONLY <1>5, <2>1, <2>2, Batch!IsBatch(b), CompleteIs DEF Batch!Complete
  <2>4. ListOnly(b, i, Len(b[i + 1].props))
    BY <1>6 DEF AtProps
  <2>5. LastList(b, i, Len(b[i + 1].props)) => LastList(b, i + 1, 0)
    BY <1>5, LastListNext
  <2> QED BY <1>2, <2>3, <2>4, <2>5 DEF ListOnly
<1> QED BY <1>1, <1>2, <1>3, <1>5, <1>6 DEF AtCommand, WantsLine

LEMMA PropsList ==
  ASSUME NEW b, Batch!IsBatch(b), NEW i, NEW j, NEW g, AtProps(b, i, j, g), HasList(b, i, j),
         NEW h, Processes(<<<<"M", PropOf(b, i, j).key>>>>, h)
  PROVE  AtPropMulti(b, i, j, 0, ValuesLeft(ListOf(b, i, j), 0) \o PropsRest(b, i, j + 1))' /\ Batch!Quiet
<1> DEFINE key == PropOf(b, i, j).key
<1>1. Batch!ExpectProps(<<"M", key>>, <<"MultipleOne">>) /\ bin' = <<>>
  BY PropsStep
<1> HIDE DEF key
<1>2. /\ Batch!StoreProp /\ UNCHANGED commands /\ prop_name' = key /\ prop_values' = <<>>
      /\ stack' = <<"MultipleOne">> \o <<"Props", "PropMulti">> /\ want' = [kind |-> "line", left |-> 0] /\ Batch!Quiet
  BY <1>1 DEF Batch!ExpectProps, Batch!Push, Batch!WantLine
<1>3. stack' = <<"MultipleOne", "Props", "PropMulti">>
  BY <1>2, Pushes
<1>4. ListOf(b, i, j) \in Seq(Batch!SentValues) /\ 0 \in 0..Len(ListOf(b, i, j)) /\ SubSeq(ListOf(b, i, j), 1, 0) = <<>>
  <2> DEFINE vs == ListOf(b, i, j)
             V == Batch!SentValues
  <2>1. vs \in Seq(V)
    BY DEF HasList, ListProp, ListOf
  <2> HIDE DEF vs, V
  <2>2. 0 \in 0..Len(vs) /\ SubSeq(vs, 1, 0) = <<>>
    BY ONLY <2>1
  <2> QED BY <2>1, <2>2 DEF vs, V
<1>5. ASSUME NoneAfterList PROVE ParsedList(b, i, j, 0)'
  <2>1. command' = Batch!Command(b[i + 1].op, Dict(b[i + 1].props, j), 0)
    BY <1>2, <1>5, Stored
  <2>2. commands' = Got(b, i)
    BY <1>2, <1>5 DEF AtProps, Parsed
  <2> QED BY <1>2, <1>4, <2>1, <2>2 DEF ParsedList, Parsed, key, PropOf
<1> QED BY <1>1, <1>2, <1>3, <1>4, <1>5 DEF AtPropMulti, WantsLine

LEMMA PropsNone ==
  ASSUME NEW b, Batch!IsBatch(b), b \in Batches, NEW i, NEW j, NEW g, AtProps(b, i, j, g), j < Len(b[i + 1].props),
         NoProp(PropOf(b, i, j)), NEW h, Processes(<<<<"D", PropOf(b, i, j).key>>>>, h)
  PROVE  AtProps(b, i, j + 1, PropsRest(b, i, j + 1))' /\ Batch!Quiet
<1> DEFINE key == PropOf(b, i, j).key
<1>1. Batch!ExpectProps(<<"D", key>>, <<"MultipleOne">>) /\ bin' = <<>>
  BY PropsStep
<1> HIDE DEF key
<1>2. /\ Batch!StoreProp /\ UNCHANGED <<commands, prop_values>> /\ prop_name' = key /\ prop_value' = Batch!None
      /\ stack' = <<"MultipleOne">> \o <<"Props">> /\ want' = [kind |-> "line", left |-> 0] /\ Batch!Quiet
  BY <1>1 DEF Batch!ExpectProps, Batch!Push, Batch!WantLine
<1>3. stack' = <<"MultipleOne", "Props">>
  BY <1>2, Pushes
<1>4. HasProps(b, i) /\ j \in 0..Len(b[i + 1].props)
  BY DEF AtProps
<1>5. Len(b[i + 1].props) \in Nat /\ Len(b) \in Nat /\ i \in 0..(Len(b) - 1)
  BY <1>4, PropsHas
<1>6. j \in 0..(Len(b[i + 1].props) - 1) /\ j + 1 \in 0..Len(b[i + 1].props) /\ j + 1 # 0 /\ (j + 1) - 1 = j
  BY <1>4, <1>5
<1>7. ASSUME NoneAfterList
      PROVE  /\ ListOnly(b, i, j + 1)'
             /\ Parsed(b, i, j, b[i + 1].props[j + 1].key)' /\ Pending' = b[i + 1].props[j + 1].value
  <2>1. command' = Batch!Command(b[i + 1].op, Dict(b[i + 1].props, j), 0)
    BY <1>2, <1>7, Stored
  <2>2. commands' = Got(b, i) /\ ListOnly(b, i, j)
    BY <1>2, <1>7 DEF AtProps, Parsed
  <2>3. ~LastList(b, i, j)
    BY <1>5, <1>6, <1>7 DEF NoneAfterList, NoProp, PropOf
  <2>4. prop_values' = Batch!NoValues
    BY <1>2, <2>2, <2>3 DEF ListOnly
  <2>5. Pending' = b[i + 1].props[j + 1].value
    BY <1>2, <2>4 DEF Pending, NoProp, PropOf
  <2> QED BY <1>2, <2>1, <2>2, <2>4, <2>5 DEF ListOnly, Parsed, key, PropOf
<1> QED BY <1>1, <1>2, <1>3, <1>4, <1>6, <1>7 DEF AtProps, WantsLine

LEMMA PropsOne ==
  ASSUME NEW b, Batch!IsBatch(b), NEW i, NEW j, NEW g, AtProps(b, i, j, g), HasOne(b, i, j),
         NEW h, Processes(<<<<"P", PropOf(b, i, j).key>>>>, h)
  PROVE  AtProp(b, i, j, Batch!SendOneProp(OneOf(b, i, j)) \o PropsRest(b, i, j + 1))' /\ Batch!Quiet
<1> DEFINE key == PropOf(b, i, j).key
<1>1. Batch!ExpectProps(<<"P", key>>, <<"MultipleOne">>) /\ bin' = <<>>
  BY PropsStep
<1> HIDE DEF key
<1>2. /\ Batch!StoreProp /\ UNCHANGED commands /\ prop_name' = key /\ prop_values' = Batch!NoValues
      /\ stack' = <<"MultipleOne">> \o <<"Props", "Prop">> /\ want' = [kind |-> "line", left |-> 0] /\ Batch!Quiet
  BY <1>1 DEF Batch!ExpectProps, Batch!Push, Batch!WantLine
<1>3. stack' = <<"MultipleOne", "Props", "Prop">>
  BY <1>2, Pushes
<1>4. ASSUME NoneAfterList PROVE ParsedOne(b, i, j)'
  <2>1. command' = Batch!Command(b[i + 1].op, Dict(b[i + 1].props, j), 0)
    BY <1>2, <1>4, Stored
  <2>2. commands' = Got(b, i)
    BY <1>2, <1>4 DEF AtProps, Parsed
  <2> QED BY <1>2, <2>1, <2>2 DEF ParsedOne, Parsed, key, PropOf
<1> QED BY <1>1, <1>2, <1>3, <1>4 DEF AtProp, WantsLine

LEMMA OneHas ==
  ASSUME NEW b, Batch!IsBatch(b), NEW i, NEW j, HasOne(b, i, j)
  PROVE  /\ OneOf(b, i, j) \in Batch!SentValues /\ PropOf(b, i, j).value = Batch!One(OneOf(b, i, j))
         /\ HasProps(b, i) /\ j + 1 \in 0..Len(b[i + 1].props) /\ j + 1 # 0 /\ (j + 1) - 1 = j
<1>1. HasProps(b, i) /\ j \in 0..(Len(b[i + 1].props) - 1) /\ OneProp(PropOf(b, i, j))
  BY DEF HasOne, PropOf
<1>2. Len(b[i + 1].props) \in Nat
  BY <1>1, PropsHas
<1>3. OneOf(b, i, j) \in Batch!SentValues /\ PropOf(b, i, j).value = Batch!One(OneOf(b, i, j))
  BY <1>1 DEF OneProp, OneOf, PropOf
<1> QED BY <1>1, <1>2, <1>3

\* The value of a property has been read.
LEMMA OneStored ==
  ASSUME NEW b, Batch!IsBatch(b), NEW i, NEW j, HasOne(b, i, j), NoneAfterList => ParsedOne(b, i, j),
         NEW v, v = OneOf(b, i, j), Batch!StoreValue(v), UNCHANGED <<commands, command, prop_name>>,
         stack' = <<"MultipleOne", "Props">>, bin' = <<>>, want' = [kind |-> "line", left |-> 0]
  PROVE  AtProps(b, i, j + 1, PropsRest(b, i, j + 1))'
<1>1. /\ PropOf(b, i, j).value = Batch!One(v)
      /\ HasProps(b, i) /\ j + 1 \in 0..Len(b[i + 1].props) /\ j + 1 # 0 /\ (j + 1) - 1 = j
  BY OneHas
<1>2. ASSUME NoneAfterList
      PROVE  /\ ListOnly(b, i, j + 1)'
             /\ Parsed(b, i, j, b[i + 1].props[j + 1].key)' /\ Pending' = b[i + 1].props[j + 1].value
  <2>1. prop_values = Batch!NoValues /\ Parsed(b, i, j, b[i + 1].props[j + 1].key)
    BY <1>2 DEF ParsedOne
  <2>2. prop_value' = v /\ prop_values' = Batch!NoValues
    BY <2>1 DEF Batch!StoreValue
  <2>3. Parsed(b, i, j, b[i + 1].props[j + 1].key)'
    BY <2>1 DEF Parsed
  <2>4. Pending' = b[i + 1].props[j + 1].value
    BY <1>1, <2>2 DEF Pending, PropOf
  <2> QED BY <2>2, <2>3, <2>4 DEF ListOnly
<1> QED BY <1>1, <1>2 DEF AtProps, WantsLine

LEMMA PropStep ==
  ASSUME NEW b, NEW i, NEW j, NEW g, AtProp(b, i, j, g), NEW c, NEW n, NEW h, Processes(<<<<c, n>>>>, h)
  PROVE  Batch!ExpectProp(<<c, n>>, <<"MultipleOne", "Props">>) /\ bin' = <<>>
<1>1. stack = <<"MultipleOne", "Props", "Prop">>
  BY DEF AtProp
<1>2. Batch!Last(stack) = "Prop" /\ Batch!Front(stack) = <<"MultipleOne", "Props">> /\ stack # <<>>
  BY <1>1, Stacks
<1>3. Batch!ExpectProp(<<<<c, n>>>>[1], <<"MultipleOne", "Props">>) /\ bin' = <<>>
  BY <1>2, Dispatch, Zenon DEF Processes
<1> QED BY <1>3

LEMMA PropLine ==
  ASSUME NEW b, Batch!IsBatch(b), NEW i, NEW j, NEW g, AtProp(b, i, j, g), OneOf(b, i, j).type = "l",
         NEW h, Processes(<<<<"l", 0>>>>, h)
  PROVE  AtProps(b, i, j + 1, PropsRest(b, i, j + 1))' /\ Batch!Quiet
<1>1. Batch!ExpectProp(<<"l", 0>>, <<"MultipleOne", "Props">>) /\ bin' = <<>>
  BY PropStep
<1>2. /\ Batch!StoreValue(Batch!Val("l", <<>>)) /\ UNCHANGED <<commands, command, prop_name>>
      /\ stack' = <<"MultipleOne", "Props">> \o <<>> /\ want' = [kind |-> "line", left |-> 0] /\ Batch!Quiet
  BY <1>1 DEF Batch!ExpectProp, Batch!Push, Batch!WantLine
<1>3. stack' = <<"MultipleOne", "Props">>
  BY <1>2, Pushes
<1>4. HasOne(b, i, j) /\ (NoneAfterList => ParsedOne(b, i, j))
  BY DEF AtProp
<1>5. OneOf(b, i, j) = Batch!Val("l", <<>>)
  <2>1. OneOf(b, i, j) \in Batch!SentValues
    BY <1>4, OneHas
  <2> QED BY <2>1, ValueIs
<1>6. AtProps(b, i, j + 1, PropsRest(b, i, j + 1))'
  BY <1>1, <1>2, <1>3, <1>4, <1>5, OneStored
<1> QED BY <1>2, <1>6

\* What ExpectProp does at a length.
LEMMA LengthStep ==
  ASSUME NEW v \in Batch!SentValues, v.type # "l", NEW below, bin' = <<>>,
         Batch!ExpectProp(<<v.type, Len(v.data)>>, below)
  PROVE  /\ stack' = below \o <<Cont(v)>> /\ WantsData(v)' /\ UNCHANGED Batch!parse /\ Batch!Quiet
<1>1. v.type \in {"s", "x"} /\ Len(v.data) \in Nat
  <2>1. v.type \in {"s", "x", "l"} /\ v.data \in Seq(Batch!Payload)
    BY ValueIs
  <2> QED BY <2>1, PayloadIs
<1> DEFINE t == v.type
           n == Len(v.data)
<1> HIDE DEF t, n
<1>2. Batch!ExpectProp(<<t, n>>, below) /\ t \in {"s", "x"}
  BY <1>1 DEF t, n
<1>3. UNCHANGED Batch!parse /\ Batch!Quiet
  BY <1>2 DEF Batch!ExpectProp, Batch!parse
<1>4. CASE t = "s"
  <2>1. stack' = below \o <<"String">> /\ want' = [kind |-> "string", left |-> n + 1]
    BY <1>2, <1>4 DEF Batch!ExpectProp, Batch!Push, Batch!WantString
  <2> QED BY <1>3, <1>4, <2>1 DEF Cont, WantsData, t, n
<1>5. CASE t = "x"
  <2>1. stack' = below \o <<"Binary">> /\ want' = [kind |-> "binary", left |-> n + 1]
    BY <1>2, <1>5 DEF Batch!ExpectProp, Batch!Push, Batch!WantBinary
  <2>2. Len(bin') = 0 /\ (Len(v.data) + 1) - 0 = Len(v.data) + 1 /\ 0 <= Len(v.data)
    BY <1>1
  <2>3. WantsBinary(v.data)'
    BY <2>1, <2>2 DEF WantsBinary, n
  <2> QED BY <1>3, <1>5, <2>1, <2>3 DEF Cont, WantsData, t
<1> QED BY <1>2, <1>4, <1>5

LEMMA PropLength ==
  ASSUME NEW b, Batch!IsBatch(b), NEW i, NEW j, NEW g, AtProp(b, i, j, g), NEW v, v = OneOf(b, i, j), v.type # "l",
         NEW h, Processes(<<<<v.type, Len(v.data)>>>>, h)
  PROVE  AtPropData(b, i, j, (v.data \o <<Batch!NL>>) \o PropsRest(b, i, j + 1))' /\ Batch!Quiet
<1>1. Batch!ExpectProp(<<v.type, Len(v.data)>>, <<"MultipleOne", "Props">>) /\ bin' = <<>>
  BY PropStep
<1>2. HasOne(b, i, j) /\ (NoneAfterList => ParsedOne(b, i, j)) /\ v \in Batch!SentValues
  BY OneHas DEF AtProp
<1>3. /\ stack' = <<"MultipleOne", "Props">> \o <<Cont(v)>> /\ WantsData(v)'
      /\ UNCHANGED Batch!parse /\ Batch!Quiet
  BY <1>1, <1>2, LengthStep
<1>4. stack' = <<"MultipleOne", "Props", Cont(v)>>
  BY <1>3, Pushes
<1>5. NoneAfterList => ParsedOne(b, i, j)'
  BY <1>2, <1>3 DEF ParsedOne, Parsed, Batch!parse
<1> QED BY <1>2, <1>3, <1>4, <1>5 DEF AtPropData

\* What a continuation that waits for data does with it.
LEMMA DataStep ==
  ASSUME NEW v \in Batch!SentValues, v.type # "l", NEW below, stack # <<>>, Batch!Last(stack) = Cont(v),
         Batch!Front(stack) = below, NEW h, Processes(v.data, h)
  PROVE  /\ Batch!StoreValue(v) /\ UNCHANGED <<commands, command, prop_name>> /\ Batch!Quiet
         /\ stack' = below \o <<>> /\ bin' = <<>> /\ want' = [kind |-> "line", left |-> 0]
<1>1. v.type \in {"s", "x"} /\ v = Batch!Val(v.type, v.data)
  <2>1. v.type \in {"s", "x", "l"} /\ v = Batch!Val(v.type, v.data)
    BY ValueIs
  <2> QED BY <2>1
<1>2. Batch!Process(v.data) /\ bin' = <<>>
  BY DEF Processes
<1>3. Batch!ExpectData(v.type, v.data, below)
  <2>1. CASE v.type = "s"
    <3>1. Batch!Last(stack) = "String"
      BY <2>1 DEF Cont
    <3> QED BY <1>2, <2>1, <3>1, Dispatch
  <2>2. CASE v.type = "x"
    <3>1. Batch!Last(stack) = "Binary"
      BY <2>2 DEF Cont
    <3> QED BY <1>2, <2>2, <3>1, Dispatch
  <2> QED BY <1>1, <2>1, <2>2
<1>4. Batch!StoreValue(Batch!Val(v.type, v.data))
  BY <1>3 DEF Batch!ExpectData
<1>5. Batch!StoreValue(v)
  BY ONLY <1>1, <1>4, Zenon
<1> QED BY <1>2, <1>3, <1>5 DEF Batch!ExpectData, Batch!Push, Batch!WantLine

LEMMA PropData ==
  ASSUME NEW b, Batch!IsBatch(b), NEW i, NEW j, NEW g, AtPropData(b, i, j, g),
         NEW h, Processes(OneOf(b, i, j).data, h)
  PROVE  AtProps(b, i, j + 1, PropsRest(b, i, j + 1))' /\ Batch!Quiet
<1> DEFINE v == OneOf(b, i, j)
<1>1. /\ HasOne(b, i, j) /\ v.type # "l" /\ stack = <<"MultipleOne", "Props", Cont(v)>>
      /\ NoneAfterList => ParsedOne(b, i, j)
  BY DEF AtPropData
<1>2. v \in Batch!SentValues
  BY <1>1, OneHas
<1> HIDE DEF v
<1>3. stack # <<>> /\ Batch!Last(stack) = Cont(v) /\ Batch!Front(stack) = <<"MultipleOne", "Props">>
  BY <1>1, Stacks
<1>4. Processes(v.data, h)
  BY DEF v
<1>5. /\ Batch!StoreValue(v) /\ UNCHANGED <<commands, command, prop_name>> /\ Batch!Quiet
      /\ stack' = <<"MultipleOne", "Props">> \o <<>> /\ bin' = <<>> /\ want' = [kind |-> "line", left |-> 0]
  BY ONLY <1>1, <1>2, <1>3, <1>4, DataStep
<1>6. stack' = <<"MultipleOne", "Props">>
  BY <1>5, Pushes
<1>7. v = OneOf(b, i, j)
  BY DEF v
<1>8. AtProps(b, i, j + 1, PropsRest(b, i, j + 1))'
  BY ONLY <1>1, <1>5, <1>6, <1>7, Batch!IsBatch(b), OneStored
<1> QED BY <1>5, <1>8

LEMMA ListHas ==
  ASSUME NEW b, Batch!IsBatch(b), NEW i, NEW j, HasList(b, i, j)
  PROVE  /\ ListOf(b, i, j) \in Seq(Batch!SentValues) /\ Len(ListOf(b, i, j)) \in Nat
         /\ PropOf(b, i, j).value = Batch!Many(ListOf(b, i, j))
         /\ HasProps(b, i) /\ j + 1 \in 1..Len(b[i + 1].props) /\ j + 1 \in 0..Len(b[i + 1].props)
         /\ j + 1 # 0 /\ (j + 1) - 1 = j
<1>1. HasProps(b, i) /\ j \in 0..(Len(b[i + 1].props) - 1) /\ ListProp(PropOf(b, i, j))
  BY DEF HasList, PropOf
<1>2. Len(b[i + 1].props) \in Nat
  BY <1>1, PropsHas
<1>3. ListOf(b, i, j) \in Seq(Batch!SentValues) /\ PropOf(b, i, j).value = Batch!Many(ListOf(b, i, j))
  BY <1>1 DEF ListProp, ListOf, PropOf
<1>4. Len(ListOf(b, i, j)) \in Nat
  <2> DEFINE vs == ListOf(b, i, j)
             V == Batch!SentValues
  <2>1. vs \in Seq(V)
    BY <1>3
  <2> HIDE DEF vs, V
  <2> QED BY ONLY <2>1 DEF vs
<1> QED BY <1>1, <1>2, <1>3, <1>4

\* The first k values of a list.
LEMMA FirstValues ==
  ASSUME NEW vs \in Seq(Batch!SentValues)
  PROVE  /\ \A k \in 0..Len(vs) : SubSeq(vs, 1, k) # Batch!NoValues
         /\ \A k \in 0..(Len(vs) - 1) : Append(SubSeq(vs, 1, k), vs[k + 1]) = SubSeq(vs, 1, k + 1)
         /\ SubSeq(vs, 1, Len(vs)) = vs
<1> DEFINE V == Batch!SentValues
<1>1. Batch!None \notin V
  <2>1. Batch!None.type = "None"
    BY DEF Batch!None, Batch!Val
  <2>2. \A v \in V : v.type \in {"s", "x", "l"}
    BY ValueIs
  <2> QED BY <2>1, <2>2
<1> HIDE DEF V
<1>2. vs \in Seq(V)
  BY DEF V
<1>3. \A k \in 0..Len(vs) : SubSeq(vs, 1, k) # Batch!NoValues
  <2> TAKE k \in 0..Len(vs)
  <2> DEFINE s == SubSeq(vs, 1, k)
             e == Batch!None
  <2>1. s \in Seq(V)
    BY ONLY <1>2, k \in 0..Len(vs)
  <2>2. e \notin V
    BY <1>1
  <2> HIDE DEF s, e
  <2>4. Len(s) = 1 => s[1] \in V
    <3>1. \A m \in 1..Len(s) : s[m] \in V
      BY ONLY <2>1, ElementOfSeq
    <3> QED BY ONLY <3>1
  <2>3. s # <<e>>
    <3>1. ASSUME s = <<e>> PROVE FALSE
      <4>1. Len(s) = 1 /\ s[1] = e
        BY ONLY <3>1
      <4>2. s[1] \in V
        BY ONLY <2>4, <4>1
      <4> QED BY <2>2, <4>1, <4>2
    <3> QED BY <3>1
  <2> QED BY <2>3 DEF s, e, Batch!NoValues
<1>4. \A k \in 0..(Len(vs) - 1) : Append(SubSeq(vs, 1, k), vs[k + 1]) = SubSeq(vs, 1, k + 1)
  <2> TAKE k \in 0..(Len(vs) - 1)
  <2> DEFINE s == SubSeq(vs, 1, k)
             t == SubSeq(vs, 1, k + 1)
             x == vs[k + 1]
             a == Append(s, x)
  <2>0. k \in Nat /\ Len(vs) \in Nat /\ k + 1 \in 1..Len(vs)
    BY ONLY <1>2, k \in 0..(Len(vs) - 1)
  <2>1. s \in Seq(V) /\ Len(s) = k /\ \A m \in 1..k : s[m] = vs[m]
    BY ONLY <1>2, <2>0
  <2>2. t \in Seq(V) /\ Len(t) = k + 1 /\ \A m \in 1..(k + 1) : t[m] = vs[m]
    BY ONLY <1>2, <2>0
  <2>3. x \in V /\ x = vs[k + 1]
    BY ONLY <1>2, <2>0
  <2> HIDE DEF s, t, x
  <2>4. a \in Seq(V) /\ Len(a) = k + 1 /\ \A m \in 1..(k + 1) : a[m] = IF m <= k THEN s[m] ELSE x
    BY ONLY <2>0, <2>1, <2>3
  <2> HIDE DEF a
  <2>5. \A m \in 1..(k + 1) : a[m] = t[m]
    <3> TAKE m \in 1..(k + 1)
    <3>1. CASE m <= k
      BY ONLY <2>0, <2>1, <2>2, <2>4, <3>1, m \in 1..(k + 1)
    <3>2. CASE ~(m <= k)
      <4>1. m = k + 1
        BY ONLY <2>0, <3>2, m \in 1..(k + 1)
      <4> QED BY ONLY <2>2, <2>3, <2>4, <3>2, <4>1, m \in 1..(k + 1)
    <3> QED BY <3>1, <3>2
  <2>6. a = t
    BY ONLY <2>2, <2>4, <2>5, SeqEqual
  <2> QED BY <2>6 DEF a, s, t, x
<1>5. SubSeq(vs, 1, Len(vs)) = vs
  BY ONLY <1>2, SubSeqFull
<1> QED BY ONLY <1>3, <1>4, <1>5

\* A value of a list has been read.
LEMMA ListStored ==
  ASSUME NEW b, Batch!IsBatch(b), NEW i, NEW j, HasList(b, i, j), NEW k \in 0..(Len(ListOf(b, i, j)) - 1),
         NoneAfterList => ParsedList(b, i, j, k),
         NEW v, v = ListOf(b, i, j)[k + 1], Batch!StoreValue(v), UNCHANGED <<commands, command, prop_name>>,
         stack' = <<"MultipleOne", "Props", "PropMulti">>, bin' = <<>>, want' = [kind |-> "line", left |-> 0]
  PROVE  AtPropMulti(b, i, j, k + 1, ValuesLeft(ListOf(b, i, j), k + 1) \o PropsRest(b, i, j + 1))'
<1> DEFINE vs == ListOf(b, i, j)
<1>1. vs \in Seq(Batch!SentValues) /\ Len(vs) \in Nat
  BY ListHas
<1>2. k \in 0..Len(vs) /\ k + 1 \in 0..Len(vs)
  BY <1>1
<1> HIDE DEF vs
<1>3. SubSeq(vs, 1, k) # Batch!NoValues /\ Append(SubSeq(vs, 1, k), vs[k + 1]) = SubSeq(vs, 1, k + 1)
  <2>1. k \in 0..(Len(vs) - 1)
    BY DEF vs
  <2> QED BY ONLY <1>1, <1>2, <2>1, FirstValues
<1>4. ASSUME NoneAfterList PROVE ParsedList(b, i, j, k + 1)'
  <2>1. prop_values = SubSeq(vs, 1, k) /\ Parsed(b, i, j, b[i + 1].props[j + 1].key)
    BY <1>4 DEF ParsedList, vs
  <2>2. prop_values' = Append(prop_values, v)
    BY <1>3, <2>1 DEF Batch!StoreValue
  <2>3. prop_values' = SubSeq(vs, 1, k + 1)
    BY <1>3, <2>1, <2>2 DEF vs
  <2>4. Parsed(b, i, j, b[i + 1].props[j + 1].key)'
    BY <2>1 DEF Parsed
  <2> QED BY <2>3, <2>4 DEF ParsedList, vs
<1> QED BY <1>2, <1>4 DEF AtPropMulti, WantsLine, vs

LEMMA MultiStep ==
  ASSUME NEW b, NEW i, NEW j, NEW k, NEW g, AtPropMulti(b, i, j, k, g), NEW c, NEW n,
         NEW h, Processes(<<<<c, n>>>>, h)
  PROVE  Batch!ExpectPropMulti(<<c, n>>, <<"MultipleOne", "Props">>) /\ bin' = <<>>
<1>1. stack = <<"MultipleOne", "Props", "PropMulti">>
  BY DEF AtPropMulti
<1>2. Batch!Last(stack) = "PropMulti" /\ Batch!Front(stack) = <<"MultipleOne", "Props">> /\ stack # <<>>
  BY <1>1, Stacks
<1>3. Batch!ExpectPropMulti(<<<<c, n>>>>[1], <<"MultipleOne", "Props">>) /\ bin' = <<>>
  BY <1>2, Dispatch, Zenon DEF Processes
<1> QED BY <1>3

LEMMA MultiEnd ==
  ASSUME NEW b, Batch!IsBatch(b), NEW i, NEW j, NEW k, NEW g, AtPropMulti(b, i, j, k, g), k = Len(ListOf(b, i, j)),
         NEW h, Processes(<<<<"M", 0>>>>, h)
  PROVE  AtProps(b, i, j + 1, PropsRest(b, i, j + 1))' /\ Batch!Quiet
<1> DEFINE vs == ListOf(b, i, j)
<1>1. Batch!ExpectPropMulti(<<"M", 0>>, <<"MultipleOne", "Props">>) /\ bin' = <<>>
  BY MultiStep
<1>2. /\ UNCHANGED Batch!parse /\ Batch!Quiet
      /\ stack' = <<"MultipleOne", "Props">> \o <<>> /\ want' = [kind |-> "line", left |-> 0]
  BY <1>1 DEF Batch!ExpectPropMulti, Batch!Push, Batch!WantLine
<1>3. stack' = <<"MultipleOne", "Props">>
  BY <1>2, Pushes
<1>4. HasList(b, i, j) /\ (NoneAfterList => ParsedList(b, i, j, k))
  BY DEF AtPropMulti
<1>5. /\ vs \in Seq(Batch!SentValues) /\ Len(vs) \in Nat /\ PropOf(b, i, j).value = Batch!Many(vs)
      /\ HasProps(b, i) /\ j + 1 \in 1..Len(b[i + 1].props) /\ j + 1 \in 0..Len(b[i + 1].props)
      /\ j + 1 # 0 /\ (j + 1) - 1 = j
  BY <1>4, ListHas
<1>6. ASSUME NoneAfterList
      PROVE  /\ ListOnly(b, i, j + 1)'
             /\ Parsed(b, i, j, b[i + 1].props[j + 1].key)' /\ Pending' = b[i + 1].props[j + 1].value
  <2>1. prop_values = SubSeq(vs, 1, Len(vs)) /\ Parsed(b, i, j, b[i + 1].props[j + 1].key)
    BY <1>4, <1>6 DEF ParsedList
  <2>2. SubSeq(vs, 1, Len(vs)) = vs /\ vs # Batch!NoValues
    <3> HIDE DEF vs
    <3>1. Len(vs) \in 0..Len(vs)
      BY ONLY <1>5
    <3> QED BY ONLY <1>5, <3>1, FirstValues
  <2>3. prop_values' = vs
    BY <1>2, <2>1, <2>2 DEF Batch!parse
  <2>4. Parsed(b, i, j, b[i + 1].props[j + 1].key)'
    BY <1>2, <2>1 DEF Parsed, Batch!parse
  <2>5. Pending' = b[i + 1].props[j + 1].value
    BY <1>5, <2>2, <2>3 DEF Pending, PropOf
  <2>6. LastList(b, i, j + 1)
    <3>1. i \in 0..(Len(b) - 1)
      BY <1>5, PropsHas
    <3>2. LastList(b, i, j + 1) = b[i + 1].props[j + 1].value.many
      BY <1>5, <3>1, LastListNext
    <3>3. b[i + 1].props[j + 1].value = Batch!Many(vs)
      BY <1>5 DEF PropOf
    <3>4. Batch!Many(vs).many
      BY DEF Batch!Many
    <3> QED BY ONLY <3>2, <3>3, <3>4, Zenon
  <2> QED BY <2>4, <2>5, <2>6 DEF ListOnly
<1> QED BY <1>1, <1>2, <1>3, <1>5, <1>6 DEF AtProps, WantsLine

LEMMA MultiLine ==
  ASSUME NEW b, Batch!IsBatch(b), NEW i, NEW j, NEW k, NEW g, AtPropMulti(b, i, j, k, g), k < Len(ListOf(b, i, j)),
         ListOf(b, i, j)[k + 1].type = "l", NEW h, Processes(<<<<"l", 0>>>>, h)
  PROVE  /\ AtPropMulti(b, i, j, k + 1, ValuesLeft(ListOf(b, i, j), k + 1) \o PropsRest(b, i, j + 1))'
         /\ Batch!Quiet
<1>1. Batch!ExpectPropMulti(<<"l", 0>>, <<"MultipleOne", "Props">>) /\ bin' = <<>>
  BY MultiStep
<1>2. Batch!ExpectProp(<<"l", 0>>, Append(<<"MultipleOne", "Props">>, "PropMulti"))
  BY <1>1 DEF Batch!ExpectPropMulti
<1>3. /\ Batch!StoreValue(Batch!Val("l", <<>>)) /\ UNCHANGED <<commands, command, prop_name>>
      /\ stack' = Append(<<"MultipleOne", "Props">>, "PropMulti") \o <<>>
      /\ want' = [kind |-> "line", left |-> 0] /\ Batch!Quiet
  BY <1>2 DEF Batch!ExpectProp, Batch!Push, Batch!WantLine
<1>4. stack' = <<"MultipleOne", "Props", "PropMulti">>
  BY <1>3, Pushes
<1>5. HasList(b, i, j) /\ (NoneAfterList => ParsedList(b, i, j, k)) /\ k \in 0..Len(ListOf(b, i, j))
  BY DEF AtPropMulti
<1>6. k \in 0..(Len(ListOf(b, i, j)) - 1) /\ ListOf(b, i, j)[k + 1] \in Batch!SentValues
  <2>1. ListOf(b, i, j) \in Seq(Batch!SentValues) /\ Len(ListOf(b, i, j)) \in Nat
    BY <1>5, ListHas
  <2>2. k \in 0..(Len(ListOf(b, i, j)) - 1) /\ k + 1 \in 1..Len(ListOf(b, i, j))
    BY <1>5, <2>1
  <2> QED BY <2>1, <2>2, ValuesLeftIs
<1>7. ListOf(b, i, j)[k + 1] = Batch!Val("l", <<>>)
  BY <1>6, ValueIs
<1>8. AtPropMulti(b, i, j, k + 1, ValuesLeft(ListOf(b, i, j), k + 1) \o PropsRest(b, i, j + 1))'
  BY <1>1, <1>3, <1>4, <1>5, <1>6, <1>7, ListStored
<1> QED BY <1>3, <1>8

LEMMA MultiLength ==
  ASSUME NEW b, Batch!IsBatch(b), NEW i, NEW j, NEW k, NEW g, AtPropMulti(b, i, j, k, g), k < Len(ListOf(b, i, j)),
         NEW v, v = ListOf(b, i, j)[k + 1], v.type # "l", NEW h, Processes(<<<<v.type, Len(v.data)>>>>, h)
  PROVE  /\ AtMultiData(b, i, j, k, (v.data \o <<Batch!NL>>)
                                      \o (ValuesLeft(ListOf(b, i, j), k + 1) \o PropsRest(b, i, j + 1)))'
         /\ Batch!Quiet
<1>1. Batch!ExpectPropMulti(<<v.type, Len(v.data)>>, <<"MultipleOne", "Props">>) /\ bin' = <<>>
  BY MultiStep
<1>2. HasList(b, i, j) /\ (NoneAfterList => ParsedList(b, i, j, k)) /\ k \in 0..Len(ListOf(b, i, j))
  BY DEF AtPropMulti
<1>3. k \in 0..(Len(ListOf(b, i, j)) - 1) /\ v \in Batch!SentValues
  <2>1. ListOf(b, i, j) \in Seq(Batch!SentValues) /\ Len(ListOf(b, i, j)) \in Nat
    BY <1>2, ListHas
  <2>2. k \in 0..(Len(ListOf(b, i, j)) - 1) /\ k + 1 \in 1..Len(ListOf(b, i, j))
    BY <1>2, <2>1
  <2> QED BY <2>1, <2>2, ValuesLeftIs
<1>4. v.type # "M"
  <2>1. v.type \in {"s", "x", "l"}
    BY <1>3, ValueIs
  <2> QED BY <2>1
<1>5. Batch!ExpectProp(<<v.type, Len(v.data)>>, Append(<<"MultipleOne", "Props">>, "PropMulti"))
  <2>1. <<v.type, Len(v.data)>> # <<"M", 0>>
    BY <1>4
  <2> QED BY <1>1, <2>1 DEF Batch!ExpectPropMulti
<1>6. Append(<<"MultipleOne", "Props">>, "PropMulti") = <<"MultipleOne", "Props", "PropMulti">>
  BY Pushes
<1>7. /\ stack' = <<"MultipleOne", "Props", "PropMulti">> \o <<Cont(v)>> /\ WantsData(v)'
      /\ UNCHANGED Batch!parse /\ Batch!Quiet
  BY <1>1, <1>3, <1>5, <1>6, LengthStep
<1>8. stack' = <<"MultipleOne", "Props", "PropMulti", Cont(v)>>
  BY <1>7, Pushes
<1>9. NoneAfterList => ParsedList(b, i, j, k)'
  BY <1>2, <1>7 DEF ParsedList, Parsed, Batch!parse
<1> QED BY <1>2, <1>3, <1>7, <1>8, <1>9 DEF AtMultiData

LEMMA MultiData ==
  ASSUME NEW b, Batch!IsBatch(b), NEW i, NEW j, NEW k, NEW g, AtMultiData(b, i, j, k, g),
         NEW h, Processes(ListOf(b, i, j)[k + 1].data, h)
  PROVE  /\ AtPropMulti(b, i, j, k + 1, ValuesLeft(ListOf(b, i, j), k + 1) \o PropsRest(b, i, j + 1))'
         /\ Batch!Quiet
<1> DEFINE v == ListOf(b, i, j)[k + 1]
<1>1. /\ HasList(b, i, j) /\ k \in 0..(Len(ListOf(b, i, j)) - 1) /\ v.type # "l"
      /\ stack = <<"MultipleOne", "Props", "PropMulti", Cont(v)>>
      /\ NoneAfterList => ParsedList(b, i, j, k)
  BY DEF AtMultiData
<1>2. v \in Batch!SentValues
  <2>1. ListOf(b, i, j) \in Seq(Batch!SentValues) /\ Len(ListOf(b, i, j)) \in Nat
    BY <1>1, ListHas
  <2>2. k + 1 \in 1..Len(ListOf(b, i, j))
    BY <1>1, <2>1
  <2> QED BY <2>1, <2>2, ValuesLeftIs
<1>3. Processes(v.data, h) /\ v = ListOf(b, i, j)[k + 1]
  OBVIOUS
<1> HIDE DEF v
<1>4. stack # <<>> /\ Batch!Last(stack) = Cont(v) /\ Batch!Front(stack) = <<"MultipleOne", "Props", "PropMulti">>
  BY <1>1, Stacks
<1>5. /\ Batch!StoreValue(v) /\ UNCHANGED <<commands, command, prop_name>> /\ Batch!Quiet
      /\ stack' = <<"MultipleOne", "Props", "PropMulti">> \o <<>> /\ bin' = <<>> /\ want' = [kind |-> "line", left |-> 0]
  BY ONLY <1>1, <1>2, <1>3, <1>4, DataStep
<1>6. stack' = <<"MultipleOne", "Props", "PropMulti">>
  BY <1>5, Pushes
<1>7. AtPropMulti(b, i, j, k + 1, ValuesLeft(ListOf(b, i, j), k + 1) \o PropsRest(b, i, j + 1))'
  BY ONLY <1>1, <1>3, <1>5, <1>6, Batch!IsBatch(b), ListStored
<1> QED BY <1>5, <1>7

LEMMA InsertsStep ==
  ASSUME NEW b, NEW i, NEW k, NEW g, AtInserts(b, i, k, g), NEW c, NEW n, NEW h, Processes(<<<<c, n>>>>, h)
  PROVE  Batch!ExpectInserts(<<c, n>>, <<"MultipleOne">>) /\ bin' = <<>>
<1>1. stack = <<"MultipleOne", "Inserts">>
  BY DEF AtInserts
<1>2. Batch!Last(stack) = "Inserts" /\ Batch!Front(stack) = <<"MultipleOne">> /\ stack # <<>>
  BY <1>1, Stacks
<1>3. Batch!ExpectInserts(<<<<c, n>>>>[1], <<"MultipleOne">>) /\ bin' = <<>>
  BY <1>2, Dispatch, Zenon DEF Processes
<1> QED BY <1>3

LEMMA InsertsHas ==
  ASSUME NEW b, Batch!IsBatch(b), NEW i \in 0..(Len(b) - 1), b[i + 1].op = "reorder"
  PROVE  /\ b[i + 1].inserts \in Nat /\ b[i + 1].props = <<>> /\ Len(b[i + 1].props) = 0
         /\ i + 1 \in 0..Len(b) /\ Batch!IsCommand(b[i + 1])
<1>1. Len(b) \in Nat
  BY BatchHas
<1>2. i + 1 \in 1..Len(b) /\ i + 1 \in 0..Len(b)
  BY <1>1
<1>3. Batch!IsCommand(b[i + 1])
  BY <1>2, BatchHas
<1>4. b[i + 1].inserts \in Nat /\ b[i + 1].props = <<>>
  BY <1>3, CommandHas DEF CommandKinds
<1> QED BY <1>2, <1>3, <1>4

LEMMA InsertsEnd ==
  ASSUME NEW b, Batch!IsBatch(b), NEW i, NEW k, NEW g, AtInserts(b, i, k, g), k = b[i + 1].inserts,
         NEW h, Processes(<<<<"%", 0>>>>, h)
  PROVE  AtCommand(b, i + 1, CommandsLeft(b, i + 1))' /\ Batch!Quiet
<1>1. Batch!ExpectInserts(<<"%", 0>>, <<"MultipleOne">>) /\ bin' = <<>>
  BY InsertsStep
<1>2. /\ UNCHANGED <<commands, command, prop_name, prop_value, prop_values>> /\ Batch!Quiet
      /\ stack' = <<"MultipleOne">> \o <<>> /\ want' = [kind |-> "line", left |-> 0]
  BY <1>1 DEF Batch!ExpectInserts, Batch!Push, Batch!WantLine
<1>3. stack' = <<"MultipleOne">>
  BY <1>2, Pushes
<1>4. i \in 0..(Len(b) - 1) /\ b[i + 1].op = "reorder"
  BY DEF AtInserts
<1>5. /\ b[i + 1].inserts \in Nat /\ Len(b[i + 1].props) = 0
      /\ i + 1 \in 0..Len(b) /\ Batch!IsCommand(b[i + 1])
  BY <1>4, InsertsHas
<1>6. ASSUME NoneAfterList PROVE Batch!Complete' = Got(b, i + 1) /\ ListOnly(b, i + 1, 0)'
  <2>1. commands = Got(b, i) /\ command = Batch!Command("reorder", Dict(b[i + 1].props, 0), k) /\ ListOnly(b, i, 0)
    BY <1>6 DEF AtInserts
  <2>2. commands' = Got(b, i) /\ command' = Batch!Command(b[i + 1].op, Dict(b[i + 1].props, Len(b[i + 1].props)), b[i + 1].inserts)
    BY <1>2, <1>4, <1>5, <2>1
  <2>3. Batch!Complete' = Got(b, i + 1)
    BY ONLY <1>4, <2>2, Batch!IsBatch(b), CompleteIs DEF Batch!Complete
  <2>4. LastList(b, i, 0) => LastList(b, i + 1, 0)
    BY <1>4, <1>5, LastListNext
  <2> QED BY <1>2, <2>1, <2>3, <2>4 DEF ListOnly
<1> QED BY <1>1, <1>2, <1>3, <1>5, <1>6 DEF AtCommand, WantsLine

LEMMA InsertsNext ==
  ASSUME NEW b, Batch!IsBatch(b), NEW i, NEW k, NEW g, AtInserts(b, i, k, g), k < b[i + 1].inserts,
         NEW h, Processes(<<<<"insert", 0>>>>, h)
  PROVE  AtInserts(b, i, k + 1, InsertsLeft(b[i + 1].inserts, k + 1) \o CommandsLeft(b, i + 1))' /\ Batch!Quiet
<1>1. Batch!ExpectInserts(<<"insert", 0>>, <<"MultipleOne">>) /\ bin' = <<>>
  BY InsertsStep
<1>2. /\ UNCHANGED <<commands, prop_name, prop_value, prop_values>> /\ Batch!Quiet
      /\ command' = [command EXCEPT !.inserts = @ + 1]
      /\ stack' = <<"MultipleOne">> \o <<"Inserts">> /\ want' = [kind |-> "line", left |-> 0]
  BY <1>1 DEF Batch!ExpectInserts, Batch!Push, Batch!WantLine
<1>3. stack' = <<"MultipleOne", "Inserts">>
  BY <1>2, Pushes
<1>4. i \in 0..(Len(b) - 1) /\ b[i + 1].op = "reorder" /\ k \in 0..b[i + 1].inserts
  BY DEF AtInserts
<1>5. k + 1 \in 0..b[i + 1].inserts
  <2>1. b[i + 1].inserts \in Nat
    BY <1>4, InsertsHas
  <2> QED BY <1>4, <2>1
<1>6. ASSUME NoneAfterList
      PROVE  /\ commands' = Got(b, i) /\ command' = Batch!Command("reorder", Dict(b[i + 1].props, 0), k + 1)
             /\ ListOnly(b, i, 0)'
  <2> DEFINE d == Dict(b[i + 1].props, 0)
  <2>1. commands = Got(b, i) /\ command = Batch!Command("reorder", d, k) /\ ListOnly(b, i, 0)
    BY <1>6 DEF AtInserts
  <2> HIDE DEF d
  <2>2. command' = Batch!Command("reorder", d, k + 1)
    BY <1>2, <2>1 DEF Batch!Command
  <2> QED BY <1>2, <2>1, <2>2 DEF ListOnly, d
<1> QED BY <1>1, <1>2, <1>3, <1>4, <1>5, <1>6 DEF AtInserts, WantsLine
=============================================================================
