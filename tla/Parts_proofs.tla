---------------------------- MODULE Parts_proofs -----------------------------
(***************************************************************************)
(* Three of the parts for every value of their constants: Reorder moves    *)
(* any children into any order, FakeServer stays a tree whatever its       *)
(* sessions do, and the attributes and properties of SpecialAttributes     *)
(* agree for every set of names and roles. Batch_proofs has the fourth.    *)
(***************************************************************************)
EXTENDS Parts, Functions, FiniteSetTheorems, SequenceTheorems, WellFoundedInduction, TLAPS

-----------------------------------------------------------------------------
(* Sequences.                                                              *)

LEMMA RemoveAtFacts ==
  ASSUME NEW S, NEW s \in Seq(S), NEW i \in 1..Len(s)
  PROVE  /\ RemoveAt(s, i) \in Seq(S) /\ Len(RemoveAt(s, i)) = Len(s) - 1
         /\ \A k \in 1..(Len(s) - 1) : RemoveAt(s, i)[k] = IF k < i THEN s[k] ELSE s[k + 1]
<1> DEFINE a == SubSeq(s, 1, i - 1)
           b == SubSeq(s, i + 1, Len(s))
<1>1. /\ a \in Seq(S) /\ Len(a) = i - 1 /\ \A k \in 1..(i - 1) : a[k] = s[k]
      /\ b \in Seq(S) /\ Len(b) = Len(s) - i /\ \A k \in 1..(Len(s) - i) : b[k] = s[k + i]
  OBVIOUS
<1>2. RemoveAt(s, i) = a \o b
  BY DEF RemoveAt
<1> HIDE DEF a, b
<1>3. /\ a \o b \in Seq(S) /\ Len(a \o b) = Len(a) + Len(b)
      /\ \A k \in 1..(Len(a) + Len(b)) : (a \o b)[k] = IF k <= Len(a) THEN a[k] ELSE b[k - Len(a)]
  BY <1>1, ConcatProperties
<1>4. \A k \in 1..(Len(s) - 1) : k >= i => k - Len(a) \in 1..(Len(s) - i) /\ (k - Len(a)) + i = k + 1
  BY <1>1
<1>5. RemoveAt(s, i) \in Seq(S) /\ Len(RemoveAt(s, i)) = Len(s) - 1
  BY <1>1, <1>2, <1>3
<1>6. ASSUME NEW k \in 1..(Len(s) - 1)
      PROVE  RemoveAt(s, i)[k] = IF k < i THEN s[k] ELSE s[k + 1]
  <2>1. Len(s) \in Nat /\ i \in 1..Len(s)
    BY ONLY s \in Seq(S), i \in 1..Len(s)
  <2>2. k \in 1..(Len(a) + Len(b))
    BY ONLY <1>1, <2>1, k \in 1..(Len(s) - 1)
  <2>3. (a \o b)[k] = IF k <= Len(a) THEN a[k] ELSE b[k - Len(a)]
    BY ONLY <1>3, <2>2
  <2>4. CASE k < i
    <3>1. k \in 1..(i - 1) /\ k <= Len(a)
      BY ONLY <1>1, <2>1, <2>4, k \in 1..(Len(s) - 1)
    <3> QED BY ONLY <1>1, <1>2, <2>3, <2>4, <3>1
  <2>5. CASE k >= i
    <3>1. k - Len(a) \in 1..(Len(s) - i) /\ (k - Len(a)) + i = k + 1 /\ ~(k <= Len(a)) /\ ~(k < i)
      BY ONLY <1>1, <2>1, <2>5, k \in 1..(Len(s) - 1)
    <3>2. b[k - Len(a)] = s[k + 1]
      BY ONLY <1>1, <3>1
    <3> QED BY ONLY <1>2, <2>3, <3>1, <3>2
  <2> QED BY ONLY <2>1, <2>4, <2>5, k \in 1..(Len(s) - 1)
<1> QED BY <1>5, <1>6

\* t is s with e as its i-th element.
Inserted(t, s, i, e, S) ==
  /\ t \in Seq(S) /\ Len(t) = Len(s) + 1
  /\ \A k \in 1..(Len(s) + 1) : t[k] = IF k < i THEN s[k] ELSE IF k = i THEN e ELSE s[k - 1]

LEMMA InsertAtFacts ==
  ASSUME NEW S, NEW s \in Seq(S), NEW i \in 1..(Len(s) + 1), NEW e \in S
  PROVE  Inserted(InsertAt(s, i, e), s, i, e, S)
<1> DEFINE a == SubSeq(s, 1, i - 1)
           b == SubSeq(s, i, Len(s))
           c == a \o <<e>>
<1>1. /\ a \in Seq(S) /\ Len(a) = i - 1 /\ \A k \in 1..(i - 1) : a[k] = s[k]
      /\ b \in Seq(S) /\ Len(b) = Len(s) + 1 - i
      /\ \A k \in 1..(Len(s) + 1 - i) : b[k] = s[k + i - 1]
  OBVIOUS
<1>2. InsertAt(s, i, e) = c \o b
  BY DEF InsertAt
<1> HIDE DEF a, b
<1>3. c \in Seq(S) /\ Len(c) = i /\ \A k \in 1..i : c[k] = IF k < i THEN a[k] ELSE e
  <2>1. <<e>> \in Seq(S) /\ Len(<<e>>) = 1 /\ <<e>>[1] = e
    OBVIOUS
  <2>2. /\ c \in Seq(S) /\ Len(c) = Len(a) + Len(<<e>>)
        /\ \A k \in 1..(Len(a) + Len(<<e>>)) :
             c[k] = IF k <= Len(a) THEN a[k] ELSE <<e>>[k - Len(a)]
    BY <1>1, <2>1, ConcatProperties
  <2> HIDE DEF c
  <2> QED BY <1>1, <2>1, <2>2
<1> HIDE DEF c
<1>4. /\ c \o b \in Seq(S) /\ Len(c \o b) = Len(c) + Len(b)
      /\ \A k \in 1..(Len(c) + Len(b)) : (c \o b)[k] = IF k <= Len(c) THEN c[k] ELSE b[k - Len(c)]
  <2>1. c \in Seq(S) /\ b \in Seq(S)
    BY <1>1, <1>3
  <2> QED BY <2>1, ConcatProperties
<1>5. \A k \in 1..(Len(s) + 1) : k > i => k - i \in 1..(Len(s) + 1 - i) /\ (k - i) + i - 1 = k - 1
  OBVIOUS
<1>6. Len(s) \in Nat /\ i \in 1..(Len(s) + 1)
  BY ONLY s \in Seq(S), i \in 1..(Len(s) + 1)
<1>7. InsertAt(s, i, e) \in Seq(S) /\ Len(InsertAt(s, i, e)) = Len(s) + 1
  BY ONLY <1>1, <1>2, <1>3, <1>4, <1>6
<1>8. ASSUME NEW k \in 1..(Len(s) + 1)
      PROVE  InsertAt(s, i, e)[k] = IF k < i THEN s[k] ELSE IF k = i THEN e ELSE s[k - 1]
  <2>1. k \in 1..(Len(c) + Len(b))
    BY ONLY <1>1, <1>3, <1>6, k \in 1..(Len(s) + 1)
  <2>2. (c \o b)[k] = IF k <= Len(c) THEN c[k] ELSE b[k - Len(c)]
    BY ONLY <1>4, <2>1
  <2>3. CASE k <= i
    <3>1. k \in 1..i /\ k <= Len(c) /\ (k < i => k \in 1..(i - 1)) /\ (~(k < i) => k = i)
      BY ONLY <1>3, <1>6, <2>3, k \in 1..(Len(s) + 1)
    <3>2. c[k] = IF k < i THEN s[k] ELSE e
      BY ONLY <1>1, <1>3, <3>1
    <3> QED BY ONLY <1>2, <2>2, <3>1, <3>2
  <2>4. CASE k > i
    <3>1. /\ k - i \in 1..(Len(s) + 1 - i) /\ (k - i) + i - 1 = k - 1
          /\ ~(k <= Len(c)) /\ ~(k < i) /\ k # i
      BY ONLY <1>3, <1>6, <2>4, k \in 1..(Len(s) + 1)
    <3>2. b[k - i] = s[k - 1]
      BY ONLY <1>1, <3>1
    <3> QED BY ONLY <1>2, <1>3, <2>2, <3>1, <3>2
  <2> QED BY ONLY <1>6, <2>3, <2>4, k \in 1..(Len(s) + 1)
<1> QED BY ONLY <1>7, <1>8 DEF Inserted

\* The operators of the instances are those of this module.
LEMMA SameOperators ==
  /\ \A s, i : Order!RemoveAt(s, i) = RemoveAt(s, i) /\ Server!RemoveAt(s, i) = RemoveAt(s, i)
  /\ \A s, i, e : /\ Order!InsertAt(s, i, e) = InsertAt(s, i, e)
                  /\ Server!InsertAt(s, i, e) = InsertAt(s, i, e)
  /\ \A S : Order!SetToSeqs(S) = SetToSeqs(S)
  /\ \A s : Order!ToSet(s) = ToSet(s) /\ Server!ToSet(s) = ToSet(s)
<1>1. \A s, i : Order!RemoveAt(s, i) = RemoveAt(s, i) /\ Server!RemoveAt(s, i) = RemoveAt(s, i)
  BY DEF Order!RemoveAt, Server!RemoveAt, RemoveAt
<1>2. \A s, i, e : /\ Order!InsertAt(s, i, e) = InsertAt(s, i, e)
                   /\ Server!InsertAt(s, i, e) = InsertAt(s, i, e)
  BY DEF Order!InsertAt, Server!InsertAt, InsertAt
<1>3. \A S : Order!SetToSeqs(S) = SetToSeqs(S)
  <2>1. \A S : Order!Cardinality(S) = Cardinality(S)
    BY Zenon DEF Order!Cardinality, Cardinality
  <2> QED BY <2>1 DEF Order!SetToSeqs, SetToSeqs
<1>4. \A s : Order!ToSet(s) = ToSet(s) /\ Server!ToSet(s) = ToSet(s)
  BY DEF Order!ToSet, Server!ToSet, ToSet
<1> QED BY <1>1, <1>2, <1>3, <1>4

\* A sequence that has every element of a set once.
LEMMA PermFacts ==
  ASSUME NEW S, IsFiniteSet(S), NEW s \in SetToSeqs(S)
  PROVE  /\ Cardinality(S) \in Nat /\ Len(s) = Cardinality(S)
         /\ s \in Seq(S) /\ DOMAIN s = 1..Len(s)
         /\ \A i, j \in 1..Len(s) : s[i] = s[j] => i = j
         /\ ToSet(s) = S
<1> DEFINE n == Cardinality(S)
<1>1. n \in Nat
  BY FS_CardinalityType
<1>2. s \in [1..n -> S] /\ \A i, j \in 1..n : i # j => s[i] # s[j]
  BY DEF SetToSeqs
<1>3. s \in Seq(S) /\ Len(s) = n /\ DOMAIN s = 1..n
  BY <1>1, <1>2
<1>4. s \in Injection(1..n, S)
  BY <1>2 DEF Injection, IsInjective
<1>5. Cardinality(1..n) = n
  BY <1>1, FS_Interval
<1>6. s \in Surjection(1..n, S)
  BY <1>4, <1>5, FS_Injection
<1>7. ToSet(s) = S
  BY <1>3, <1>6 DEF Surjection, ToSet
<1> QED BY <1>1, <1>2, <1>3, <1>7

LEMMA PositionFacts ==
  ASSUME NEW S, IsFiniteSet(S), NEW s \in SetToSeqs(S), NEW x \in S
  PROVE  /\ Order!Position(s, x) \in 1..Len(s) /\ s[Order!Position(s, x)] = x
         /\ \A i \in 1..Len(s) : s[i] = x => i = Order!Position(s, x)
<1>1. \E i \in DOMAIN s : s[i] = x
  BY PermFacts DEF ToSet
<1>2. Order!Position(s, x) \in DOMAIN s /\ s[Order!Position(s, x)] = x
  BY <1>1 DEF Order!Position
<1> QED BY <1>2, PermFacts

\* Where everything is when x has been moved before y.
LEMMA Moved ==
  ASSUME NEW S, IsFiniteSet(S), NEW s \in SetToSeqs(S), NEW x \in S, NEW y \in S,
         Order!Position(s, y) < Order!Position(s, x)
  PROVE  LET i == Order!Position(s, y)
             j == Order!Position(s, x)
             m == Order!MoveBefore(s, x, y)
         IN /\ m \in SetToSeqs(S)
            /\ m = [k \in 1..Len(s) |-> IF k < i \/ j < k THEN s[k]
                                        ELSE IF k = i THEN x ELSE s[k - 1]]
<1> DEFINE n == Len(s)
           i == Order!Position(s, y)
           j == Order!Position(s, x)
           rest == Order!RemoveAt(s, j)
           m == Order!MoveBefore(s, x, y)
           r == [k \in 1..(n - 1) |-> IF k < j THEN s[k] ELSE s[k + 1]]
           f == [k \in 1..n |-> IF k < i \/ j < k THEN s[k] ELSE IF k = i THEN x ELSE s[k - 1]]
<1>1. /\ s \in Seq(S) /\ n \in Nat /\ \A k, l \in 1..n : s[k] = s[l] => k = l
      /\ n = Cardinality(S)
  BY PermFacts
<1>2. i \in 1..n /\ j \in 1..n /\ i < j /\ s[i] = y /\ s[j] = x
  BY PositionFacts
<1> HIDE DEF i, j
<1>3. rest = r
  <2>1. rest = RemoveAt(s, j)
    BY SameOperators
  <2> HIDE DEF rest
  <2>2. /\ rest \in Seq(S) /\ Len(rest) = n - 1
        /\ \A k \in 1..(n - 1) : rest[k] = IF k < j THEN s[k] ELSE s[k + 1]
    BY <1>1, <1>2, <2>1, RemoveAtFacts
  <2> QED BY <1>1, <2>2
<1>4. DOMAIN r = 1..(n - 1) /\ \A k \in 1..(n - 1) : r[k] = IF k < j THEN s[k] ELSE s[k + 1]
  OBVIOUS
<1>5. r \in Seq(S) /\ Len(r) = n - 1
  BY <1>1, <1>2
<1> HIDE DEF r
<1>6. Order!Position(rest, y) = i
  <2>1. i \in DOMAIN r /\ r[i] = y /\ \A k \in DOMAIN r : r[k] = y => k = i
    BY <1>1, <1>2, <1>4
  <2> QED BY <1>3, <2>1 DEF Order!Position
<1>7. m = f
  <2>1. m = Order!InsertAt(rest, Order!Position(rest, y), x)
    BY DEF Order!MoveBefore, j
  <2>2. m = InsertAt(r, i, x)
    BY <2>1, <1>3, <1>6, SameOperators
  <2> HIDE DEF m
  <2>3. i \in 1..(Len(r) + 1) /\ Len(r) + 1 = n
    BY <1>1, <1>2, <1>5
  <2>4. /\ m \in Seq(S) /\ Len(m) = n
        /\ \A k \in 1..n : m[k] = IF k < i THEN r[k] ELSE IF k = i THEN x ELSE r[k - 1]
    <3>1. x \in S /\ i \in 1..(Len(r) + 1)
      BY <2>3
    <3>2. Inserted(InsertAt(r, i, x), r, i, x, S)
      BY ONLY <1>5, <3>1, InsertAtFacts
    <3> QED BY ONLY <2>2, <2>3, <3>2 DEF Inserted
  <2>5. \A k \in 1..n : m[k] = IF k < i \/ j < k THEN s[k] ELSE IF k = i THEN x ELSE s[k - 1]
    <3> TAKE k \in 1..n
    <3>1. n \in Nat /\ k \in Nat /\ i \in Nat /\ j \in Nat /\ i < j /\ j <= n
      BY ONLY <1>1, <1>2, k \in 1..n
    <3>2. m[k] = IF k < i THEN r[k] ELSE IF k = i THEN x ELSE r[k - 1]
      BY ONLY <2>4, k \in 1..n
    <3>3. CASE k < i
      <4>1. k \in 1..(n - 1) /\ k < j
        BY ONLY <3>1, <3>3, k \in 1..n
      <4>2. r[k] = s[k]
        BY ONLY <1>4, <4>1
      <4> QED BY ONLY <3>2, <3>3, <4>2
    <3>4. CASE k = i
      BY ONLY <3>1, <3>2, <3>4
    <3>5. CASE i < k /\ k <= j
      <4>1. k - 1 \in 1..(n - 1) /\ k - 1 < j
        BY ONLY <1>2, <3>1, <3>5
      <4>2. r[k - 1] = s[k - 1]
        BY ONLY <1>4, <4>1
      <4> QED BY ONLY <3>1, <3>2, <3>5, <4>2
    <3>6. CASE j < k
      <4>1. k - 1 \in 1..(n - 1) /\ ~(k - 1 < j) /\ (k - 1) + 1 = k
        BY ONLY <1>2, <3>1, <3>6, k \in 1..n
      <4>2. r[k - 1] = s[k]
        BY ONLY <1>4, <4>1
      <4> QED BY ONLY <3>1, <3>2, <3>6, <4>2
    <3> QED BY ONLY <3>1, <3>3, <3>4, <3>5, <3>6
  <2> QED BY <2>4, <2>5
<1>8. f \in SetToSeqs(S)
  <2>1. f \in [1..n -> S]
    BY <1>1, <1>2
  <2>2. \A k, l \in 1..n : k # l => f[k] # f[l]
    BY <1>1, <1>2
  <2> HIDE DEF f
  <2> QED BY <1>1, <2>1, <2>2 DEF SetToSeqs
<1> QED BY <1>7, <1>8 DEF i, j

LEMMA PositionMoved ==
  ASSUME NEW S, IsFiniteSet(S), NEW s \in SetToSeqs(S), NEW x \in S, NEW y \in S,
         Order!Position(s, y) < Order!Position(s, x), NEW z \in S
  PROVE  LET i == Order!Position(s, y)
             j == Order!Position(s, x)
             p == Order!Position(s, z)
         IN Order!Position(Order!MoveBefore(s, x, y), z) =
              IF z = x THEN i ELSE IF p < i \/ j < p THEN p ELSE p + 1
<1> DEFINE n == Len(s)
           i == Order!Position(s, y)
           j == Order!Position(s, x)
           p == Order!Position(s, z)
           m == Order!MoveBefore(s, x, y)
           q == IF z = x THEN i ELSE IF p < i \/ j < p THEN p ELSE p + 1
<1>1. n \in Nat /\ \A k, l \in 1..n : s[k] = s[l] => k = l
  BY PermFacts
<1>2. /\ i \in 1..n /\ j \in 1..n /\ i < j /\ s[i] = y /\ s[j] = x
      /\ p \in 1..n /\ s[p] = z
  BY PositionFacts
<1>3. /\ m \in SetToSeqs(S)
      /\ m = [k \in 1..n |-> IF k < i \/ j < k THEN s[k] ELSE IF k = i THEN x ELSE s[k - 1]]
  BY Moved
<1> HIDE DEF i, j, p, m
<1>4. Len(m) = n
  BY <1>1, <1>3, PermFacts
<1>5. q \in 1..n /\ m[q] = z
  <2>1. CASE z = x
    BY <2>1, <1>1, <1>2, <1>3
  <2>2. CASE z # x /\ (p < i \/ j < p)
    BY <2>2, <1>1, <1>2, <1>3
  <2>3. CASE z # x /\ ~(p < i \/ j < p)
    <3>1. p # j
      BY <2>3, <1>2
    <3>2. q = p + 1 /\ p + 1 \in 1..n /\ i < p + 1 /\ p + 1 <= j /\ (p + 1) - 1 = p
      BY <2>3, <3>1, <1>1, <1>2
    <3> QED BY <3>2, <1>1, <1>2, <1>3
  <2> QED BY <2>1, <2>2, <2>3
<1> HIDE DEF q
<1>6. q = Order!Position(m, z)
  BY <1>3, <1>4, <1>5, PositionFacts
<1> QED BY <1>6 DEF q, i, j, p, m

Less(s, a, b) == Order!Position(s, a) < Order!Position(s, b)

\* In s the elements of T stand as in t.
Alike(s, t, T) == \A a, b \in T : Less(t, a, b) => Less(s, a, b)

LEMMA LessMoved ==
  ASSUME NEW S, IsFiniteSet(S), NEW s \in SetToSeqs(S), NEW x \in S, NEW y \in S,
         Less(s, y, x), NEW a \in S, NEW b \in S, a # b
  PROVE  Less(Order!MoveBefore(s, x, y), a, b) <=>
           \/ a = x /\ ~Less(s, b, y)
           \/ b = x /\ Less(s, a, y)
           \/ a # x /\ b # x /\ Less(s, a, b)
<1>1. /\ Order!Position(s, y) \in Nat /\ Order!Position(s, x) \in Nat
      /\ Order!Position(s, a) \in Nat /\ Order!Position(s, b) \in Nat
      /\ Order!Position(s, a) # Order!Position(s, b)
      /\ a # x => Order!Position(s, a) # Order!Position(s, x)
      /\ b # x => Order!Position(s, b) # Order!Position(s, x)
  <2>1. \A e \in S : Order!Position(s, e) \in 1..Len(s) /\ s[Order!Position(s, e)] = e
    BY PositionFacts
  <2>2. \A e \in S : Order!Position(s, e) \in Nat
    BY ONLY <2>1
  <2>3. \A e, d \in S : e # d => Order!Position(s, e) # Order!Position(s, d)
    BY ONLY <2>1, Zenon
  <2> QED BY <2>2, <2>3, Zenon
<1>2. Order!Position(s, y) < Order!Position(s, x)
  BY DEF Less
<1>3. Order!Position(Order!MoveBefore(s, x, y), a) =
        IF a = x THEN Order!Position(s, y)
        ELSE IF Order!Position(s, a) < Order!Position(s, y)
                  \/ Order!Position(s, x) < Order!Position(s, a)
             THEN Order!Position(s, a) ELSE Order!Position(s, a) + 1
  BY <1>2, PositionMoved
<1>4. Order!Position(Order!MoveBefore(s, x, y), b) =
        IF b = x THEN Order!Position(s, y)
        ELSE IF Order!Position(s, b) < Order!Position(s, y)
                  \/ Order!Position(s, x) < Order!Position(s, b)
             THEN Order!Position(s, b) ELSE Order!Position(s, b) + 1
  BY <1>2, PositionMoved
<1> QED BY <1>1, <1>2, <1>3, <1>4 DEF Less

\* A move does to all that s has what it does to T alone.
LEMMA AlikeMoved ==
  ASSUME NEW S, IsFiniteSet(S), NEW T, T \subseteq S, IsFiniteSet(T),
         NEW s \in SetToSeqs(S), NEW t \in SetToSeqs(T), Alike(s, t, T),
         NEW x \in T, NEW y \in T, Less(t, y, x)
  PROVE  /\ Less(s, y, x)
         /\ Alike(Order!MoveBefore(s, x, y), Order!MoveBefore(t, x, y), T)
<1>1. Less(s, y, x)
  BY DEF Alike
<1>2. ASSUME NEW a \in T, NEW b \in T, Less(Order!MoveBefore(t, x, y), a, b)
      PROVE  Less(Order!MoveBefore(s, x, y), a, b)
  <2>1. a # b
    <3>1. Order!MoveBefore(t, x, y) \in SetToSeqs(T)
      BY Moved DEF Less
    <3>2. Order!Position(Order!MoveBefore(t, x, y), a) \in Nat
      <4>1. ASSUME NEW u \in SetToSeqs(T) PROVE Order!Position(u, a) \in Nat
        <5>1. Order!Position(u, a) \in 1..Len(u)
          BY ONLY u \in SetToSeqs(T), IsFiniteSet(T), a \in T, PositionFacts
        <5> QED BY ONLY <5>1
      <4> QED BY ONLY <3>1, <4>1
    <3> QED BY <1>2, <3>2 DEF Less
  <2>2. \/ a = x /\ ~Less(t, b, y)
        \/ b = x /\ Less(t, a, y)
        \/ a # x /\ b # x /\ Less(t, a, b)
    BY <1>2, <2>1, LessMoved
  <2>3. ~Less(t, b, y) => ~Less(s, b, y)
    <3>1. b = y \/ Less(t, y, b) \/ Less(t, b, y)
      <4>1. /\ Order!Position(t, b) \in 1..Len(t) /\ t[Order!Position(t, b)] = b
            /\ Order!Position(t, y) \in 1..Len(t) /\ t[Order!Position(t, y)] = y
        BY PositionFacts
      <4> QED BY <4>1 DEF Less
    <3>2. Order!Position(s, b) \in Nat /\ Order!Position(s, y) \in Nat
      BY PositionFacts
    <3> QED BY <3>1, <3>2 DEF Alike, Less
  <2>4. \/ a = x /\ ~Less(s, b, y)
        \/ b = x /\ Less(s, a, y)
        \/ a # x /\ b # x /\ Less(s, a, b)
    BY <2>2, <2>3 DEF Alike
  <2>5. a \in S /\ b \in S /\ x \in S /\ y \in S
    OBVIOUS
  <2> QED BY <2>1, <2>4, <2>5, <1>1, LessMoved
<1> QED BY <1>1, <1>2 DEF Alike

-----------------------------------------------------------------------------
(* Reorder.                                                                *)

\* The least of some numbers.
NatLess == {p \in Nat \X Nat : p[1] < p[2]}

LEMMA LeastNumber ==
  ASSUME NEW T, T \subseteq Nat, T # {}
  PROVE  \E n \in T : \A m \in T : n <= m
<1>1. NatLess = OpToRel(<, Nat)
  BY DEF OpToRel, NatLess
<1>2. IsWellFoundedOn(NatLess, Nat)
  BY <1>1, NatLessThanWellFounded
<1>3. PICK n \in T : \A m \in T : <<m, n>> \notin NatLess
  BY <1>2, WFMin
<1>4. ASSUME NEW m \in T, ~(n <= m) PROVE FALSE
  <2>1. m \in Nat /\ n \in Nat /\ m < n
    BY <1>4
  <2>2. <<m, n>> \in NatLess
    BY <2>1 DEF NatLess
  <2> QED BY <2>2, <1>3
<1> QED BY <1>4

\* Everything the moves have put in its place is among the first d of old.
Settled(d) ==
  /\ d \in Nat
  /\ \A i \in 1..d : i \in DOMAIN old => old[i] = goal[i]
  /\ \A k \in DOMAIN inserts : \E i \in 1..d : i \in DOMAIN goal /\ inserts[k][1] = goal[i]

\* H has the orders that findInserts has gone through, of which the server has
\* replayed some.
Went(H) ==
  /\ H \in [0..Len(inserts) -> SetToSeqs(Siblings)]
  /\ H[Len(inserts)] = old
  /\ \A k \in 1..Len(inserts) :
       /\ Less(H[k - 1], inserts[k][2], inserts[k][1])
       /\ H[k] = Order!MoveBefore(H[k - 1], inserts[k][1], inserts[k][2])
  /\ Alike(children, H[applied], Siblings)

OrderTypes ==
  /\ goal \in SetToSeqs(Siblings) /\ old \in SetToSeqs(Siblings)
  /\ children \in SetToSeqs(Siblings \cup Others)
  /\ inserts \in Seq(Siblings \X Siblings) /\ applied \in 0..Len(inserts)
  /\ phase \in {"find", "send", "done"}

OrderInv ==
  /\ OrderTypes
  /\ phase = "find" => applied = 0
  /\ phase # "find" => old = goal
  /\ phase = "done" => applied = Len(inserts)
  /\ \E d : Settled(d)
  /\ IsInjective([k \in DOMAIN inserts |-> inserts[k][1]])
  /\ \E H : Went(H)

LEMMA Finite == IsFiniteSet(Siblings) /\ IsFiniteSet(Siblings \cup Others)
BY ChildrenAssumption, FS_Union

LEMMA InOrderAlike ==
  ASSUME NEW S, IsFiniteSet(S), NEW T, T \subseteq S, IsFiniteSet(T),
         NEW s \in SetToSeqs(S), NEW t \in SetToSeqs(T)
  PROVE  Order!InOrder(s, t) <=> Alike(s, t, T)
<1>1. ToSet(t) \subseteq ToSet(s)
  BY PermFacts
<1>2. /\ DOMAIN t = 1..Len(t)
      /\ \A i \in DOMAIN t : t[i] \in T /\ Order!Position(t, t[i]) = i
  <2>1. DOMAIN t = 1..Len(t) /\ \A i \in DOMAIN t : t[i] \in T
    BY PermFacts
  <2> QED BY <2>1, PositionFacts
<1>3. \A a \in T : Order!Position(t, a) \in DOMAIN t /\ t[Order!Position(t, a)] = a
  BY <1>2, PositionFacts
<1>4. ASSUME Order!InOrder(s, t) PROVE Alike(s, t, T)
  BY <1>3, <1>4 DEF Order!InOrder, Alike, Less
<1>5. ASSUME Alike(s, t, T) PROVE Order!InOrder(s, t)
  BY <1>1, <1>2, <1>5, SameOperators DEF Order!InOrder, Alike, Less
<1> QED BY <1>4, <1>5

LEMMA OrderInit == PartsInit => OrderInv
<1> SUFFICES ASSUME PartsInit PROVE OrderInv
  OBVIOUS
<1>1. /\ old \in SetToSeqs(Siblings) /\ goal \in SetToSeqs(Siblings)
      /\ children \in SetToSeqs(Siblings \cup Others) /\ Order!InOrder(children, old)
      /\ inserts = <<>> /\ applied = 0 /\ phase = "find"
  BY SameOperators DEF PartsInit, Order!Init
<1>2. OrderTypes
  BY <1>1 DEF OrderTypes
<1>3. Settled(0)
  BY <1>1 DEF Settled
<1>4. IsInjective([k \in DOMAIN inserts |-> inserts[k][1]])
  BY <1>1 DEF IsInjective
<1>5. Alike(children, old, Siblings)
  BY <1>1, Finite, InOrderAlike
<1>6. Went([k \in 0..0 |-> old])
  BY <1>1, <1>5 DEF Went
<1> QED BY <1>1, <1>2, <1>3, <1>4, <1>6 DEF OrderInv

LEMMA DifferenceFacts ==
  ASSUME OrderTypes, old # goal
  PROVE  \E i \in DOMAIN goal :
           /\ i \in Nat /\ i \in DOMAIN old /\ old[i] # goal[i] /\ \A k \in 1..(i - 1) : old[k] = goal[k]
           /\ Order!Difference = <<goal[i], old[i]>>
<1> DEFINE n == Cardinality(Siblings)
           T == {i \in 1..n : old[i] # goal[i]}
           First(j) == old[j] # goal[j] /\ \A k \in 1..(j - 1) : old[k] = goal[k]
<1>1. /\ n \in Nat /\ goal \in [1..n -> Siblings] /\ old \in [1..n -> Siblings]
      /\ DOMAIN goal = 1..n /\ DOMAIN old = 1..n
  BY Finite, PermFacts DEF OrderTypes
<1>2. T # {}
  BY <1>1
<1>3. PICK i \in T : \A m \in T : i <= m
  <2>1. T \subseteq Nat
    BY <1>1
  <2> HIDE DEF T
  <2> QED BY <1>2, <2>1, LeastNumber
<1>4. i \in DOMAIN goal /\ First(i)
  BY <1>1, <1>3
<1> DEFINE j == CHOOSE j \in DOMAIN goal : First(j)
<1>5. j \in DOMAIN goal /\ First(j)
  BY <1>4
<1>6. Order!Difference = <<goal[j], old[j]>>
  BY DEF Order!Difference
<1> HIDE DEF j
<1> QED BY <1>1, <1>5, <1>6

LEMMA FindInsertInv == OrderInv /\ Order!FindInsert => OrderInv'
<1> SUFFICES ASSUME OrderInv, Order!FindInsert PROVE OrderInv'
  OBVIOUS
<1>1. PICK i \in DOMAIN goal :
        /\ i \in Nat /\ i \in DOMAIN old /\ old[i] # goal[i] /\ \A k \in 1..(i - 1) : old[k] = goal[k]
        /\ Order!Difference = <<goal[i], old[i]>>
  BY DifferenceFacts DEF OrderInv, Order!FindInsert
<1> DEFINE x == goal[i]
           y == old[i]
           n == Len(inserts)
<1>2. /\ goal \in Seq(Siblings) /\ old \in Seq(Siblings) /\ Len(goal) = Len(old)
      /\ \A k, l \in 1..Len(goal) : goal[k] = goal[l] => k = l
      /\ DOMAIN goal = 1..Len(goal) /\ DOMAIN old = 1..Len(goal)
  BY Finite, PermFacts DEF OrderInv, OrderTypes
<1>3. x \in Siblings /\ y \in Siblings /\ i \in 1..Len(goal)
  BY <1>1, <1>2
<1>4. /\ phase = "find" /\ phase' = phase /\ Less(old, y, x)
      /\ inserts' = Append(inserts, <<x, y>>) /\ old' = Order!MoveBefore(old, x, y)
      /\ goal' = goal /\ children' = children /\ applied' = applied
  BY <1>1 DEF Order!FindInsert, Less
<1>5. inserts \in Seq(Siblings \X Siblings) /\ n \in Nat
  BY DEF OrderInv, OrderTypes
<1> HIDE DEF x, y, n
<1>6. /\ inserts' \in Seq(Siblings \X Siblings) /\ Len(inserts') = n + 1
      /\ DOMAIN inserts' = 1..(n + 1) /\ DOMAIN inserts = 1..n
      /\ \A k \in 1..n : inserts'[k] = inserts[k]
      /\ inserts'[n + 1] = <<x, y>>
  BY <1>3, <1>4, <1>5 DEF n
<1>7. i = Order!Position(old, y)
  BY <1>2, <1>3, Finite, PositionFacts DEF OrderInv, OrderTypes, y
<1>8. /\ old' \in SetToSeqs(Siblings)
      /\ DOMAIN old' = 1..Len(goal) /\ old'[i] = x /\ \A k \in 1..(i - 1) : old'[k] = old[k]
  <2>1. i < Order!Position(old, x)
    BY <1>4, <1>7 DEF Less
  <2>2. /\ old' \in SetToSeqs(Siblings)
        /\ old' = [k \in 1..Len(old) |-> IF k < i \/ Order!Position(old, x) < k THEN old[k]
                                         ELSE IF k = i THEN x ELSE old[k - 1]]
    BY <1>3, <1>4, <1>7, <2>1, Finite, Moved DEF OrderInv, OrderTypes
  <2>3. Order!Position(old, x) \in Nat
    BY <1>3, Finite, PositionFacts DEF OrderInv, OrderTypes
  <2> QED BY <1>2, <1>3, <2>1, <2>2, <2>3
<1>9. OrderTypes'
  BY <1>4, <1>6, <1>8 DEF OrderInv, OrderTypes, n
<1>10. \A k \in 1..n : inserts[k][1] # x
  <2> SUFFICES ASSUME NEW k \in 1..n, inserts[k][1] = x PROVE FALSE
    OBVIOUS
  <2>1. PICK d : Settled(d)
    BY DEF OrderInv
  <2>2. PICK l \in 1..d : l \in DOMAIN goal /\ inserts[k][1] = goal[l]
    BY <1>6, <2>1 DEF Settled
  <2>3. l = i
    BY <1>2, <1>3, <2>2 DEF x
  <2> QED BY <1>1, <2>1, <2>2, <2>3 DEF Settled
<1>11. IsInjective([k \in DOMAIN inserts |-> inserts[k][1]])'
  <2> DEFINE f == [k \in DOMAIN inserts |-> inserts[k][1]]
  <2>1. \A k, l \in 1..n : inserts[k][1] = inserts[l][1] => k = l
    BY <1>6 DEF OrderInv, IsInjective
  <2>2. \A k, l \in 1..(n + 1) : inserts'[k][1] = inserts'[l][1] => k = l
    BY <1>5, <1>6, <1>10, <2>1
  <2> QED BY <1>6, <2>2 DEF IsInjective
<1>12. Settled(i)'
  <2>1. PICK d : Settled(d)
    BY DEF OrderInv
  <2>2. d < i
    <3>1. i \in Nat /\ 1 <= i /\ i \in DOMAIN old /\ old[i] # goal[i]
      BY ONLY <1>1, <1>3
    <3>2. d \in Nat /\ \A k \in 1..d : k \in DOMAIN old => old[k] = goal[k]
      BY ONLY <2>1 DEF Settled
    <3>3. i \notin 1..d
      BY ONLY <3>1, <3>2
    <3> QED BY ONLY <3>1, <3>2, <3>3
  <2>3. \A k \in 1..i : old'[k] = goal'[k]
    <3> TAKE k \in 1..i
    <3>1. k = i \/ k \in 1..(i - 1)
      BY ONLY <1>3, k \in 1..i
    <3>2. CASE k = i
      BY ONLY <1>4, <1>8, <3>2 DEF x
    <3>3. CASE k \in 1..(i - 1)
      <4>1. old'[k] = old[k] /\ old[k] = goal[k]
        BY ONLY <1>1, <1>8, <3>3
      <4> QED BY ONLY <1>4, <4>1
    <3> QED BY ONLY <3>1, <3>2, <3>3
  <2>4. ASSUME NEW k \in 1..(n + 1)
        PROVE  \E l \in 1..i : l \in DOMAIN goal' /\ inserts'[k][1] = goal'[l]
    <3>1. CASE k = n + 1
      BY <3>1, <1>1, <1>3, <1>4, <1>6 DEF x
    <3>2. CASE k # n + 1
      <4>1. k \in 1..n /\ inserts'[k] = inserts[k]
        BY <3>2, <1>5, <1>6
      <4>2. PICK l \in 1..d : l \in DOMAIN goal /\ inserts[k][1] = goal[l]
        BY <4>1, <1>6, <2>1 DEF Settled
      <4>3. l \in 1..i
        BY <2>1, <2>2, <1>3 DEF Settled
      <4> QED BY <4>1, <4>2, <4>3, <1>4
    <3> QED BY <3>1, <3>2
  <2> QED BY <1>1, <1>6, <2>3, <2>4 DEF Settled
<1>13. \E H : Went(H)'
  <2>1. PICK H : Went(H)
    BY DEF OrderInv
  <2> DEFINE G == [k \in 0..(n + 1) |-> IF k <= n THEN H[k] ELSE old']
  <2>2. /\ H \in [0..n -> SetToSeqs(Siblings)] /\ H[n] = old
        /\ \A k \in 1..n : /\ Less(H[k - 1], inserts[k][2], inserts[k][1])
                           /\ H[k] = Order!MoveBefore(H[k - 1], inserts[k][1], inserts[k][2])
        /\ Alike(children, H[applied], Siblings)
    BY <2>1 DEF Went, n
  <2>3. G \in [0..(n + 1) -> SetToSeqs(Siblings)] /\ G[n + 1] = old'
    BY <1>5, <1>8, <2>2
  <2>4. ASSUME NEW k \in 1..(n + 1)
        PROVE  /\ Less(G[k - 1], inserts'[k][2], inserts'[k][1])
               /\ G[k] = Order!MoveBefore(G[k - 1], inserts'[k][1], inserts'[k][2])
    <3>1. CASE k = n + 1
      <4>1. G[k - 1] = old /\ G[k] = old' /\ inserts'[k] = <<x, y>>
        BY <3>1, <1>5, <1>6, <2>2
      <4> QED BY <4>1, <1>4
    <3>2. CASE k # n + 1
      <4>1. k \in 1..n /\ G[k - 1] = H[k - 1] /\ G[k] = H[k] /\ inserts'[k] = inserts[k]
        BY <3>2, <1>5, <1>6
      <4> QED BY <4>1, <2>2
    <3> QED BY <3>1, <3>2
  <2>5. applied \in 0..n
    BY DEF OrderInv, OrderTypes, n
  <2>6. G[applied'] = H[applied] /\ children' = children
    BY <1>4, <1>5, <2>5
  <2> HIDE DEF G
  <2>7. PICK J : J = G
    OBVIOUS
  <2>8. Went(J)'
    BY <1>6, <2>2, <2>3, <2>4, <2>6, <2>7 DEF Went
  <2> QED BY <2>8
<1> QED BY <1>4, <1>9, <1>11, <1>12, <1>13 DEF OrderInv

LEMMA OrderBeforeInv ==
  OrderInv /\ Order!OrderBefore => OrderInv' /\ Less(children, inserts[applied + 1][2], inserts[applied + 1][1])
<1> SUFFICES ASSUME OrderInv, Order!OrderBefore
             PROVE  OrderInv' /\ Less(children, inserts[applied + 1][2], inserts[applied + 1][1])
  OBVIOUS
<1> DEFINE x == inserts[applied + 1][1]
           y == inserts[applied + 1][2]
           n == Len(inserts)
<1>1. /\ phase = "send" /\ phase' = phase /\ applied < n /\ applied' = applied + 1
      /\ children' = Order!MoveBefore(children, x, y)
      /\ goal' = goal /\ old' = old /\ inserts' = inserts
  BY DEF Order!OrderBefore
<1>2. inserts \in Seq(Siblings \X Siblings) /\ n \in Nat /\ applied \in 0..n
  BY DEF OrderInv, OrderTypes
<1>3. x \in Siblings /\ y \in Siblings /\ applied + 1 \in 1..n
  BY <1>1, <1>2
<1> HIDE DEF x, y
<1>4. PICK H : Went(H)
  BY DEF OrderInv
<1>5. /\ H[applied] \in SetToSeqs(Siblings) /\ Alike(children, H[applied], Siblings)
      /\ Less(H[applied], y, x) /\ H[applied + 1] = Order!MoveBefore(H[applied], x, y)
  BY <1>2, <1>3, <1>4 DEF Went, x, y
<1>6. children \in SetToSeqs(Siblings \cup Others)
  BY DEF OrderInv, OrderTypes
<1>7. Less(children, y, x) /\ Alike(children', H[applied + 1], Siblings)
  BY <1>1, <1>3, <1>5, <1>6, Finite, AlikeMoved
<1>8. children' \in SetToSeqs(Siblings \cup Others)
  BY <1>1, <1>3, <1>6, <1>7, Finite, Moved DEF Less
<1>9. Went(H)'
  BY <1>1, <1>4, <1>7 DEF Went
<1>10. \A d : Settled(d) => Settled(d)'
  BY <1>1 DEF Settled
<1>11. OrderTypes'
  BY <1>1, <1>2, <1>8 DEF OrderInv, OrderTypes
<1>12. IsInjective([k \in DOMAIN inserts |-> inserts[k][1]])'
  BY <1>1 DEF OrderInv
<1> QED BY <1>1, <1>7, <1>9, <1>10, <1>11, <1>12 DEF OrderInv, x, y

LEMMA OrderStep == OrderInv /\ [PartsNext]_parts => OrderInv'
<1> SUFFICES ASSUME OrderInv, [PartsNext]_parts PROVE OrderInv'
  OBVIOUS
<1>1. CASE Order!FindInsert
  BY <1>1, FindInsertInv
<1>2. CASE Order!OrderBefore
  BY <1>2, OrderBeforeInv
<1>3. ASSUME UNCHANGED <<goal, old, inserts, children, applied>>,
             \/ phase' = phase
             \/ phase = "find" /\ old = goal /\ phase' = "send"
             \/ phase = "send" /\ applied = Len(inserts) /\ phase' = "done"
      PROVE  OrderInv'
  <2>1. \A d : Settled(d) => Settled(d)'
    BY <1>3 DEF Settled
  <2>2. \A H : Went(H) => Went(H)'
    BY <1>3 DEF Went
  <2>3. IsInjective([k \in DOMAIN inserts |-> inserts[k][1]])'
    BY <1>3 DEF OrderInv
  <2>4. OrderTypes'
    BY <1>3 DEF OrderInv, OrderTypes
  <2> QED BY <1>3, <2>1, <2>2, <2>3, <2>4 DEF OrderInv
<1>4. CASE Order!Found \/ Order!Replayed
  BY <1>3, <1>4 DEF Order!Found, Order!Replayed
<1>5. CASE UNCHANGED reorder
  BY <1>3, <1>5 DEF reorder
<1>6. UNCHANGED reorder \/ Order!Next
  BY DEF PartsNext, Batching, Replying, Reordering, Assigning, Merging, parts
<1> QED BY <1>1, <1>2, <1>4, <1>5, <1>6 DEF Order!Next

LEMMA OrderAlways == PartsSpec => []OrderInv
<1> QED BY OrderInit, OrderStep, PTL DEF PartsSpec

\* Whatever order is asked for, of any number of children, and whatever children
\* other sessions have put between them, the moves lead to it and lose none
\* (reorderChildren, findInserts, processMultipleCommands).
THEOREM OrderIsReached == PartsSpec => []GoalReached
<1>1. OrderInv => GoalReached
  <2> SUFFICES ASSUME OrderInv, phase = "done"
               PROVE  Order!InOrder(children, goal)
                      /\ children \in Order!SetToSeqs(Siblings \cup Others)
    BY DEF GoalReached, Order!GoalReached
  <2>1. /\ goal \in SetToSeqs(Siblings) /\ children \in SetToSeqs(Siblings \cup Others)
        /\ old = goal /\ applied = Len(inserts)
    BY DEF OrderInv, OrderTypes
  <2>2. Alike(children, goal, Siblings)
    BY <2>1 DEF OrderInv, Went
  <2> QED BY <2>1, <2>2, Finite, InOrderAlike, SameOperators
<1> QED BY OrderAlways, <1>1, PTL

\* Every move takes a child forward, on the server too, whatever is in between, so
\* that orderBefore has the two and the assertion of the fake server holds; none is
\* moved twice, so that the loop of findInserts ends (findInserts, orderBefore).
THEOREM MovesAreForward == PartsSpec => []MovesForward
<1>1. OrderInv => MovesForward
  <2> SUFFICES ASSUME OrderInv
               PROVE  /\ Order!IsInjective([k \in DOMAIN inserts |-> inserts[k][1]])
                      /\ phase = "send" /\ applied < Len(inserts) =>
                           Less(children, inserts[applied + 1][2], inserts[applied + 1][1])
    BY DEF MovesForward, Order!MovesForward, Less
  <2>1. Order!IsInjective([k \in DOMAIN inserts |-> inserts[k][1]])
    BY DEF OrderInv, IsInjective, Order!IsInjective
  <2>2. ASSUME phase = "send", applied < Len(inserts)
        PROVE  Less(children, inserts[applied + 1][2], inserts[applied + 1][1])
    <3>1. PICK H : Went(H)
      BY DEF OrderInv
    <3>2. /\ inserts \in Seq(Siblings \X Siblings) /\ applied + 1 \in 1..Len(inserts)
          /\ applied \in 0..Len(inserts) /\ (applied + 1) - 1 = applied
          /\ children \in SetToSeqs(Siblings \cup Others)
      BY <2>2 DEF OrderInv, OrderTypes
    <3>3. /\ inserts[applied + 1][1] \in Siblings /\ inserts[applied + 1][2] \in Siblings
          /\ H[applied] \in SetToSeqs(Siblings) /\ Alike(children, H[applied], Siblings)
          /\ Less(H[applied], inserts[applied + 1][2], inserts[applied + 1][1])
      BY <3>1, <3>2 DEF Went
    <3> QED BY <3>2, <3>3, Finite, AlikeMoved
  <2> QED BY <2>1, <2>2
<1> QED BY OrderAlways, <1>1, PTL

\* The assertion of the loop of findInserts holds: the name that belongs at the
\* first difference stands later in the list, so that the loop goes on.
THEOREM AssertionHolds ==
  PartsSpec => [](phase = "find" /\ old # goal =>
                    Order!Position(old, Order!Difference[1]) > Order!Position(old, Order!Difference[2]))
<1>1. ASSUME OrderInv, old # goal
      PROVE  Order!Position(old, Order!Difference[1]) > Order!Position(old, Order!Difference[2])
  <2>1. PICK i \in DOMAIN goal :
          /\ i \in Nat /\ i \in DOMAIN old /\ old[i] # goal[i]
          /\ \A k \in 1..(i - 1) : old[k] = goal[k]
          /\ Order!Difference = <<goal[i], old[i]>>
    BY <1>1, DifferenceFacts DEF OrderInv
  <2> DEFINE p == Order!Position(old, goal[i])
  <2>2. /\ goal \in Seq(Siblings) /\ old \in Seq(Siblings) /\ Len(goal) = Len(old)
        /\ \A k, l \in 1..Len(goal) : goal[k] = goal[l] => k = l
        /\ DOMAIN goal = 1..Len(goal) /\ DOMAIN old = 1..Len(goal)
    BY <1>1, Finite, PermFacts DEF OrderInv, OrderTypes
  <2>3. goal[i] \in Siblings /\ old[i] \in Siblings
    BY <2>1, <2>2
  <2>7. IsFiniteSet(Siblings) /\ old \in SetToSeqs(Siblings)
    BY <1>1, Finite DEF OrderInv, OrderTypes
  <2>4. p \in 1..Len(goal) /\ old[p] = goal[i]
    <3>1. p \in 1..Len(old) /\ old[p] = goal[i]
      BY ONLY <2>3, <2>7, PositionFacts
    <3> QED BY ONLY <2>2, <3>1
  <2>5. i = Order!Position(old, old[i])
    <3>1. \A k \in 1..Len(old) : old[k] = old[i] => k = Order!Position(old, old[i])
      BY ONLY <2>3, <2>7, PositionFacts
    <3> QED BY ONLY <2>1, <2>2, <3>1
  <2> HIDE DEF p
  <2>6. p > i
    <3>1. p # i
      BY ONLY <2>1, <2>4
    <3>2. ~(p < i)
      <4> SUFFICES ASSUME p < i PROVE FALSE
        OBVIOUS
      <4>1. p \in 1..(i - 1)
        BY ONLY <2>1, <2>4, p < i
      <4>2. goal[p] = goal[i]
        BY ONLY <2>1, <2>4, <4>1
      <4>3. i \in 1..Len(goal)
        BY ONLY <2>1, <2>2
      <4>4. p = i
        BY ONLY <2>2, <2>4, <4>2, <4>3
      <4> QED BY ONLY <3>1, <4>4
    <3> QED BY ONLY <2>1, <2>4, <3>1, <3>2
  <2> QED BY <2>1, <2>5, <2>6 DEF p
<1>2. OrderInv => (phase = "find" /\ old # goal =>
        Order!Position(old, Order!Difference[1]) > Order!Position(old, Order!Difference[2]))
  BY <1>1
<1> QED BY OrderAlways, <1>2, PTL

-----------------------------------------------------------------------------
(* FakeServer.                                                             *)

\* The nodes l are what u may have as its children.
Fits(s, u, l) ==
  /\ l \in Seq(DOMAIN s \ {0})
  /\ \A i \in 1..Len(l) : s[l[i]].parent = u
  /\ \A i, j \in 1..Len(l) : s[l[i]].name = s[l[j]].name => i = j

\* A tree whose nodes have the uuids below n.
Good(s, n) ==
  /\ s = [u \in DOMAIN s |-> s[u]] /\ DOMAIN s \subseteq 0..(n - 1) /\ 0 \in DOMAIN s
  /\ \A u \in DOMAIN s : Server!IsNode(s[u]) /\ Fits(s, u, s[u].children)

\* Node u is in t, named as in s, and below the same parent.
Kept(s, t, u) == u \in DOMAIN t /\ t[u].name = s[u].name /\ t[u].parent = s[u].parent

LEMMA TreeFits ==
  ASSUME NEW s
  PROVE  Server!IsTree(s) <=> 0 \in DOMAIN s /\ \A u \in DOMAIN s : Fits(s, u, s[u].children)
<1>1. ASSUME NEW u \in DOMAIN s
      PROVE  Fits(s, u, s[u].children) <=>
               /\ s[u].children \in Seq(DOMAIN s \ {0})
               /\ \A i \in DOMAIN s[u].children : s[s[u].children[i]].parent = u
               /\ Server!IsInjective([i \in DOMAIN s[u].children |-> s[s[u].children[i]].name])
  <2> DEFINE l == s[u].children
             f == [i \in DOMAIN l |-> s[l[i]].name]
  <2>1. l \in Seq(DOMAIN s \ {0}) => DOMAIN l = 1..Len(l)
    OBVIOUS
  <2>2. Server!IsInjective(f) <=> \A i, j \in DOMAIN l : s[l[i]].name = s[l[j]].name => i = j
    BY DEF Server!IsInjective
  <2> QED BY <2>1, <2>2 DEF Fits
<1> QED BY <1>1 DEF Server!IsTree, Server!Root, Server!Children, Server!NameOf

LEMMA FitsKept ==
  ASSUME NEW s, NEW t, NEW u, NEW l, Fits(s, u, l), \A i \in 1..Len(l) : Kept(s, t, l[i])
  PROVE  Fits(t, u, l)
<1>1. l \in Seq(DOMAIN t \ {0})
  <2>1. l \in Seq(DOMAIN s \ {0}) /\ Len(l) \in Nat
    BY DEF Fits
  <2>2. l \in [1..Len(l) -> DOMAIN t \ {0}]
    BY <2>1 DEF Kept
  <2> QED BY <2>1, <2>2
<1> QED BY <1>1 DEF Fits, Kept

LEMMA FitsAppended ==
  ASSUME NEW s, NEW u, NEW l, Fits(s, u, l), NEW v \in DOMAIN s \ {0}, s[v].parent = u,
         \A i \in 1..Len(l) : s[l[i]].name # s[v].name
  PROVE  Fits(s, u, Append(l, v))
<1>1. l \in Seq(DOMAIN s \ {0}) /\ Len(l) \in Nat
  BY DEF Fits
<1>2. /\ Append(l, v) \in Seq(DOMAIN s \ {0}) /\ Len(Append(l, v)) = Len(l) + 1
      /\ \A i \in 1..Len(l) : Append(l, v)[i] = l[i]
      /\ Append(l, v)[Len(l) + 1] = v
  BY <1>1
<1>3. \A i \in 1..(Len(l) + 1) : i \in 1..Len(l) \/ i = Len(l) + 1
  BY <1>1
<1> QED BY <1>1, <1>2, <1>3 DEF Fits

\* m has some of l, each once, in any order.
Chosen(m, l) ==
  \E n \in Nat : \E f \in [1..n -> 1..Len(l)] :
    (\A i, j \in 1..n : f[i] = f[j] => i = j) /\ m = [i \in 1..n |-> l[f[i]]]

LEMMA FitsChosen ==
  ASSUME NEW s, NEW u, NEW l, Fits(s, u, l), NEW m, Chosen(m, l)
  PROVE  Fits(s, u, m)
<1> PICK n \in Nat : \E f \in [1..n -> 1..Len(l)] :
           (\A i, j \in 1..n : f[i] = f[j] => i = j) /\ m = [i \in 1..n |-> l[f[i]]]
  BY Zenon DEF Chosen
<1> PICK f \in [1..n -> 1..Len(l)] :
           (\A i, j \in 1..n : f[i] = f[j] => i = j) /\ m = [i \in 1..n |-> l[f[i]]]
  BY Zenon
<1>1. l \in Seq(DOMAIN s \ {0})
  BY DEF Fits
<1>2. m \in Seq(DOMAIN s \ {0}) /\ Len(m) = n
  BY <1>1
<1>3. \A i \in 1..n : m[i] = l[f[i]] /\ f[i] \in 1..Len(l)
  OBVIOUS
<1>4. \A i \in 1..n : s[m[i]].parent = u
  BY <1>3 DEF Fits
<1>5. \A i, j \in 1..n : s[m[i]].name = s[m[j]].name => i = j
  <2> TAKE i \in 1..n, j \in 1..n
  <2> HAVE s[m[i]].name = s[m[j]].name
  <2>1. s[l[f[i]]].name = s[l[f[j]]].name
    BY <1>3
  <2>2. f[i] = f[j]
    BY <1>3, <2>1 DEF Fits
  <2> QED BY <2>2
<1> QED BY <1>2, <1>4, <1>5 DEF Fits

LEMMA FitsJoined ==
  ASSUME NEW s, NEW u, NEW k, NEW l, Fits(s, u, k), Fits(s, u, l),
         \A i \in 1..Len(k), j \in 1..Len(l) : s[k[i]].name # s[l[j]].name
  PROVE  Fits(s, u, k \o l)
<1> DEFINE m == k \o l
<1>1. k \in Seq(DOMAIN s \ {0}) /\ l \in Seq(DOMAIN s \ {0}) /\ Len(k) \in Nat /\ Len(l) \in Nat
  BY DEF Fits
<1>2. /\ m \in Seq(DOMAIN s \ {0}) /\ Len(m) = Len(k) + Len(l)
      /\ \A i \in 1..(Len(k) + Len(l)) : m[i] = IF i <= Len(k) THEN k[i] ELSE l[i - Len(k)]
  BY <1>1, ConcatProperties
<1> HIDE DEF m
<1>3. \A i \in 1..Len(m) : \/ i \in 1..Len(k) /\ m[i] = k[i]
                           \/ i - Len(k) \in 1..Len(l) /\ m[i] = l[i - Len(k)]
  BY <1>1, <1>2
<1>4. \A i \in 1..Len(m) : s[m[i]].parent = u
  <2>1. \A i \in 1..Len(k) : s[k[i]].parent = u
    BY Zenon DEF Fits
  <2>2. \A i \in 1..Len(l) : s[l[i]].parent = u
    BY Zenon DEF Fits
  <2> TAKE i \in 1..Len(m)
  <2>3. CASE i \in 1..Len(k) /\ m[i] = k[i]
    BY ONLY <2>1, <2>3
  <2>4. CASE i - Len(k) \in 1..Len(l) /\ m[i] = l[i - Len(k)]
    BY ONLY <2>2, <2>4
  <2> QED BY <1>3, <2>3, <2>4
<1>5. ASSUME NEW i \in 1..Len(m), NEW j \in 1..Len(m), s[m[i]].name = s[m[j]].name
      PROVE  i = j
  <2>1. CASE i \in 1..Len(k) /\ m[i] = k[i] /\ j \in 1..Len(k) /\ m[j] = k[j]
    <3>1. \A g, h \in 1..Len(k) : s[k[g]].name = s[k[h]].name => g = h
      BY Zenon DEF Fits
    <3> QED BY ONLY <1>5, <2>1, <3>1
  <2>2. CASE /\ i - Len(k) \in 1..Len(l) /\ m[i] = l[i - Len(k)]
             /\ j - Len(k) \in 1..Len(l) /\ m[j] = l[j - Len(k)]
    BY <2>2, <1>1, <1>5 DEF Fits
  <2> QED BY <1>3, <1>5, <2>1, <2>2
<1> QED BY <1>2, <1>4, <1>5 DEF Fits, m

\* What _moveUUID moves is in its tree, and with a node what is below it.
LEMMA BelowFacts ==
  ASSUME NEW s, NEW n, Good(s, n), NEW us, us \subseteq DOMAIN s
  PROVE  /\ us \subseteq Server!Below(s, us) /\ Server!Below(s, us) \subseteq DOMAIN s
         /\ \A u \in Server!Below(s, us) : \A i \in 1..Len(s[u].children) :
              s[u].children[i] \in Server!Below(s, us)
<1> DEFINE closed == {S \in SUBSET (us \cup DOMAIN s) :
                        /\ us \subseteq S
                        /\ \A u \in S \cap DOMAIN s : Server!ToSet(Server!Children(s, u)) \subseteq S}
           B == {u \in us \cup DOMAIN s : \A S \in closed : u \in S}
<1>1. Server!Below(s, us) = B
  BY DEF Server!Below
<1>2. us \subseteq B /\ B \subseteq DOMAIN s
  OBVIOUS
<1>3. ASSUME NEW u \in B, NEW i \in 1..Len(s[u].children) PROVE s[u].children[i] \in B
  <2> DEFINE v == s[u].children[i]
  <2>1. u \in DOMAIN s /\ s[u].children \in Seq(DOMAIN s)
    BY <1>2 DEF Good, Fits
  <2>2. v \in DOMAIN s /\ v \in Server!ToSet(Server!Children(s, u))
    BY <2>1 DEF Server!ToSet, Server!Children
  <2>3. ASSUME NEW S \in closed PROVE v \in S
    <3>1. u \in S
      OBVIOUS
    <3> HIDE DEF v
    <3> QED BY <2>1, <2>2, <3>1
  <2> QED BY <2>2, <2>3
<1> HIDE DEF B
<1> QED BY <1>1, <1>2, <1>3

\* addChild.
LEMMA AddGood ==
  ASSUME NEW s, NEW n \in Nat, Good(s, n), NEW p \in DOMAIN s, NEW name,
         name \notin Server!ToSet(Server!NameOf(s, Server!Children(s, p))), NEW ps
  PROVE  LET t == Server!With([s EXCEPT ![p].children = Append(@, n)], n,
                    [name |-> name, parent |-> p, children |-> <<>>, props |-> ps])
         IN Good(t, n + 1) /\ \A u \in DOMAIN t : u = n \/ (u \in DOMAIN s /\ Kept(t, s, u))
<1> DEFINE made == [name |-> name, parent |-> p, children |-> <<>>, props |-> ps]
           l == s[p].children
           r == [s EXCEPT ![p].children = Append(l, n)]
           t == Server!With(r, n, made)
<1>1. DOMAIN r = DOMAIN s /\ n \notin DOMAIN s /\ 0 \in DOMAIN s
  BY DEF Good
<1>2. /\ t = [u \in DOMAIN s \cup {n} |-> t[u]] /\ DOMAIN t = DOMAIN s \cup {n}
      /\ t[n] = made /\ \A u \in DOMAIN s : t[u] = r[u]
  BY <1>1 DEF Server!With
<1>3. \A u \in DOMAIN s : Server!IsNode(s[u]) /\ Fits(s, u, s[u].children)
  BY DEF Good
<1>4. r[p] = [name |-> s[p].name, parent |-> s[p].parent, children |-> Append(l, n), props |-> s[p].props]
  <2> HIDE DEF l
  <2>1. r[p] = [s[p] EXCEPT !.children = Append(l, n)]
    BY <1>1
  <2>2. Server!IsNode(s[p])
    BY <1>3
  <2> HIDE DEF r, t, made
  <2> QED BY ONLY <2>1, <2>2 DEF Server!IsNode
<1>5. \A u \in DOMAIN s \ {p} : r[u] = s[u]
  OBVIOUS
<1> HIDE DEF r
<1>6. Server!IsNode(t[n]) /\ \A u \in DOMAIN s : Server!IsNode(t[u])
  BY <1>2, <1>3, <1>4, <1>5 DEF Server!IsNode
<1>7. \A u \in DOMAIN s : Kept(s, t, u) /\ Kept(t, s, u)
  BY <1>2, <1>4, <1>5 DEF Kept
<1> HIDE DEF t
<1>8. ASSUME NEW u \in DOMAIN s, NEW k, Fits(s, u, k) PROVE Fits(t, u, k)
  <2>1. \A i \in 1..Len(k) : k[i] \in DOMAIN s
    BY <1>8 DEF Fits
  <2> QED BY <2>1, <1>7, <1>8, FitsKept
<1>9. Fits(t, p, Append(l, n))
  <2>1. Fits(t, p, l)
    BY <1>3, <1>8
  <2>2. n \in DOMAIN t \ {0} /\ t[n].parent = p /\ t[n].name = name
    BY <1>1, <1>2
  <2>3. \A i \in 1..Len(l) : t[l[i]].name # name
    <3>1. l \in Seq(DOMAIN s)
      BY <1>3 DEF Fits
    <3>2. \A i \in 1..Len(l) : s[l[i]].name # name
      BY <3>1 DEF Server!ToSet, Server!NameOf, Server!Children
    <3> QED BY <3>1, <3>2, <1>7 DEF Kept
  <2> QED BY <2>1, <2>2, <2>3, FitsAppended
<1>10. Fits(t, n, <<>>)
  BY DEF Fits
<1>11. \A u \in DOMAIN t : Server!IsNode(t[u]) /\ Fits(t, u, t[u].children)
  <2>1. t[n].children = <<>> /\ t[p].children = Append(l, n)
    BY <1>2, <1>4
  <2>2. \A u \in DOMAIN s \ {p} : Fits(t, u, t[u].children)
    BY <1>2, <1>3, <1>5, <1>8
  <2>3. Fits(t, n, t[n].children) /\ Fits(t, p, t[p].children)
    BY <1>9, <1>10, <2>1
  <2> QED BY <1>2, <1>6, <2>2, <2>3
<1>12. DOMAIN t \subseteq 0..((n + 1) - 1) /\ 0 \in DOMAIN t
  BY <1>1, <1>2 DEF Good
<1>13. Good(t, n + 1)
  BY <1>2, <1>11, <1>12 DEF Good
<1> QED BY <1>2, <1>7, <1>13 DEF t, r

\* modifyProperties, and _mergeProperties.
LEMMA PropsGood ==
  ASSUME NEW s, NEW n, Good(s, n), NEW u \in DOMAIN s, NEW ps
  PROVE  /\ Good([s EXCEPT ![u].props = ps], n)
         /\ \A v \in DOMAIN s : Kept([s EXCEPT ![u].props = ps], s, v)
<1> DEFINE t == [s EXCEPT ![u].props = ps]
<1>1. DOMAIN t = DOMAIN s /\ t = [v \in DOMAIN s |-> t[v]]
  OBVIOUS
<1>2. \A v \in DOMAIN s : Server!IsNode(s[v]) /\ Fits(s, v, s[v].children)
  BY DEF Good
<1>3. t[u] = [name |-> s[u].name, parent |-> s[u].parent, children |-> s[u].children, props |-> ps]
  BY <1>2 DEF Server!IsNode
<1>4. \A v \in DOMAIN s \ {u} : t[v] = s[v]
  OBVIOUS
<1> HIDE DEF t
<1>5. \A v \in DOMAIN s : /\ Kept(s, t, v) /\ Kept(t, s, v) /\ Server!IsNode(t[v])
                          /\ t[v].children = s[v].children
  BY <1>1, <1>2, <1>3, <1>4 DEF Kept, Server!IsNode
<1>6. ASSUME NEW v \in DOMAIN s PROVE Fits(t, v, t[v].children)
  <2>1. Fits(s, v, s[v].children) /\ \A i \in 1..Len(s[v].children) : s[v].children[i] \in DOMAIN s
    BY <1>2 DEF Fits
  <2> QED BY <2>1, <1>5, FitsKept
<1>7. Good(t, n)
  BY <1>1, <1>5, <1>6 DEF Good
<1> QED BY <1>5, <1>7 DEF t

\* The children of u are others of its own, or in another order.
LEMMA ChildrenGood ==
  ASSUME NEW s, NEW n, Good(s, n), NEW u \in DOMAIN s, NEW l, Fits(s, u, l)
  PROVE  /\ Good([s EXCEPT ![u].children = l], n)
         /\ \A v \in DOMAIN s : Kept([s EXCEPT ![u].children = l], s, v)
<1> DEFINE t == [s EXCEPT ![u].children = l]
<1>1. DOMAIN t = DOMAIN s /\ t = [v \in DOMAIN s |-> t[v]]
  OBVIOUS
<1>2. \A v \in DOMAIN s : Server!IsNode(s[v]) /\ Fits(s, v, s[v].children)
  BY DEF Good
<1>3. t[u] = [name |-> s[u].name, parent |-> s[u].parent, children |-> l, props |-> s[u].props]
  BY <1>2 DEF Server!IsNode
<1>4. \A v \in DOMAIN s \ {u} : t[v] = s[v]
  OBVIOUS
<1> HIDE DEF t
<1>5. \A v \in DOMAIN s : Kept(s, t, v) /\ Kept(t, s, v) /\ Server!IsNode(t[v])
  BY <1>1, <1>2, <1>3, <1>4 DEF Kept, Server!IsNode
<1>6. ASSUME NEW v \in DOMAIN s, NEW k, Fits(s, v, k) PROVE Fits(t, v, k)
  <2>1. \A i \in 1..Len(k) : k[i] \in DOMAIN s
    BY <1>6 DEF Fits
  <2> QED BY <2>1, <1>5, <1>6, FitsKept
<1>7. \A v \in DOMAIN s : Fits(t, v, t[v].children)
  BY <1>2, <1>3, <1>4, <1>6
<1>8. Good(t, n)
  BY <1>1, <1>5, <1>7 DEF Good
<1> QED BY <1>5, <1>8 DEF t

\* What removeNode leaves of a tree, before and after the parent forgets the node.
LeavesGood(s, n, u) ==
  LET t == Server!Restrict(s, DOMAIN s \ {u})
      p == s[u].parent
  IN /\ DOMAIN t = DOMAIN s \ {u} /\ \A v \in DOMAIN t : t[v] = s[v]
     /\ p \notin DOMAIN t => Good(t, n)
     /\ p \in DOMAIN t => /\ Fits(t, p, Server!Without(t[p].children, u))
                          /\ Good([t EXCEPT ![p].children = Server!Without(@, u)], n)

\* removeNode leaves a good tree.
LEMMA RemovedGood ==
  ASSUME NEW s, NEW n, Good(s, n), NEW u \in DOMAIN s \ {0}
  PROVE  LeavesGood(s, n, u)
<1> DEFINE t == Server!Restrict(s, DOMAIN s \ {u})
           p == s[u].parent
<1>1. /\ DOMAIN t = DOMAIN s \ {u} /\ t = [v \in DOMAIN t |-> t[v]]
      /\ \A v \in DOMAIN t : t[v] = s[v]
  BY DEF Server!Restrict
<1> HIDE DEF t
<1>2. \A v \in DOMAIN s : Server!IsNode(s[v]) /\ Fits(s, v, s[v].children)
  BY DEF Good
<1>3. DOMAIN t \subseteq 0..(n - 1) /\ 0 \in DOMAIN t
  BY <1>1 DEF Good
<1>4. ASSUME NEW v \in DOMAIN t, NEW k, Fits(s, v, k), \A i \in 1..Len(k) : k[i] # u
      PROVE  Fits(t, v, k)
  <2>1. \A i \in 1..Len(k) : k[i] \in DOMAIN s
    BY <1>4 DEF Fits
  <2>2. \A i \in 1..Len(k) : Kept(s, t, k[i])
    BY <2>1, <1>1, <1>4 DEF Kept
  <2> QED BY <2>2, <1>4, FitsKept
<1>5. ASSUME NEW v \in DOMAIN t, v # p PROVE Fits(t, v, t[v].children)
  <2>1. \A i \in 1..Len(s[v].children) : s[v].children[i] # u
    BY <1>1, <1>2, <1>5 DEF Fits
  <2> QED BY <2>1, <1>1, <1>2, <1>4
<1>6. ASSUME p \notin DOMAIN t PROVE Good(t, n)
  BY <1>1, <1>2, <1>3, <1>5, <1>6 DEF Good
<1>7. ASSUME p \in DOMAIN t
      PROVE  /\ Fits(t, p, Server!Without(t[p].children, u))
             /\ Good([t EXCEPT ![p].children = Server!Without(@, u)], n)
  <2> DEFINE l == s[p].children
             k == Server!Without(l, u)
             r == [t EXCEPT ![p].children = k]
  <2>1. Fits(s, p, l) /\ l \in Seq(DOMAIN s) /\ Len(l) \in Nat
    BY <1>1, <1>2, <1>7 DEF Fits
  <2>2. \A i, j \in 1..Len(l) : l[i] = l[j] => i = j
    BY <2>1 DEF Fits
  <2> HIDE DEF l
  <2>3. Fits(s, p, k) /\ \A i \in 1..Len(k) : k[i] # u
    <3>1. CASE u \notin Server!ToSet(l)
      BY <3>1, <2>1 DEF Server!Without, Server!ToSet
    <3>2. CASE u \in Server!ToSet(l)
      <4> DEFINE a == CHOOSE i \in DOMAIN l : l[i] = u
                 m == Len(l) - 1
                 f == [i \in 1..m |-> IF i < a THEN i ELSE i + 1]
      <4>1. a \in 1..Len(l) /\ l[a] = u
        BY <3>2, <2>1 DEF Server!ToSet
      <4>2. k = RemoveAt(l, a)
        BY <3>2, SameOperators DEF Server!Without
      <4> HIDE DEF a, k
      <4>3. /\ k \in Seq(DOMAIN s) /\ Len(k) = m
            /\ \A i \in 1..m : k[i] = IF i < a THEN l[i] ELSE l[i + 1]
        BY <2>1, <4>1, <4>2, RemoveAtFacts
      <4>4. m \in Nat /\ f \in [1..m -> 1..Len(l)] /\ \A i \in 1..m : f[i] # a
        BY <2>1, <4>1
      <4>5. \A i, j \in 1..m : f[i] = f[j] => i = j
        BY <2>1, <4>1
      <4>6. \A i \in 1..m : k[i] = l[f[i]]
        BY <4>3
      <4> HIDE DEF f, m
      <4>7. k = [i \in 1..m |-> l[f[i]]]
        BY <4>3, <4>6
      <4>8. Fits(s, p, k)
        <5>1. Chosen(k, l)
          BY <4>4, <4>5, <4>7 DEF Chosen
        <5> QED BY <5>1, <2>1, FitsChosen
      <4>9. \A i \in 1..m : k[i] # u
        BY <2>2, <4>1, <4>4, <4>6
      <4> QED BY <4>3, <4>8, <4>9
    <3> QED BY <3>1, <3>2
  <2> HIDE DEF k
  <2>4. Fits(t, p, k)
    BY <2>3, <1>4, <1>7
  <2>5. DOMAIN r = DOMAIN t /\ r = [v \in DOMAIN r |-> r[v]] /\ \A v \in DOMAIN t \ {p} : r[v] = t[v]
    OBVIOUS
  <2>6. r[p] = [name |-> t[p].name, parent |-> t[p].parent, children |-> k, props |-> t[p].props]
    BY <1>1, <1>2, <1>7 DEF Server!IsNode
  <2> HIDE DEF r
  <2>7. \A v \in DOMAIN t : Kept(t, r, v) /\ Server!IsNode(r[v])
    BY <1>1, <1>2, <2>5, <2>6 DEF Kept, Server!IsNode
  <2>8. ASSUME NEW v \in DOMAIN t, NEW c, Fits(t, v, c) PROVE Fits(r, v, c)
    <3>1. \A i \in 1..Len(c) : c[i] \in DOMAIN t
      BY <2>8 DEF Fits
    <3> QED BY <3>1, <2>7, <2>8, FitsKept
  <2>9. \A v \in DOMAIN t : Fits(r, v, r[v].children)
    BY <1>5, <2>4, <2>5, <2>6, <2>8
  <2>10. Good(r, n)
    BY <1>3, <2>5, <2>7, <2>9 DEF Good
  <2>11. t[p].children = l
    BY <1>1, <1>7 DEF l
  <2> QED BY <2>4, <2>10, <2>11 DEF k, r
<1>8. /\ DOMAIN t = DOMAIN s \ {u} /\ \A v \in DOMAIN t : t[v] = s[v]
      /\ p \notin DOMAIN t => Good(t, n)
      /\ p \in DOMAIN t => /\ Fits(t, p, Server!Without(t[p].children, u))
                           /\ Good([t EXCEPT ![p].children = Server!Without(@, u)], n)
  BY ONLY <1>1, <1>6, <1>7
<1> HIDE DEF p
<1> QED BY ONLY <1>8 DEF LeavesGood, t, p

\* reorderChildren.
LEMMA ShiftedChosen ==
  ASSUME NEW S, NEW l \in Seq(S), NEW i \in 1..Len(l), NEW j \in 1..Len(l), j < i
  PROVE  Chosen(Server!InsertAt(Server!RemoveAt(l, i), j, l[i]), l)
<1> DEFINE n == Len(l)
           rest == RemoveAt(l, i)
           m == InsertAt(rest, j, l[i])
           f == [k \in 1..n |-> IF k < j \/ i < k THEN k ELSE IF k = j THEN i ELSE k - 1]
<1>1. n \in Nat /\ l[i] \in S
  OBVIOUS
<1>2. /\ rest \in Seq(S) /\ Len(rest) = n - 1
      /\ \A k \in 1..(n - 1) : rest[k] = IF k < i THEN l[k] ELSE l[k + 1]
  BY RemoveAtFacts
<1> HIDE DEF rest
<1>3. j \in 1..(Len(rest) + 1) /\ Len(rest) + 1 = n
  BY <1>1, <1>2
<1> DEFINE x == l[i]
           inserted == InsertAt(rest, j, x)
<1>9. x \in S
  BY <1>1
<1> HIDE DEF x
<1>10. /\ inserted \in Seq(S) /\ Len(inserted) = Len(rest) + 1
      /\ \A k \in 1..(Len(rest) + 1) : inserted[k] = IF k < j THEN rest[k] ELSE IF k = j THEN x ELSE rest[k - 1]
  <2>1. Inserted(inserted, rest, j, x, S)
    BY <1>9, <1>2, <1>3, InsertAtFacts
  <2> QED BY ONLY <2>1 DEF Inserted
<1>11. inserted = m
  BY DEF x
<1>4. /\ m \in Seq(S) /\ Len(m) = n
      /\ \A k \in 1..n : m[k] = IF k < j THEN rest[k] ELSE IF k = j THEN l[i] ELSE rest[k - 1]
  BY <1>3, <1>10, <1>11 DEF x
<1> HIDE DEF m
<1>5. ASSUME NEW k \in 1..n
      PROVE  m[k] = l[IF k < j \/ i < k THEN k ELSE IF k = j THEN i ELSE k - 1]
  <2>1. CASE k < j
    <3>1. k \in 1..(n - 1) /\ k < i
      BY <1>1, <2>1
    <3> QED BY <2>1, <3>1, <1>2, <1>4
  <2>2. CASE k = j
    BY <2>2, <1>1, <1>4
  <2>3. CASE j < k /\ ~(i < k)
    <3>1. k - 1 \in 1..(n - 1) /\ k - 1 < i /\ k # j /\ ~(k < j)
      BY <1>1, <2>3
    <3> QED BY <2>3, <3>1, <1>2, <1>4
  <2>4. CASE i < k
    <3>1. k - 1 \in 1..(n - 1) /\ ~(k - 1 < i) /\ k # j /\ ~(k < j) /\ (k - 1) + 1 = k
      BY <1>1, <2>4
    <3> QED BY <2>4, <3>1, <1>2, <1>4
  <2> QED BY <1>1, <2>1, <2>2, <2>3, <2>4
<1>6. f \in [1..n -> 1..n] /\ \A a, b \in 1..n : f[a] = f[b] => a = b
  BY <1>1
<1>7. m = [k \in 1..n |-> l[f[k]]]
  BY <1>4, <1>5
<1> HIDE DEF f
<1>8. Chosen(m, l)
  BY <1>1, <1>6, <1>7 DEF Chosen
<1> QED BY <1>8, SameOperators DEF m, rest

\* _mergeChildren: what a node gets fits it, when what was moved is there.
LEMMA MergedFits ==
  ASSUME NEW cur, NEW new, NEW R, NEW u, NEW ini,
         NEW lcur, NEW lnew, Fits(cur, u, lcur), Fits(new, u, lnew),
         Server!Mergeable(cur, new, ini, lcur, lnew), ini \in Seq(Nat),
         \A i \in 1..Len(lnew) : Kept(new, R, lnew[i]),
         \A i \in 1..Len(lcur) :
           lcur[i] \in Server!ToSet(Server!MergeChildren(ini, lcur, lnew)) => Kept(cur, R, lcur[i])
  PROVE  Fits(R, u, Server!MergeChildren(ini, lcur, lnew))
<1>1. Fits(R, u, lnew)
  BY FitsKept
<1>2. CASE ini = lcur
  BY <1>1, <1>2 DEF Server!MergeChildren
<1>3. CASE ini # lcur /\ ini = lnew
  <2>1. Server!MergeChildren(ini, lcur, lnew) = lcur
    BY <1>3 DEF Server!MergeChildren
  <2>2. \A i \in 1..Len(lcur) : lcur[i] \in Server!ToSet(lcur)
    BY DEF Fits, Server!ToSet
  <2> QED BY <2>1, <2>2, FitsKept
<1>4. CASE ini # lcur /\ ini # lnew
  <2> DEFINE a == Len(ini)
             rest == Server!Rest(ini, lcur)
             restnew == Server!Rest(ini, lnew)
             l == lnew \o rest
             n == Len(lcur) - a
  <2>1. Server!MergeChildren(ini, lcur, lnew) = l
    BY <1>4 DEF Server!MergeChildren
  <2>2. /\ a \in Nat /\ a <= Len(lcur) /\ a <= Len(lnew)
        /\ \A i \in 1..a : ini[i] = lcur[i] /\ ini[i] = lnew[i]
    <3>1. Server!Appends(ini, lcur) /\ Server!Appends(ini, lnew)
      BY <1>4 DEF Server!Mergeable, Server!BothAppend
    <3>2. /\ a \in Nat /\ a <= Len(lcur) /\ a <= Len(lnew)
          /\ SubSeq(ini, 1, a) = SubSeq(lcur, 1, a) /\ SubSeq(ini, 1, a) = SubSeq(lnew, 1, a)
      BY <3>1 DEF Server!Appends, Server!IsPrefix
    <3>3. lcur \in Seq(DOMAIN cur \ {0}) /\ lnew \in Seq(DOMAIN new \ {0})
      BY DEF Fits
    <3>4. \A i \in 1..a : /\ SubSeq(ini, 1, a)[i] = ini[i] /\ SubSeq(lcur, 1, a)[i] = lcur[i]
                          /\ SubSeq(lnew, 1, a)[i] = lnew[i]
      BY <3>2, <3>3
    <3> QED BY <3>2, <3>4
  <2>3. /\ Len(lcur) \in Nat /\ Len(lnew) \in Nat /\ n \in Nat
        /\ rest = [i \in 1..n |-> lcur[i + a]] /\ Len(rest) = n
    <3>1. lcur \in Seq(DOMAIN cur \ {0}) /\ lnew \in Seq(DOMAIN new \ {0})
      BY DEF Fits
    <3>2. /\ rest \in Seq(DOMAIN cur \ {0}) /\ Len(rest) = n
          /\ \A i \in 1..n : rest[i] = lcur[i + a]
      BY <2>2, <3>1 DEF Server!Rest
    <3> HIDE DEF rest
    <3> QED BY <2>2, <3>1, <3>2
  <2>4. /\ restnew \in Seq(DOMAIN new \ {0}) /\ Len(restnew) = Len(lnew) - a
        /\ \A i \in 1..(Len(lnew) - a) : restnew[i] = lnew[i + a]
    <3>1. lnew \in Seq(DOMAIN new \ {0})
      BY DEF Fits
    <3> QED BY <2>2, <3>1 DEF Server!Rest
  <2>5. Fits(cur, u, rest)
    <3> DEFINE f == [i \in 1..n |-> i + a]
    <3>1. f \in [1..n -> 1..Len(lcur)] /\ \A i, j \in 1..n : f[i] = f[j] => i = j
      BY <2>2, <2>3
    <3>2. rest = [i \in 1..n |-> lcur[f[i]]]
      BY <2>3
    <3> HIDE DEF f
    <3>3. Chosen(rest, lcur)
      BY <2>3, <3>1, <3>2 DEF Chosen
    <3> QED BY <3>3, FitsChosen
  <2>6. \A i \in 1..n : i + a \in 1..Len(lcur) /\ rest[i] = lcur[i + a]
    BY <2>2, <2>3
  <2>7. \A i \in 1..n : rest[i] \in Server!ToSet(l)
    <3> HIDE DEF rest
    <3>1. /\ lnew \in Seq(DOMAIN new \cup DOMAIN cur) /\ rest \in Seq(DOMAIN new \cup DOMAIN cur)
      BY <2>5 DEF Fits
    <3>2. /\ Len(l) = Len(lnew) + Len(rest) /\ l \in Seq(DOMAIN new \cup DOMAIN cur)
          /\ \A i \in 1..(Len(lnew) + Len(rest)) : l[i] = IF i <= Len(lnew) THEN lnew[i] ELSE rest[i - Len(lnew)]
      BY <3>1, ConcatProperties
    <3> HIDE DEF l
    <3>3. \A i \in 1..n : /\ i + Len(lnew) \in 1..(Len(lnew) + Len(rest))
                          /\ ~(i + Len(lnew) <= Len(lnew)) /\ (i + Len(lnew)) - Len(lnew) = i
      BY <2>3
    <3>4. DOMAIN l = 1..(Len(lnew) + Len(rest))
      BY <3>2
    <3> QED BY <3>2, <3>3, <3>4 DEF Server!ToSet
  <2>8. \A i \in 1..n : Kept(cur, R, rest[i])
    BY <2>1, <2>6, <2>7
  <2>9. Fits(R, u, rest)
    BY <2>3, <2>5, <2>8, FitsKept
  <2>10. ASSUME NEW i \in 1..Len(lnew), NEW j \in 1..Len(rest)
         PROVE  R[lnew[i]].name # R[rest[j]].name
    <3>1. /\ R[rest[j]].name = cur[rest[j]].name /\ rest[j] = lcur[j + a]
          /\ j + a \in 1..Len(lcur)
      BY <2>3, <2>6, <2>8 DEF Kept
    <3>2. CASE i <= a
      <4>1. lnew[i] = lcur[i] /\ i \in 1..Len(lcur) /\ i # j + a
        BY <3>2, <2>2, <2>3
      <4>2. lcur[i] \in Server!ToSet(l)
        <5>1. /\ lnew \in Seq(DOMAIN new \cup DOMAIN cur) /\ rest \in Seq(DOMAIN new \cup DOMAIN cur)
          <6> HIDE DEF rest
          <6> QED BY <2>5 DEF Fits
        <5> HIDE DEF rest
        <5>2. /\ Len(l) = Len(lnew) + Len(rest) /\ l \in Seq(DOMAIN new \cup DOMAIN cur)
              /\ \A k \in 1..(Len(lnew) + Len(rest)) : l[k] = IF k <= Len(lnew) THEN lnew[k] ELSE rest[k - Len(lnew)]
          BY <5>1, ConcatProperties
        <5> HIDE DEF l
        <5>3. Len(rest) \in Nat /\ i <= Len(lnew) /\ i \in 1..(Len(lnew) + Len(rest))
          BY <2>3
        <5>4. DOMAIN l = 1..(Len(lnew) + Len(rest))
          BY <5>2
        <5>5. i \in DOMAIN l /\ l[i] = lnew[i]
          BY <5>2, <5>3, <5>4
        <5> QED BY <5>5, <4>1 DEF Server!ToSet
      <4>3. R[lcur[i]].name = cur[lcur[i]].name
        BY <4>1, <4>2, <2>1 DEF Kept
      <4> QED BY <3>1, <4>1, <4>3 DEF Fits
    <3>3. CASE ~(i <= a)
      <4>1. i - a \in DOMAIN restnew /\ restnew[i - a] = lnew[i]
        <5> HIDE DEF restnew
        <5>1. i - a \in 1..(Len(lnew) - a) /\ (i - a) + a = i
          <6> HIDE DEF a
          <6> QED BY <3>3, <2>2, <2>3
        <5>2. DOMAIN restnew = 1..(Len(lnew) - a)
          BY <2>4
        <5>3. restnew[i - a] = lnew[(i - a) + a]
          BY <2>4, <5>1
        <5> QED BY <5>1, <5>2, <5>3
      <4>2. j \in DOMAIN rest
        BY <2>3
      <4>3. Server!ToSet(Server!NameOf(cur, rest)) \cap Server!ToSet(Server!NameOf(new, restnew)) = {}
        BY <1>4 DEF Server!Mergeable, Server!BothAppend, Server!Disjoint
      <4> HIDE DEF rest, restnew
      <4>4. cur[rest[j]].name \in Server!ToSet(Server!NameOf(cur, rest))
        BY <4>2 DEF Server!ToSet, Server!NameOf
      <4>5. new[lnew[i]].name \in Server!ToSet(Server!NameOf(new, restnew))
        BY <4>1 DEF Server!ToSet, Server!NameOf
      <4>6. R[lnew[i]].name = new[lnew[i]].name
        BY DEF Kept
      <4> QED BY <3>1, <4>3, <4>4, <4>5, <4>6
    <3> QED BY <3>2, <3>3
  <2> HIDE DEF rest
  <2> QED BY <1>1, <2>1, <2>9, <2>10, FitsJoined
<1> QED BY <1>2, <1>3, <1>4

LEMMA MergedFrom ==
  ASSUME NEW S, NEW lcur \in Seq(S), NEW lnew \in Seq(S), NEW ini,
         ini = lcur \/ ini = lnew \/ (Len(ini) \in Nat /\ Len(ini) <= Len(lcur))
  PROVE  Server!ToSet(Server!MergeChildren(ini, lcur, lnew)) \subseteq Server!ToSet(lcur) \cup Server!ToSet(lnew)
<1>1. CASE ini = lcur
  BY <1>1 DEF Server!MergeChildren
<1>2. CASE ini # lcur /\ ini = lnew
  BY <1>2 DEF Server!MergeChildren
<1>3. CASE ini # lcur /\ ini # lnew
  <2> DEFINE a == Len(ini)
             rest == Server!Rest(ini, lcur)
             l == lnew \o rest
  <2>1. a \in Nat /\ a <= Len(lcur) /\ Len(lcur) \in Nat /\ Len(lnew) \in Nat
    BY <1>3
  <2> HIDE DEF a
  <2>2. /\ rest \in Seq(S) /\ Len(rest) = Len(lcur) - a
        /\ \A i \in 1..(Len(lcur) - a) : rest[i] = lcur[i + a]
    BY <2>1 DEF Server!Rest, a
  <2> HIDE DEF rest
  <2>3. /\ Len(l) = Len(lnew) + Len(rest) /\ l \in Seq(S)
        /\ \A k \in 1..(Len(lnew) + Len(rest)) : l[k] = IF k <= Len(lnew) THEN lnew[k] ELSE rest[k - Len(lnew)]
    BY <2>2, ConcatProperties
  <2>4. Server!MergeChildren(ini, lcur, lnew) = l
    BY <1>3 DEF Server!MergeChildren, rest
  <2> HIDE DEF l
  <2>5. ASSUME NEW k \in DOMAIN l PROVE l[k] \in Server!ToSet(lcur) \cup Server!ToSet(lnew)
    <3>1. k \in 1..(Len(lnew) + Len(rest))
      BY <2>3
    <3>2. CASE k <= Len(lnew)
      <4>1. k \in DOMAIN lnew /\ l[k] = lnew[k]
        BY <2>1, <2>3, <3>1, <3>2
      <4> QED BY <4>1 DEF Server!ToSet
    <3>3. CASE ~(k <= Len(lnew))
      <4>1. k - Len(lnew) \in 1..(Len(lcur) - a)
        BY <2>1, <2>2, <3>1, <3>3
      <4>2. (k - Len(lnew)) + a \in DOMAIN lcur
        BY <2>1, <4>1
      <4>3. l[k] = lcur[(k - Len(lnew)) + a]
        BY <2>2, <2>3, <3>1, <3>3, <4>1
      <4> QED BY <4>2, <4>3 DEF Server!ToSet
    <3> QED BY <3>2, <3>3
  <2> QED BY <2>4, <2>5 DEF Server!ToSet
<1> QED BY <1>1, <1>2, <1>3

LEMMA FitsIn ==
  ASSUME NEW s, NEW u, NEW l, Fits(s, u, l)
  PROVE  /\ l \in Seq(DOMAIN s) /\ \A i \in 1..Len(l) : l[i] \in DOMAIN s
         /\ Server!ToSet(l) \subseteq DOMAIN s
<1>1. l \in Seq(DOMAIN s)
  BY DEF Fits
<1> QED BY <1>1 DEF Server!ToSet

\* Two storages agree on the nodes they share.
Agree(s, t) == \A u \in DOMAIN s \cap DOMAIN t : s[u].name = t[u].name /\ s[u].parent = t[u].parent

\* R is the store new, after the merge of node u with cur.
MergedNode(R, new, cur, u, ini, ps, l, moved, n) ==
  /\ Good(new, n) /\ Good(cur, n) /\ Agree(cur, new)
  /\ u \in DOMAIN new \cap DOMAIN cur /\ ini \in Seq(Nat)
  /\ l = Server!MergeChildren(ini, cur[u].children, new[u].children)
  /\ Server!Mergeable(cur, new, ini, cur[u].children, new[u].children)
  /\ moved = Server!ToSet(l) \ Server!ToSet(new[u].children)
  /\ Server!Below(cur, moved) \cap DOMAIN new = {}
  /\ R = Server!MoveUUIDs(cur, moved, [[new EXCEPT ![u].props = ps] EXCEPT ![u].children = l])

\* _merge of a node: what is moved into the store fits it.
LEMMA MergedGood ==
  ASSUME NEW R, NEW new, NEW cur, NEW u, NEW ini, NEW ps, NEW l, NEW moved, NEW n,
         MergedNode(R, new, cur, u, ini, ps, l, moved, n)
  PROVE  /\ Good(R, n)
         /\ \A v \in DOMAIN R : \/ (v \in DOMAIN new /\ Kept(R, new, v))
                                \/ (v \in DOMAIN cur /\ Kept(R, cur, v))
<1>0. /\ Good(new, n) /\ Good(cur, n) /\ Agree(cur, new)
       /\ u \in DOMAIN new \cap DOMAIN cur /\ ini \in Seq(Nat)
       /\ l = Server!MergeChildren(ini, cur[u].children, new[u].children)
       /\ Server!Mergeable(cur, new, ini, cur[u].children, new[u].children)
       /\ moved = Server!ToSet(l) \ Server!ToSet(new[u].children)
       /\ Server!Below(cur, moved) \cap DOMAIN new = {}
  BY DEF MergedNode
<1> USE <1>0
<1> DEFINE lcur == cur[u].children
           lnew == new[u].children
           dst == [[new EXCEPT ![u].props = ps] EXCEPT ![u].children = l]
           B == Server!Below(cur, moved)
<1>1. /\ \A v \in DOMAIN new : Server!IsNode(new[v]) /\ Fits(new, v, new[v].children)
      /\ \A v \in DOMAIN cur : Server!IsNode(cur[v]) /\ Fits(cur, v, cur[v].children)
      /\ DOMAIN new \subseteq 0..(n - 1) /\ DOMAIN cur \subseteq 0..(n - 1) /\ 0 \in DOMAIN new
  BY DEF Good
<1>2. /\ DOMAIN dst = DOMAIN new /\ \A v \in DOMAIN new \ {u} : dst[v] = new[v]
      /\ dst[u] = [name |-> new[u].name, parent |-> new[u].parent, children |-> l, props |-> ps]
  <2> DEFINE r == [new EXCEPT ![u].props = ps]
  <2>1. /\ DOMAIN r = DOMAIN new /\ \A v \in DOMAIN new \ {u} : r[v] = new[v]
        /\ r[u] = [new[u] EXCEPT !.props = ps]
    OBVIOUS
  <2>2. r[u] = [name |-> new[u].name, parent |-> new[u].parent, children |-> new[u].children, props |-> ps]
    BY <2>1, <1>1 DEF Server!IsNode
  <2> HIDE DEF r
  <2>3. dst = [r EXCEPT ![u].children = l]
    BY DEF r
  <2> HIDE DEF dst
  <2> QED BY <2>1, <2>2, <2>3
<1> HIDE DEF dst
<1>3. Fits(cur, u, lcur) /\ Fits(new, u, lnew)
  BY <1>1
<1> HIDE DEF lcur, lnew
<1>4. /\ \A i \in 1..Len(lcur) : lcur[i] \in DOMAIN cur
      /\ \A i \in 1..Len(lnew) : lnew[i] \in DOMAIN new
  BY <1>3, FitsIn
<1>5. /\ lcur \in Seq(DOMAIN cur \cup DOMAIN new) /\ lnew \in Seq(DOMAIN cur \cup DOMAIN new)
      /\ Server!ToSet(lcur) \subseteq DOMAIN cur /\ Server!ToSet(lnew) \subseteq DOMAIN new
  BY <1>3, FitsIn
<1>6. l = Server!MergeChildren(ini, lcur, lnew) /\ Server!Mergeable(cur, new, ini, lcur, lnew)
  BY DEF lcur, lnew
<1>7. ini = lcur \/ ini = lnew \/ (Len(ini) \in Nat /\ Len(ini) <= Len(lcur))
  BY <1>6 DEF Server!Mergeable, Server!BothAppend, Server!Appends, Server!IsPrefix
<1>8. moved \subseteq DOMAIN cur
  <2>1. Server!ToSet(l) \subseteq Server!ToSet(lcur) \cup Server!ToSet(lnew)
    BY <1>5, <1>6, <1>7, MergedFrom
  <2> QED BY <2>1, <1>5 DEF lnew
<1>9. /\ moved \subseteq B /\ B \subseteq DOMAIN cur /\ B \cap DOMAIN new = {}
      /\ \A v \in B : \A i \in 1..Len(cur[v].children) : cur[v].children[i] \in B
  <2>1. /\ moved \subseteq B /\ B \subseteq DOMAIN cur
        /\ \A v \in B : \A i \in 1..Len(cur[v].children) : cur[v].children[i] \in B
    <3>1. \A us : us \subseteq DOMAIN cur =>
            /\ us \subseteq Server!Below(cur, us) /\ Server!Below(cur, us) \subseteq DOMAIN cur
            /\ \A v \in Server!Below(cur, us) : \A i \in 1..Len(cur[v].children) :
                 cur[v].children[i] \in Server!Below(cur, us)
      BY ONLY <1>0, BelowFacts, Zenon
    <3>2. /\ moved \subseteq Server!Below(cur, moved) /\ Server!Below(cur, moved) \subseteq DOMAIN cur
          /\ \A v \in Server!Below(cur, moved) : \A i \in 1..Len(cur[v].children) :
               cur[v].children[i] \in Server!Below(cur, moved)
      BY ONLY <1>8, <3>1, Zenon
    <3> QED BY <3>2
  <2>2. B \cap DOMAIN new = {}
    OBVIOUS
  <2> QED BY <2>1, <2>2
<1> HIDE DEF B
<1>10. /\ R = [v \in DOMAIN R |-> R[v]] /\ DOMAIN R = DOMAIN new \cup B
       /\ \A v \in DOMAIN new : R[v] = dst[v]
       /\ \A v \in B : R[v] = cur[v]
  <2>1. R = Server!MoveUUIDs(cur, moved, dst)
    BY DEF MergedNode, dst
  <2> QED BY <1>2, <1>9, <2>1 DEF Server!MoveUUIDs, B
<1>11. \A v \in DOMAIN new : Kept(new, R, v) /\ Kept(R, new, v)
  BY <1>2, <1>10 DEF Kept
<1>12. \A v \in B : Kept(cur, R, v) /\ Kept(R, cur, v)
  BY <1>9, <1>10 DEF Kept
<1>13. \A v \in DOMAIN cur \cap DOMAIN new : Kept(cur, R, v)
  BY <1>11 DEF Kept, Agree
<1>14. \A v \in DOMAIN R : Server!IsNode(R[v])
  BY <1>1, <1>2, <1>9, <1>10 DEF Server!IsNode
<1>15. Fits(R, u, l)
  <2>1. \A i \in 1..Len(lnew) : Kept(new, R, lnew[i])
    BY <1>4, <1>11
  <2>2. ASSUME NEW i \in 1..Len(lcur), lcur[i] \in Server!ToSet(l)
        PROVE  Kept(cur, R, lcur[i])
    <3>1. lcur[i] \in moved \/ lcur[i] \in DOMAIN new
      BY <2>2, <1>5 DEF lnew
    <3> QED BY <3>1, <1>4, <1>9, <1>12, <1>13
  <2> QED BY <2>1, <2>2, <1>3, <1>6, MergedFits
<1>16. ASSUME NEW v \in DOMAIN new \ {u} PROVE Fits(R, v, R[v].children)
  <2>1. Fits(new, v, new[v].children) /\ \A i \in 1..Len(new[v].children) : new[v].children[i] \in DOMAIN new
    BY <1>1, FitsIn
  <2>2. Fits(R, v, new[v].children)
    BY <2>1, <1>11, FitsKept
  <2> QED BY <2>2, <1>2, <1>10
<1>17. ASSUME NEW v \in B PROVE Fits(R, v, R[v].children)
  <2>1. Fits(cur, v, cur[v].children)
    BY <1>1, <1>9
  <2>2. Fits(R, v, cur[v].children)
    BY <2>1, <1>9, <1>12, FitsKept
  <2> QED BY <2>2, <1>10
<1>18. R[u].children = l
  BY <1>2, <1>10
<1>19. \A v \in DOMAIN R : Fits(R, v, R[v].children)
  BY <1>10, <1>15, <1>16, <1>17, <1>18
<1>20. DOMAIN R \subseteq 0..(n - 1) /\ 0 \in DOMAIN R
  BY <1>1, <1>9, <1>10
<1>21. Good(R, n)
  BY <1>10, <1>14, <1>19, <1>20 DEF Good
<1>22. \A v \in DOMAIN R : (v \in DOMAIN new /\ Kept(R, new, v)) \/ (v \in DOMAIN cur /\ Kept(R, cur, v))
  BY <1>9, <1>10, <1>11, <1>12
<1> QED BY <1>21, <1>22

-----------------------------------------------------------------------------
(* What every storage is, and what a step can do to them.                   *)

Stores(A, n) == (\A s \in A : Good(s, n)) /\ (\A s, t \in A : Agree(s, t))

\* Everything the server has: the store, and two copies of it for a session.
AllStores == {real} \cup {storage[c] : c \in Sessions} \cup {initial[c] : c \in Sessions}

TreeInv ==
  /\ next \in Nat /\ merging \in Sessions \cup {Nobody}
  /\ DOMAIN storage = Sessions /\ DOMAIN initial = Sessions
  /\ Stores(AllStores, next)

\* A step that makes one storage of others, with a new node at most.
LEMMA OneMore ==
  ASSUME NEW A, NEW n \in Nat, Stores(A, n), NEW B, NEW R, B \subseteq A \cup {R},
         NEW m \in {n, n + 1}, Good(R, m),
         \A u \in DOMAIN R : u = n \/ \E s \in A : u \in DOMAIN s /\ Kept(R, s, u)
  PROVE  Stores(B, m)
<1>1. ASSUME NEW s \in A PROVE Good(s, m) /\ n \notin DOMAIN s
  <2>1. Good(s, n)
    BY DEF Stores
  <2>2. DOMAIN s \subseteq 0..(n - 1)
    BY <2>1 DEF Good
  <2>3. 0..(n - 1) \subseteq 0..(m - 1) /\ n \notin 0..(n - 1)
    OBVIOUS
  <2> QED BY <2>1, <2>2, <2>3 DEF Good
<1>2. ASSUME NEW t \in A PROVE Agree(R, t) /\ Agree(t, R)
  <2>1. ASSUME NEW u \in DOMAIN R \cap DOMAIN t
        PROVE  R[u].name = t[u].name /\ R[u].parent = t[u].parent
    <3>1. u # n
      BY <1>1
    <3>2. PICK s \in A : u \in DOMAIN s /\ Kept(R, s, u)
      BY <3>1
    <3>3. Agree(s, t)
      BY DEF Stores
    <3> QED BY <3>2, <3>3 DEF Agree, Kept
  <2> QED BY <2>1 DEF Agree
<1>3. Agree(R, R)
  BY DEF Agree
<1>4. \A s, t \in A \cup {R} : Agree(s, t)
  BY <1>2, <1>3 DEF Stores
<1>5. \A s \in A \cup {R} : Good(s, m)
  BY <1>1
<1> QED BY <1>4, <1>5 DEF Stores

\* A command makes a copy of a session another one.
LEMMA CommandInv ==
  ASSUME TreeInv, NEW c \in Sessions, NEW R, storage' = [storage EXCEPT ![c] = R],
         UNCHANGED <<real, initial, merging>>, next' \in {next, next + 1}, Good(R, next'),
         \A u \in DOMAIN R : u = next \/ (u \in DOMAIN storage[c] /\ Kept(R, storage[c], u))
  PROVE  TreeInv'
<1>1. AllStores' \subseteq AllStores \cup {R}
  BY DEF AllStores, TreeInv
<1>2. storage[c] \in AllStores
  BY DEF AllStores
<1>3. \A u \in DOMAIN R : u = next \/ \E s \in AllStores : u \in DOMAIN s /\ Kept(R, s, u)
  BY <1>2
<1>4. Stores(AllStores', next')
  BY <1>1, <1>3, OneMore DEF TreeInv
<1>5. next' \in Nat /\ merging' \in Sessions \cup {Nobody} /\ DOMAIN storage' = Sessions /\ DOMAIN initial' = Sessions
  BY DEF TreeInv
<1> QED BY <1>4, <1>5 DEF TreeInv, Stores

\* A step of a merge changes the store.
LEMMA MergeInv ==
  ASSUME TreeInv, NEW R, real' = R, UNCHANGED <<storage, initial, next>>,
         merging' \in {merging, Nobody}, Good(R, next),
         NEW c \in Sessions,
         \A u \in DOMAIN R : \/ (u \in DOMAIN real /\ Kept(R, real, u))
                             \/ (u \in DOMAIN storage[c] /\ Kept(R, storage[c], u))
  PROVE  TreeInv'
<1>1. AllStores' \subseteq AllStores \cup {R}
  BY DEF AllStores, TreeInv
<1>2. storage[c] \in AllStores /\ real \in AllStores
  BY DEF AllStores
<1>3. \A u \in DOMAIN R : u = next \/ \E s \in AllStores : u \in DOMAIN s /\ Kept(R, s, u)
  BY <1>2
<1>4. Stores(AllStores', next')
  <2>1. next \in Nat /\ Stores(AllStores, next) /\ next' = next
    BY DEF TreeInv
  <2> QED BY <1>1, <1>3, <2>1, OneMore
<1>5. next' \in Nat /\ merging' \in Sessions \cup {Nobody} /\ DOMAIN storage' = Sessions /\ DOMAIN initial' = Sessions
  BY DEF TreeInv
<1> QED BY <1>4, <1>5 DEF TreeInv, Stores

\* A step that makes no storage.
LEMMA NoMore ==
  ASSUME TreeInv, AllStores' \subseteq AllStores, next' = next,
         merging' \in Sessions \cup {Nobody}, DOMAIN storage' = Sessions, DOMAIN initial' = Sessions
  PROVE  TreeInv'
<1>1. Stores(AllStores', next')
  BY DEF TreeInv, Stores
<1> QED BY <1>1 DEF TreeInv, Stores

LEMMA StoreOf ==
  ASSUME TreeInv, NEW c \in Sessions
  PROVE  /\ Good(storage[c], next) /\ Good(initial[c], next) /\ Good(real, next)
         /\ Agree(storage[c], real) /\ next \in Nat
<1>1. storage[c] \in AllStores /\ initial[c] \in AllStores /\ real \in AllStores
  BY DEF AllStores
<1> QED BY <1>1 DEF TreeInv, Stores

LEMMA AddChildInv ==
  ASSUME TreeInv, NEW c \in Sessions, NEW p, NEW name, Server!AddChild(c, p, name)
  PROVE  TreeInv'
<1> DEFINE s == storage[c]
           R == Server!With([s EXCEPT ![p].children = Append(@, next)], next,
                  [name |-> name, parent |-> p, children |-> <<>>, props |-> <<>>])
<1>1. /\ p \in DOMAIN s /\ name \notin Server!ToSet(Server!NameOf(s, Server!Children(s, p)))
      /\ next' = next + 1 /\ storage' = [storage EXCEPT ![c] = R]
      /\ UNCHANGED <<real, initial, merging>>
  BY DEF Server!AddChild, Server!Command, Server!merger
<1>2. Good(s, next) /\ next \in Nat
  BY StoreOf
<1>3. Good(R, next + 1) /\ \A u \in DOMAIN R : u = next \/ (u \in DOMAIN s /\ Kept(R, s, u))
  <2> HIDE DEF s
  <2> QED BY <1>1, <1>2, AddGood
<1> HIDE DEF R
<1> QED BY <1>1, <1>3, CommandInv

LEMMA PropertyInv ==
  ASSUME TreeInv, NEW c \in Sessions, NEW u, NEW ps, u \in DOMAIN storage[c],
         Server!Command(c, [storage[c] EXCEPT ![u].props = ps]), next' = next
  PROVE  TreeInv'
<1> DEFINE R == [storage[c] EXCEPT ![u].props = ps]
<1>1. storage' = [storage EXCEPT ![c] = R] /\ UNCHANGED <<real, initial, merging>>
  BY DEF Server!Command, Server!merger
<1>2. /\ Good(R, next) /\ \A v \in DOMAIN storage[c] : Kept(R, storage[c], v)
      /\ DOMAIN R = DOMAIN storage[c]
  BY StoreOf, PropsGood
<1> HIDE DEF R
<1> QED BY <1>1, <1>2, CommandInv

LEMMA RemoveNodeInv ==
  ASSUME TreeInv, NEW c \in Sessions, NEW u, Server!RemoveNode(c, u)
  PROVE  TreeInv'
<1> DEFINE s == storage[c]
           t == Server!Restrict(s, DOMAIN s \ {u})
           p == s[u].parent
           R == [t EXCEPT ![p].children = Server!Without(@, u)]
<1>1. /\ u \in DOMAIN s \ {0} /\ UNCHANGED <<real, initial, merging, next>>
      /\ storage' = [storage EXCEPT ![c] = IF p \in DOMAIN t THEN R ELSE t]
  BY DEF Server!RemoveNode, Server!Command, Server!merger, Server!Root
<1>2. Good(s, next)
  BY StoreOf
<1>3. /\ DOMAIN t = DOMAIN s \ {u} /\ \A v \in DOMAIN t : t[v] = s[v]
      /\ p \notin DOMAIN t => Good(t, next)
      /\ p \in DOMAIN t => Good(R, next)
  <2> HIDE DEF s
  <2>1. LeavesGood(s, next, u)
    BY <1>1, <1>2, RemovedGood
  <2> HIDE DEF t, p, R
  <2> QED BY ONLY <2>1 DEF LeavesGood, t, p, R
<1>4. CASE p \notin DOMAIN t
  <2>1. \A v \in DOMAIN t : v \in DOMAIN s /\ Kept(t, s, v)
    BY <1>3 DEF Kept
  <2> HIDE DEF t, p, R
  <2> QED BY <1>1, <1>3, <1>4, <2>1, CommandInv
<1>5. CASE p \in DOMAIN t
  <2>1. DOMAIN R = DOMAIN t /\ \A v \in DOMAIN t \ {p} : R[v] = t[v]
    OBVIOUS
  <2>2. Server!IsNode(s[p])
    BY <1>2, <1>3, <1>5 DEF Good
  <2>3. R[p].name = t[p].name /\ R[p].parent = t[p].parent
    <3>1. t[p] = s[p] /\ R[p] = [t[p] EXCEPT !.children = Server!Without(@, u)]
      BY <1>3, <1>5
    <3> HIDE DEF R, t, s, p
    <3> QED BY ONLY <3>1, <2>2 DEF Server!IsNode
  <2> HIDE DEF R, t
  <2>4. \A v \in DOMAIN R : v \in DOMAIN s /\ Kept(R, s, v)
    BY <1>3, <2>1, <2>3 DEF Kept
  <2> HIDE DEF p
  <2> QED BY <1>1, <1>3, <1>5, <2>4, CommandInv
<1> QED BY <1>4, <1>5

LEMMA ReorderChildrenInv ==
  ASSUME TreeInv, NEW c \in Sessions, NEW u, NEW i \in 1..MaxUUID, NEW j \in 1..MaxUUID,
         Server!ReorderChildren(c, u, i, j)
  PROVE  TreeInv'
<1> DEFINE s == storage[c]
           l == s[u].children
           k == Server!InsertAt(Server!RemoveAt(l, i), j, l[i])
           R == [s EXCEPT ![u].children = k]
<1>1. /\ u \in DOMAIN s /\ i \in DOMAIN l /\ j < i
      /\ UNCHANGED <<real, initial, merging, next>> /\ storage' = [storage EXCEPT ![c] = R]
  BY DEF Server!ReorderChildren, Server!Command, Server!merger, Server!Children
<1>2. Good(s, next)
  BY StoreOf
<1>3. Fits(s, u, l)
  BY <1>1, <1>2 DEF Good
<1> HIDE DEF l
<1>4. l \in Seq(DOMAIN s) /\ DOMAIN l = 1..Len(l) /\ Len(l) \in Nat
  BY <1>3, FitsIn
<1>5. j \in 1..Len(l) /\ i \in 1..Len(l)
  BY <1>1, <1>4
<1>6. Fits(s, u, k)
  BY <1>1, <1>3, <1>4, <1>5, ShiftedChosen, FitsChosen
<1> HIDE DEF k
<1>7. Good(R, next) /\ DOMAIN R = DOMAIN s /\ \A v \in DOMAIN s : Kept(R, s, v)
  BY <1>1, <1>2, <1>6, ChildrenGood
<1> HIDE DEF R
<1> QED BY <1>1, <1>7, CommandInv

LEMMA MergeNodeInv == TreeInv /\ Server!MergeNode => TreeInv'
<1> SUFFICES ASSUME TreeInv, Server!MergeNode PROVE TreeInv'
  OBVIOUS
<1> DEFINE c == merging
           u == Head(todo)
           ini == initial[c]
           cur == storage[c]
           lini == ini[u].children
           l == Server!MergeChildren(lini, cur[u].children, real[u].children)
           moved == Server!ToSet(l) \ Server!ToSet(real[u].children)
<1>1. c \in Sessions
  BY DEF Server!MergeNode, TreeInv
<1>2. Good(cur, next) /\ Good(ini, next) /\ Good(real, next) /\ Agree(cur, real)
  BY <1>1, StoreOf
<1>3. CASE UNCHANGED real /\ \E error : Server!Raise(error)
  <2>1. UNCHANGED <<real, storage, initial, next>> /\ merging' = Nobody
    BY <1>3 DEF Server!Raise
  <2> QED BY <2>1, NoMore DEF AllStores, TreeInv
<1>4. ASSUME NEW ps, NEW error, Server!Raise(error), u \in DOMAIN real,
             real' = [real EXCEPT ![u].props = ps]
      PROVE  TreeInv'
  <2> DEFINE R == [real EXCEPT ![u].props = ps]
  <2>1. UNCHANGED <<storage, initial, next>> /\ merging' = Nobody /\ real' = R
    BY <1>4 DEF Server!Raise
  <2>2. DOMAIN R = DOMAIN real
    OBVIOUS
  <2> HIDE DEF u
  <2>3. Good(R, next) /\ \A v \in DOMAIN R : v \in DOMAIN real /\ Kept(R, real, v)
    BY <1>2, <1>4, <2>2, PropsGood
  <2> HIDE DEF R
  <2> QED BY <1>1, <2>1, <2>3, MergeInv
<1>5. ASSUME NEW ps, u \in DOMAIN ini \cap DOMAIN cur \cap DOMAIN real,
             Server!Mergeable(cur, real, lini, cur[u].children, real[u].children),
             Server!Below(cur, moved) \cap DOMAIN real = {},
             real' = Server!MoveUUIDs(cur, moved, [[real EXCEPT ![u].props = ps] EXCEPT ![u].children = l]),
             UNCHANGED <<next, storage, initial, merging>>
      PROVE  TreeInv'
  <2> DEFINE R == Server!MoveUUIDs(cur, moved, [[real EXCEPT ![u].props = ps] EXCEPT ![u].children = l])
  <2>1. lini \in Seq(Nat)
    <3>1. lini \in Seq(DOMAIN ini) /\ DOMAIN ini \subseteq 0..(next - 1)
      BY <1>2, <1>5, FitsIn DEF Good
    <3>2. DOMAIN ini \subseteq Nat
      BY <3>1
    <3> HIDE DEF lini, ini
    <3> QED BY <3>1, <3>2
  <2>2. /\ Good(R, next)
        /\ \A v \in DOMAIN R : \/ (v \in DOMAIN real /\ Kept(R, real, v))
                               \/ (v \in DOMAIN cur /\ Kept(R, cur, v))
    <3>1. PICK k : k = lini
      OBVIOUS
    <3>2. PICK m : m = l
      OBVIOUS
    <3>3. PICK b : b = moved
      OBVIOUS
    <3>4. MergedNode(R, real, cur, u, k, ps, m, b, next)
      BY <1>2, <1>5, <2>1, <3>1, <3>2, <3>3 DEF MergedNode
    <3> HIDE DEF R, lini, l, moved, u, cur
    <3> QED BY <3>4, MergedGood
  <2>3. real' = R /\ UNCHANGED <<storage, initial, next, merging>>
    BY <1>5
  <2> HIDE DEF R
  <2> QED BY <1>1, <2>2, <2>3, MergeInv
<1>6. CASE ~(u \in DOMAIN ini \cap DOMAIN cur \cap DOMAIN real)
  <2>1. UNCHANGED real /\ Server!Raise("error")
    BY <1>6 DEF Server!MergeNode
  <2> QED BY <1>3, <2>1
<1>7. CASE u \in DOMAIN ini \cap DOMAIN cur \cap DOMAIN real
  <2>1. PICK ps :
          LET new == [real EXCEPT ![u].props = ps]
          IN \/ (\E error : Server!Raise(error)) /\ real' = new
             \/ /\ Server!Mergeable(cur, real, lini, cur[u].children, real[u].children)
                /\ Server!Below(cur, moved) \cap DOMAIN real = {}
                /\ real' = Server!MoveUUIDs(cur, moved, [new EXCEPT ![u].children = l])
                /\ UNCHANGED <<next, Server!session, merging>>
    BY <1>7 DEF Server!MergeNode, Server!Children
  <2>2. CASE (\E error : Server!Raise(error)) /\ real' = [real EXCEPT ![u].props = ps]
    BY <1>4, <1>7, <2>2
  <2>3. CASE ~((\E error : Server!Raise(error)) /\ real' = [real EXCEPT ![u].props = ps])
    <3>1. /\ Server!Mergeable(cur, real, lini, cur[u].children, real[u].children)
          /\ Server!Below(cur, moved) \cap DOMAIN real = {}
          /\ real' = Server!MoveUUIDs(cur, moved, [[real EXCEPT ![u].props = ps] EXCEPT ![u].children = l])
          /\ UNCHANGED <<next, Server!session, merging>>
      BY <2>1, <2>3, Zenon
    <3>2. UNCHANGED <<next, storage, initial, merging>>
      BY <3>1 DEF Server!session
    <3> QED BY <1>5, <1>7, <3>1, <3>2, Zenon
  <2> QED BY <2>2, <2>3
<1> QED BY <1>6, <1>7

LEMMA TreeInit == PartsInit => TreeInv
<1> SUFFICES ASSUME PartsInit PROVE TreeInv
  OBVIOUS
<1> DEFINE n == Cardinality(DOMAIN Store)
<1>1. \A S : Server!Cardinality(S) = Cardinality(S)
  BY Zenon DEF Server!Cardinality, Cardinality
<1>2. /\ real = Store /\ next = n /\ merging = Nobody
      /\ storage = [c \in Sessions |-> Store] /\ initial = [c \in Sessions |-> Store]
  BY <1>1 DEF PartsInit, Server!Init
<1>3. n \in Nat
  BY StoreAssumption, FS_CardinalityType
<1>4. Good(Store, n)
  <2>1. DOMAIN Store = 0..(n - 1) /\ Store = [u \in DOMAIN Store |-> Store[u]]
    BY StoreAssumption
  <2>2. 0 \in DOMAIN Store /\ \A u \in DOMAIN Store : Server!IsNode(Store[u]) /\ Fits(Store, u, Store[u].children)
    BY StoreAssumption, TreeFits
  <2> HIDE DEF n
  <2> QED BY <2>1, <2>2 DEF Good
<1> HIDE DEF n
<1>5. AllStores \subseteq {Store}
  BY <1>2 DEF AllStores
<1>6. Stores(AllStores, next)
  BY <1>2, <1>4, <1>5 DEF Stores, Agree
<1> QED BY <1>2, <1>3, <1>6 DEF TreeInv

LEMMA TreeStep == TreeInv /\ [PartsNext]_parts => TreeInv'
<1> SUFFICES ASSUME TreeInv, [PartsNext]_parts PROVE TreeInv'
  OBVIOUS
<1>1. CASE UNCHANGED <<real, initial, storage, next, merging>>
  BY <1>1, NoMore DEF AllStores, TreeInv
<1>2. ASSUME NEW c \in Sessions, Server!SendCommands(c) PROVE TreeInv'
  <2>1. ASSUME NEW u, NEW k, NEW v, Server!ModifyProperties(c, u, k, v) PROVE TreeInv'
    <3>1. u \in DOMAIN storage[c] /\ next' = next
      BY <2>1 DEF Server!ModifyProperties
    <3>2. Server!Command(c, [storage[c] EXCEPT ![u].props = Server!With(@, k, v)])
      BY <2>1 DEF Server!ModifyProperties
    <3> QED BY <3>1, <3>2, PropertyInv
  <2>2. ASSUME NEW u, NEW k, Server!DeleteProperty(c, u, k) PROVE TreeInv'
    <3>1. u \in DOMAIN storage[c] /\ next' = next
      BY <2>2 DEF Server!DeleteProperty
    <3>2. Server!Command(c, [storage[c] EXCEPT ![u].props = Server!Restrict(@, DOMAIN @ \ {k})])
      BY <2>2 DEF Server!DeleteProperty
    <3> QED BY <3>1, <3>2, PropertyInv
  <2> QED BY <1>2, <2>1, <2>2, AddChildInv, RemoveNodeInv, ReorderChildrenInv DEF Server!SendCommands
<1>3. ASSUME NEW c \in Sessions, Server!Prepare(c) PROVE TreeInv'
  <2>1. merging' = c /\ UNCHANGED <<real, initial, storage, next>>
    BY <1>3 DEF Server!Prepare, Server!session
  <2> QED BY <2>1, NoMore DEF AllStores, TreeInv
<1>4. ASSUME NEW c \in Sessions, Server!Begin(c), UNCHANGED <<real, next>>, merging' \in {merging, Nobody}
      PROVE  TreeInv'
  <2>1. /\ initial' = [initial EXCEPT ![c] = real] /\ storage' = [storage EXCEPT ![c] = real]
        /\ DOMAIN storage = Sessions /\ DOMAIN initial = Sessions /\ merging \in Sessions \cup {Nobody}
    BY <1>4 DEF Server!Begin, TreeInv
  <2>2. AllStores' \subseteq AllStores
    BY <1>4, <2>1 DEF AllStores
  <2> QED BY <1>4, <2>1, <2>2, NoMore
<1>5. ASSUME NEW c \in Sessions, Server!Abort(c) PROVE TreeInv'
  BY <1>4, <1>5 DEF Server!Abort, Server!merger
<1>6. CASE Server!Merged
  BY <1>4, <1>6 DEF Server!Merged, TreeInv
<1>7. CASE UNCHANGED fake
  BY <1>1, <1>7 DEF fake
<1>8. UNCHANGED fake \/ Server!Next
  BY DEF PartsNext, Batching, Replying, Reordering, Assigning, Merging, parts
<1> QED BY <1>2, <1>3, <1>5, <1>6, <1>7, <1>8, MergeNodeInv DEF Server!Next

\* Whatever the sessions do, however their transactions are merged, and wherever a
\* merge stops, the store and every session's copy of it are trees: of any store,
\* and any number of sessions, nodes, commands and prepares (Merger, _moveUUID).
THEOREM StoreStaysATree == PartsSpec => []StoreIsATree
<1>1. TreeInv => StoreIsATree
  <2> SUFFICES ASSUME TreeInv, NEW s \in {real} \cup Server!Range(storage)
               PROVE  Server!IsTree(s)
    BY DEF StoreIsATree, Server!StoreIsATree
  <2>1. s \in AllStores
    BY DEF AllStores, TreeInv, Server!Range
  <2>2. 0 \in DOMAIN s /\ \A u \in DOMAIN s : Fits(s, u, s[u].children)
    BY <2>1 DEF TreeInv, Stores, Good
  <2> QED BY <2>2, TreeFits
<1> QED BY TreeInit, TreeStep, <1>1, PTL DEF PartsSpec

-----------------------------------------------------------------------------
(* SpecialAttributes: attributes and properties agree, and show what was    *)
(* assigned, if the application is careful.                                 *)

\* What Plain and ToProp make of an entry, and what ToAttrs makes of it.
PlainEntry(e)  == [e EXCEPT !.what = @ \ {""}]
MappedEntry(e) == [e EXCEPT !.what = IF @ = {} THEN {""} ELSE @]

-----------------------------------------------------------------------------
(* Entries and the maps.                                                   *)

\* The maps change what an entry says and nothing else.
LEMMA EntryMaps ==
  ASSUME NEW e \in Entries
  PROVE  /\ PlainEntry(e) \in Entries /\ MappedEntry(e) \in Entries
         /\ PlainEntry(e).kind = e.kind /\ PlainEntry(e).who = e.who
         /\ MappedEntry(e).who = e.who
         /\ PlainEntry(PlainEntry(e)) = PlainEntry(e)
         /\ PlainEntry(MappedEntry(e)) = PlainEntry(e)
<1>1. /\ PlainEntry(e) \in Entries /\ MappedEntry(e) \in Entries
      /\ PlainEntry(e).kind = e.kind /\ PlainEntry(e).who = e.who
      /\ MappedEntry(e).who = e.who
  BY DEF PlainEntry, MappedEntry, Entries
<1>2. (e.what \ {""}) \ {""} = e.what \ {""}
  OBVIOUS
<1>3. (IF e.what = {} THEN {""} ELSE e.what) \ {""} = e.what \ {""}
  OBVIOUS
<1>4. PlainEntry(PlainEntry(e)) = PlainEntry(e)
  BY <1>2 DEF PlainEntry, Entries
<1>5. PlainEntry(MappedEntry(e)) = PlainEntry(e)
  BY <1>3 DEF PlainEntry, MappedEntry, Entries
<1> QED BY <1>1, <1>4, <1>5

\* The three maps go over the entries.
LEMMA MapsAreImages ==
  ASSUME NEW p, NEW es
  PROVE  /\ Plain(es) = {PlainEntry(e) : e \in es}
         /\ ToProp(p, es) = {PlainEntry(e) : e \in es}
         /\ ToAttrs(p, es) = {MappedEntry(e) : e \in es}
BY DEF Plain, ToProp, ToAttrs, PlainEntry, MappedEntry

\* A text is again one, and says the same after a map.
LEMMA MapsKeep ==
  ASSUME NEW p, NEW es \in SUBSET Entries
  PROVE  /\ ToProp(p, es) \in SUBSET Entries /\ ToAttrs(p, es) \in SUBSET Entries
         /\ Plain(ToProp(p, es)) = Plain(es) /\ Plain(ToAttrs(p, es)) = Plain(es)
<1>1. ToProp(p, es) \in SUBSET Entries /\ ToAttrs(p, es) \in SUBSET Entries
  BY EntryMaps, MapsAreImages
<1>2. Plain(ToProp(p, es)) = {PlainEntry(PlainEntry(e)) : e \in es}
  BY MapsAreImages
<1>3. Plain(ToAttrs(p, es)) = {PlainEntry(MappedEntry(e)) : e \in es}
  BY MapsAreImages
<1>4. \A e \in es : /\ PlainEntry(PlainEntry(e)) = PlainEntry(e)
                    /\ PlainEntry(MappedEntry(e)) = PlainEntry(e)
  BY EntryMaps
<1> QED BY <1>1, <1>2, <1>3, <1>4, MapsAreImages

\* A map does not touch names.
LEMMA MapsKeepLegal ==
  ASSUME NEW p, NEW es \in SUBSET Entries, Legal(es)
  PROVE  Legal(ToProp(p, es)) /\ Legal(ToAttrs(p, es))
BY EntryMaps, MapsAreImages DEF Legal

-----------------------------------------------------------------------------
(* Assignments.                                                            *)

\* What is assigned are entries of one of the two properties.
LEMMA EntryType ==
  ASSUME NEW k \in {"user", "group", "list", "tuple"}, NEW w \in Who, NEW rs \in SUBSET Roles
  PROVE  Entry(k, w, rs) \in Entries
<1>1. "localroles" \in Properties /\ "security" \in Properties
  BY DEF Properties
<1>2. KindsOf["localroles"] = {"user", "group"} /\ KindsOf["security"] = {"list", "tuple"}
  BY DEF KindsOf
<1>3. k \in UNION {KindsOf[q] : q \in Properties}
  BY <1>1, <1>2
<1> QED BY <1>3 DEF Entry, Entries

LEMMA MapsType ==
  ASSUME NEW k \in {"user", "group"}, NEW es \in Maps(k)
  PROVE  es \in SUBSET Entries
<1>1. \A e \in es : \E w \in Who, rs \in SUBSET Roles : e = Entry(k, w, rs)
  BY SMT DEF Maps
<1> QED BY <1>1, EntryType

LEMMA PermissionType ==
  ASSUME NEW w \in Who, NEW es \in Permission(w)
  PROVE  es \in SUBSET Entries
<1>1. es = {} \/ \E k \in {"list", "tuple"}, rs \in SUBSET Roles : es = {Entry(k, w, rs)}
  BY SMT DEF Permission, Entry
<1>2. \A k \in {"list", "tuple"}, rs \in SUBSET Roles : Entry(k, w, rs) \in Entries
  BY EntryType
<1> QED BY <1>1, <1>2

LEMMA AssignmentType ==
  ASSUME NEW a \in Assignments
  PROVE  a.prop \in Properties /\ a.new \in SUBSET Entries
<1>1. CASE a \in [prop : {"localroles"}, old : {{"user"} \X Who}, new : Maps("user")]
  <2>1. a.new \in Maps("user") /\ a.prop = "localroles"
    BY <1>1
  <2> QED BY <2>1, MapsType DEF Properties
<1>2. CASE a \in [prop : {"localroles"}, old : {{"group"} \X Who}, new : Maps("group")]
  <2>1. a.new \in Maps("group") /\ a.prop = "localroles"
    BY <1>2
  <2> QED BY <2>1, MapsType DEF Properties
<1>3. CASE \E w \in Who : a \in [prop : {"security"}, old : {{"list", "tuple"} \X {w}}, new : Permission(w)]
  <2>1. PICK w \in Who : a \in [prop : {"security"}, old : {{"list", "tuple"} \X {w}}, new : Permission(w)]
    BY <1>3
  <2>2. a.new \in Permission(w) /\ a.prop = "security"
    BY <2>1
  <2> QED BY <2>2, PermissionType DEF Properties
<1> QED BY <1>1, <1>2, <1>3 DEF Assignments

LEMMA AssignedType ==
  ASSUME NEW as \in SUBSET Entries, NEW a \in Assignments
  PROVE  /\ Assigned(as, a) \in SUBSET Entries
         /\ Legal(as) /\ Legal(a.new) => Legal(Assigned(as, a))
BY AssignmentType DEF Assigned, Legal

\* An assignment goes by kind and name: equal texts stay equal.
LEMMA AssignedKeeps ==
  ASSUME NEW as \in SUBSET Entries, NEW bs \in SUBSET Entries, NEW a \in Assignments,
         Plain(as) = Plain(bs)
  PROVE  Plain(Assigned(as, a)) = Plain(Assigned(bs, a))
<1>1. ASSUME NEW cs \in SUBSET Entries, NEW ds \in SUBSET Entries, Plain(cs) = Plain(ds)
      PROVE  Plain(Assigned(cs, a)) \subseteq Plain(Assigned(ds, a))
  <2>0. \A es : Plain(es) = {PlainEntry(e) : e \in es}
    BY MapsAreImages, Zenon
  <2> SUFFICES ASSUME NEW e \in Assigned(cs, a)
               PROVE  PlainEntry(e) \in Plain(Assigned(ds, a))
    BY <2>0
  <2>1. CASE e \in a.new
    BY <2>0, <2>1 DEF Assigned
  <2>2. CASE e \in cs /\ <<e.kind, e.who>> \notin a.old
    <3>1. PlainEntry(e) \in Plain(cs)
      BY <2>0, <2>2
    <3>2. PICK f \in ds : PlainEntry(f) = PlainEntry(e)
      BY <1>1, <2>0, <3>1
    <3>3. f.kind = e.kind /\ f.who = e.who
      BY <3>2, <1>1, <2>2, EntryMaps
    <3>4. f \in Assigned(ds, a)
      BY <2>2, <3>3 DEF Assigned
    <3> QED BY <2>0, <3>2, <3>4
  <2> QED BY <2>1, <2>2 DEF Assigned
<1>2. Plain(Assigned(as, a)) \subseteq Plain(Assigned(bs, a))
  BY ONLY <1>1, Plain(as) = Plain(bs), as \in SUBSET Entries, bs \in SUBSET Entries
<1>3. Plain(Assigned(bs, a)) \subseteq Plain(Assigned(as, a))
  BY ONLY <1>1, Plain(as) = Plain(bs), as \in SUBSET Entries, bs \in SUBSET Entries
<1> QED BY <1>2, <1>3

\* The application sets texts of entries.
LEMMA TextType ==
  ASSUME NEW p \in Properties, NEW text \in Texts(p)
  PROVE  text \in SUBSET Entries
<1>1. text \in Maps("user") \/ \E w \in Who : text \in Permission(w)
  BY DEF Texts
<1> QED BY <1>1, MapsType, PermissionType

-----------------------------------------------------------------------------
(* The invariant.  A document of a careful application can always be loaded  *)
(* and always be saved.                                                     *)

LEMMA InitIInv == Init => IInv
<1> SUFFICES ASSUME Init PROVE IInv
  OBVIOUS
<1>1. TypeOK
  BY DEF Init, TypeOK, Texted, Nothing
<1>2. AllLegal(saved) /\ AllLegal(committed)
  BY DEF Init, Nothing, AllLegal, Legal
<1>3. Same(wanted, saved)
  BY DEF Init, Same
<1> QED BY <1>1, <1>2, <1>3 DEF Init, IInv, Loadable, FailedIsUndone, Untouched, GhostKeeps,
                               AttributesAgree, AssignedIsKept

\* A ghost that is loaded shows what is saved, which is what was assigned.
LEMMA LoadIInv ==
  ASSUME IInv, Load
  PROVE  IInv'
<1>1. /\ st' = "uptodate" /\ attrs' = Loaded /\ props' = saved
      /\ UNCHANGED <<failed, saved, committed, modified, wanted, sets>>
      /\ ~failed /\ st = "ghost"
  BY DEF Load, IInv, Loadable, Using
<1>2. \A p \in Properties : /\ saved[p] \in SUBSET Entries /\ attrs'[p] = ToAttrs(p, saved[p])
                            /\ Legal(saved[p])
  BY <1>1 DEF IInv, TypeOK, Texted, Loaded, Loadable, AllLegal
<1>3. attrs' \in Texted
  BY <1>1, <1>2, MapsKeep DEF Loaded, Texted
<1>4. AllLegal(attrs')
  BY <1>2, MapsKeepLegal DEF AllLegal
<1>5. Same(attrs', saved)
  BY <1>2, MapsKeep DEF Same
<1>6. Same(wanted, saved)
  BY <1>1 DEF IInv, GhostKeeps
<1>7. Same(attrs', props') /\ Same(attrs', wanted')
  BY <1>1, <1>5, <1>6 DEF Same
<1> QED BY <1>1, <1>3, <1>4, <1>7 DEF IInv, TypeOK, Loadable, FailedIsUndone, Untouched, GhostKeeps,
                                     AttributesAgree, AssignedIsKept, AllLegal

\* What is not changed is what is saved.
LEMMA DeactivateIInv ==
  ASSUME IInv, Deactivate
  PROVE  IInv'
<1>1. /\ st' = "ghost" /\ attrs' = Nothing /\ props' = Nothing
      /\ UNCHANGED <<failed, saved, committed, modified, wanted, sets>>
      /\ ~failed /\ st = "uptodate"
  BY DEF Deactivate, Using
<1>2. Nothing \in Texted
  BY DEF Nothing, Texted
<1>3. Same(wanted, saved)
  BY <1>1 DEF IInv, Untouched, AttributesAgree, AssignedIsKept, Same
<1> QED BY <1>1, <1>2, <1>3 DEF IInv, TypeOK, Loadable, FailedIsUndone, Untouched, GhostKeeps,
                               AttributesAgree, AssignedIsKept, AllLegal, Same

\* setProperty of the connection leaves the property that was set, and the object
\* changed if it is another one.
LEMMA SetSets ==
  ASSUME IInv, st # "ghost", NEW p \in Properties, NEW text \in SUBSET Entries, Set(p, text)
  PROVE  /\ props' = [props EXCEPT ![p] = text] /\ props' \in Texted
         /\ st' \in {"uptodate", "changed"}
         /\ st' = "uptodate" => st = "uptodate" /\ props' = props
         /\ text # props[p] => st' = "changed"
         /\ st = "changed" => st' = "changed"
<1>1. props \in Texted /\ st \in {"uptodate", "changed"}
  BY DEF IInv, TypeOK
<1>2. CASE text = props[p]
  <2>1. props' = props /\ st' = st
    BY <1>2 DEF Set
  <2>2. [props EXCEPT ![p] = text] = props
    BY <1>1, <1>2 DEF Texted
  <2> QED BY <1>1, <1>2, <2>1, <2>2
<1>3. CASE text # props[p]
  <2>1. props' = [props EXCEPT ![p] = text] /\ st' = "changed"
    BY <1>3 DEF Set
  <2>2. props' \in Texted
    BY <1>1, <2>1 DEF Texted
  <2> QED BY <1>3, <2>1, <2>2
<1> QED BY <1>2, <1>3

\* An attribute that is assigned is mapped to its property, and both to what is
\* wanted.
LEMMA AssignIInv ==
  ASSUME IInv, Careful, NEW a \in Assignments, Assign(a)
  PROVE  IInv'
<1> DEFINE p == a.prop
           text == ToProp(p, Assigned(attrs[p], a))
<1>1. /\ p \in Properties /\ a.new \in SUBSET Entries /\ Legal(a.new) /\ p \in Fields
      /\ ~failed /\ st # "ghost"
      /\ attrs' = [attrs EXCEPT ![p] = Assigned(attrs[p], a)]
      /\ wanted' = [wanted EXCEPT ![p] = Assigned(wanted[p], a)]
      /\ sets' = sets + 1
      /\ UNCHANGED <<saved, committed, modified>>
  BY AssignmentType DEF Assign, Using, Bounded, Allowed
<1>2. /\ attrs \in Texted /\ props \in Texted /\ wanted \in Texted
      /\ attrs[p] \in SUBSET Entries /\ wanted[p] \in SUBSET Entries
      /\ AllLegal(attrs) /\ AllLegal(props) /\ Same(attrs, props) /\ Same(attrs, wanted)
  BY <1>1 DEF IInv, TypeOK, Texted, Loadable, AttributesAgree, AssignedIsKept
<1>3. attrs'[p] = Assigned(attrs[p], a) /\ wanted'[p] = Assigned(wanted[p], a)
  BY <1>1, <1>2 DEF Texted
<1>4. HasField(p, text)
  BY <1>1 DEF HasField
<1>5. Set(p, text) /\ UNCHANGED failed
  BY <1>3, <1>4 DEF Assign
<1>6. Assigned(attrs[p], a) \in SUBSET Entries /\ Assigned(wanted[p], a) \in SUBSET Entries
  BY <1>2, AssignedType
<1>7. text \in SUBSET Entries
  BY <1>6, MapsKeep
<1>8. /\ props' = [props EXCEPT ![p] = text] /\ props' \in Texted
      /\ st' \in {"uptodate", "changed"}
      /\ st' = "uptodate" => st = "uptodate" /\ props' = props
  BY <1>1, <1>5, <1>7, SetSets
<1>9. TypeOK'
  <2>1. attrs' \in Texted /\ wanted' \in Texted
    BY <1>1, <1>2, <1>6 DEF Texted
  <2> QED BY <1>1, <1>5, <1>8, <2>1 DEF IInv, TypeOK
<1>10. AllLegal(attrs') /\ AllLegal(props')
  <2>1. Legal(Assigned(attrs[p], a))
    BY <1>1, <1>2, AssignedType DEF AllLegal
  <2>2. Legal(text)
    BY <2>1, <1>6, MapsKeepLegal
  <2> QED BY <1>1, <1>2, <1>8, <2>1, <2>2 DEF AllLegal, Texted
<1>11. Same(attrs', props')
  <2>1. Plain(text) = Plain(Assigned(attrs[p], a))
    BY <1>6, MapsKeep
  <2>2. ASSUME NEW q \in Properties PROVE Plain(attrs'[q]) = Plain(props'[q])
    BY <1>1, <1>2, <1>8, <2>1 DEF Same, Texted
  <2> QED BY <2>2 DEF Same
<1>12. Same(attrs', wanted')
  <2>1. Plain(Assigned(attrs[p], a)) = Plain(Assigned(wanted[p], a))
    BY <1>1, <1>2, AssignedKeeps DEF Same
  <2>2. ASSUME NEW q \in Properties PROVE Plain(attrs'[q]) = Plain(wanted'[q])
    BY <1>1, <1>2, <2>1 DEF Same, Texted
  <2> QED BY <2>2 DEF Same
<1>13. Untouched' /\ FailedIsUndone'
  BY <1>1, <1>5, <1>8 DEF IInv, Untouched, FailedIsUndone
<1>14. Loadable'
  BY <1>1, <1>10 DEF IInv, Loadable, AllLegal
<1> QED BY <1>8, <1>9, <1>11, <1>12, <1>13, <1>14 DEF IInv, GhostKeeps, AttributesAgree, AssignedIsKept, Same

\* A property that is set is mapped to its attributes; a text that is none
\* raises, and is undone by abort.
LEMMA SetPropertyIInv ==
  ASSUME IInv, NEW p \in Properties, NEW text \in Texts(p), SetProperty(p, text)
  PROVE  IInv'
<1>1. /\ text \in SUBSET Entries /\ ~failed /\ st # "ghost"
      /\ Set(p, text) /\ sets' = sets + 1
      /\ UNCHANGED <<saved, committed, modified>>
  BY TextType DEF SetProperty, Using, Bounded
<1>2. /\ attrs \in Texted /\ props \in Texted /\ wanted \in Texted
      /\ AllLegal(attrs) /\ AllLegal(props) /\ Same(attrs, props) /\ Same(attrs, wanted)
  BY <1>1 DEF IInv, TypeOK, Loadable, AttributesAgree, AssignedIsKept
<1>3. /\ props' = [props EXCEPT ![p] = text] /\ props' \in Texted
      /\ st' \in {"uptodate", "changed"}
      /\ st' = "uptodate" => st = "uptodate" /\ props' = props
      /\ text # props[p] => st' = "changed"
  BY <1>1, SetSets
<1>4. CASE Legal(text)
  <2>1. /\ attrs' = [attrs EXCEPT ![p] = ToAttrs(p, text)]
        /\ wanted' = [wanted EXCEPT ![p] = ToAttrs(p, text)]
        /\ UNCHANGED failed
    BY <1>4 DEF SetProperty, Mapped
  <2>2. /\ ToAttrs(p, text) \in SUBSET Entries /\ Plain(ToAttrs(p, text)) = Plain(text)
        /\ Legal(ToAttrs(p, text))
    BY <1>1, <1>4, MapsKeep, MapsKeepLegal
  <2>3. TypeOK'
    <3>1. attrs' \in Texted /\ wanted' \in Texted
      BY <1>2, <2>1, <2>2 DEF Texted
    <3> QED BY <1>1, <1>3, <2>1, <3>1 DEF IInv, TypeOK
  <2>4. AllLegal(attrs') /\ AllLegal(props')
    BY <1>2, <1>3, <1>4, <2>1, <2>2 DEF AllLegal, Texted
  <2>5. Same(attrs', props') /\ Same(attrs', wanted')
    <3>1. ASSUME NEW q \in Properties
          PROVE  Plain(attrs'[q]) = Plain(props'[q]) /\ Plain(attrs'[q]) = Plain(wanted'[q])
      BY <1>2, <1>3, <2>1, <2>2 DEF Same, Texted
    <3> QED BY <3>1 DEF Same
  <2>6. Untouched' /\ FailedIsUndone'
    BY <1>1, <1>3, <2>1 DEF IInv, Untouched, FailedIsUndone
  <2>7. Loadable'
    BY <1>1, <2>4 DEF IInv, Loadable, AllLegal
  <2> QED BY <1>3, <2>3, <2>5, <2>6, <2>7 DEF IInv, GhostKeeps, AttributesAgree, AssignedIsKept, Same
<1>5. CASE ~Legal(text)
  <2>1. failed' = TRUE /\ UNCHANGED <<attrs, wanted>>
    BY <1>5 DEF SetProperty, Raise
  <2>2. st' = "changed"
    BY <1>2, <1>3, <1>5 DEF AllLegal
  <2> QED BY <1>1, <1>3, <2>1, <2>2 DEF IInv, TypeOK, Loadable, FailedIsUndone, Untouched, GhostKeeps,
                                        AttributesAgree, AssignedIsKept, AllLegal
<1> QED BY <1>4, <1>5

\* What is saved is what is shown.
LEMMA SavepointIInv ==
  ASSUME IInv, Savepoint
  PROVE  IInv'
<1>1. /\ st = "changed" /\ ~failed
      /\ st' = "uptodate" /\ saved' = props /\ modified' = TRUE
      /\ UNCHANGED <<attrs, props, committed, wanted, failed, sets>>
  BY DEF Savepoint, Using
<1> QED BY <1>1 DEF IInv, TypeOK, Loadable, FailedIsUndone, Untouched, GhostKeeps,
                   AttributesAgree, AssignedIsKept, AllLegal, Same

LEMMA CommitIInv ==
  ASSUME IInv, Commit
  PROVE  IInv'
<1>1. /\ committed' = saved /\ modified' = FALSE
      /\ UNCHANGED <<st, attrs, props, saved, wanted, failed, sets>>
  BY DEF Commit
<1> QED BY <1>1 DEF IInv, TypeOK, Loadable, FailedIsUndone, Untouched, GhostKeeps,
                   AttributesAgree, AssignedIsKept, AllLegal, Same

\* A document that abort does not make a ghost was not changed since the last
\* commit.
LEMMA AbortIInv ==
  ASSUME IInv, Abort
  PROVE  IInv'
<1>1. /\ saved' = committed /\ modified' = FALSE /\ failed' = FALSE
      /\ wanted' = [p \in Properties |-> ToAttrs(p, committed[p])]
      /\ UNCHANGED <<committed, sets>>
  BY DEF Abort
<1>2. committed \in Texted /\ AllLegal(committed)
  BY DEF IInv, TypeOK, Loadable
<1>3. wanted' \in Texted /\ Same(wanted', committed)
  <2>1. \A p \in Properties : committed[p] \in SUBSET Entries
    BY <1>2 DEF Texted
  <2> QED BY <1>1, <2>1, MapsKeep DEF Texted, Same
<1>4. Loadable' <=> (st' # "ghost" => AllLegal(attrs') /\ AllLegal(props'))
  BY <1>1, <1>2 DEF Loadable, AllLegal
<1>5. CASE st = "changed" \/ modified
  <2>1. st' = "ghost" /\ attrs' = Nothing /\ props' = Nothing
    BY <1>5 DEF Abort
  <2>2. Nothing \in Texted
    BY DEF Nothing, Texted
  <2> QED BY <1>1, <1>3, <1>4, <2>1, <2>2 DEF IInv, TypeOK, FailedIsUndone, Untouched, GhostKeeps,
                                             AttributesAgree, AssignedIsKept, Same
<1>6. CASE ~(st = "changed" \/ modified)
  <2>1. UNCHANGED <<st, attrs, props>> /\ ~failed
    BY <1>6 DEF Abort, IInv, FailedIsUndone
  <2>2. saved = committed /\ (st = "ghost" \/ props = committed)
    BY <1>6 DEF IInv, Untouched, TypeOK
  <2>3. st # "ghost" => Same(attrs, wanted')
    BY <2>1, <2>2, <1>3 DEF IInv, AttributesAgree, Same
  <2> QED BY <1>1, <1>3, <1>4, <2>1, <2>2, <2>3 DEF IInv, TypeOK, Loadable, FailedIsUndone, Untouched,
                                                   GhostKeeps, AttributesAgree, AssignedIsKept, AllLegal, Same
<1> QED BY <1>5, <1>6

LEMMA NextIInv ==
  ASSUME Careful, IInv, [Next]_vars
  PROVE  IInv'
<1>1. CASE Load
  BY <1>1, LoadIInv
<1>2. CASE Deactivate
  BY <1>2, DeactivateIInv
<1>3. ASSUME NEW a \in Assignments, Assign(a) PROVE IInv'
  BY <1>3, AssignIInv
<1>4. ASSUME NEW a \in Assignments, AssignGhost(a) PROVE IInv'
  BY <1>4 DEF AssignGhost
<1>5. ASSUME NEW p \in Properties, NEW text \in Texts(p), SetProperty(p, text) PROVE IInv'
  BY <1>5, SetPropertyIInv
<1>6. CASE Savepoint
  BY <1>6, SavepointIInv
<1>7. CASE Commit
  BY <1>7, CommitIInv
<1>8. CASE Abort
  BY <1>8, AbortIInv
<1>9. CASE UNCHANGED vars
  BY <1>9 DEF vars, IInv, TypeOK, Loadable, FailedIsUndone, Untouched, GhostKeeps,
             AttributesAgree, AssignedIsKept, AllLegal, Same
<1> QED BY <1>1, <1>2, <1>3, <1>4, <1>5, <1>6, <1>7, <1>8, <1>9 DEF Next

\* An application that assigns legal names to documents it has read never meets
\* a document that cannot be loaded, or one whose changes are lost.
THEOREM Invariant ==
  ASSUME Careful
  PROVE  Spec => []IInv
<1>1. Init => IInv
  BY InitIInv
<1>2. IInv /\ [Next]_vars => IInv'
  BY NextIInv
<1> QED BY <1>1, <1>2, PTL DEF Spec

\* Attributes and properties say the same, on whichever way they were set
\* (__setattr__, setProperty and the maps of ObjectBase).
THEOREM AttributesAndPropertiesAgree ==
  ASSUME Careful
  PROVE  Spec => []AttributesAgree
<1>1. IInv => AttributesAgree
  BY DEF IInv
<1> QED BY <1>1, Invariant, PTL

\* Over any number of savepoints, commits, reloads and aborts a document shows
\* what was assigned to it (__setattr__, _loadNodeState).
THEOREM AssignmentsAreKept ==
  ASSUME Careful
  PROVE  Spec => []AssignedIsKept
<1>1. IInv => AssignedIsKept
  BY DEF IInv
<1> QED BY <1>1, Invariant, PTL

=============================================================================
