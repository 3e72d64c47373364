------------------------ MODULE TopologicalSort_proofs ------------------------
(* A sort that ends well has every type after those it inherits from, for    *)
(* every graph and every order of its dictionaries.                         *)
EXTENDS TopologicalSort, TLAPS

-----------------------------------------------------------------------------
(* Sequences.                                                              *)

\* list.append
LEMMA AppendFacts ==
  ASSUME NEW S, NEW s \in Seq(S), NEW x \in S
  PROVE  /\ Append(s, x) \in Seq(S) /\ Len(Append(s, x)) = Len(s) + 1
         /\ DOMAIN Append(s, x) = 1..(Len(s) + 1)
         /\ DOMAIN s = 1..Len(s) /\ Len(s) \in Nat
         /\ \A i \in 1..Len(s) : Append(s, x)[i] = s[i]
         /\ Append(s, x)[Len(s) + 1] = x
         /\ ToSet(Append(s, x)) = ToSet(s) \cup {x}
<1> DEFINE t == Append(s, x)
<1>1. /\ t \in Seq(S) /\ Len(t) = Len(s) + 1 /\ DOMAIN t = 1..(Len(s) + 1)
      /\ DOMAIN s = 1..Len(s) /\ Len(s) \in Nat
      /\ \A i \in 1..Len(s) : t[i] = s[i]
      /\ t[Len(s) + 1] = x
  OBVIOUS
<1>2. ToSet(t) = ToSet(s) \cup {x}
  BY <1>1 DEF ToSet
<1> QED BY <1>1, <1>2

\* The visit that ends leaves the stack.
LEMMA FrontFacts ==
  ASSUME NEW S, NEW s \in Seq(S), s # <<>>
  PROVE  /\ Front(s) \in Seq(S) /\ Len(s) \in Nat \ {0} /\ DOMAIN s = 1..Len(s)
         /\ Len(Front(s)) = Len(s) - 1 /\ DOMAIN Front(s) = 1..(Len(s) - 1)
         /\ \A i \in 1..(Len(s) - 1) : Front(s)[i] = s[i]
         /\ Last(s) = s[Len(s)] /\ Last(s) \in S
<1>1. Len(s) \in Nat \ {0} /\ DOMAIN s = 1..Len(s)
  OBVIOUS
<1> QED BY <1>1 DEF Front, Last

\* The innermost visit goes on to its next dependent.
LEMMA ReplaceLast ==
  ASSUME NEW S, NEW s \in Seq(S), s # <<>>, NEW x \in S
  PROVE  /\ Append(Front(s), x) \in Seq(S) /\ Len(Append(Front(s), x)) = Len(s)
         /\ DOMAIN Append(Front(s), x) = 1..Len(s)
         /\ \A i \in 1..(Len(s) - 1) : Append(Front(s), x)[i] = s[i]
         /\ Append(Front(s), x)[Len(s)] = x
<1> DEFINE f == Front(s)
<1>1. /\ f \in Seq(S) /\ Len(s) \in Nat \ {0} /\ Len(f) = Len(s) - 1
      /\ \A i \in 1..(Len(s) - 1) : f[i] = s[i]
  BY FrontFacts
<1> HIDE DEF f
<1> DEFINE t == Append(f, x)
<1>2. /\ t \in Seq(S) /\ Len(t) = Len(f) + 1 /\ DOMAIN t = 1..(Len(f) + 1)
      /\ \A i \in 1..Len(f) : t[i] = f[i]
      /\ t[Len(f) + 1] = x
  BY <1>1
<1> HIDE DEF t
<1>3. Len(f) + 1 = Len(s)
  BY <1>1
<1>4. /\ t \in Seq(S) /\ Len(t) = Len(s) /\ DOMAIN t = 1..Len(s)
      /\ \A i \in 1..(Len(s) - 1) : t[i] = s[i]
      /\ t[Len(s)] = x
  BY <1>1, <1>2, <1>3
<1> QED BY <1>4 DEF t, f

-----------------------------------------------------------------------------
(* The invariant.                                                          *)

LEMMA StartInv == Start => SortInv
<1> SUFFICES ASSUME Start PROVE SortInv
  OBVIOUS
<1>1. TypeOK
  <2>1. graph \in [DOMAIN graph -> SUBSET Named]
    BY DEF Start, Named
  <2> QED BY <2>1 DEF Start, TypeOK
<1>2. VisitedOnce /\ DependentsDone /\ InOrder /\ NoneForgotten
  BY DEF Start, VisitedOnce, DependentsDone, InOrder, NoneForgotten, IsInjective
<1> QED BY <1>1, <1>2 DEF SortInv

\* A visit begins, or ends at once because the type is done.
LEMMA RootInv ==
  ASSUME SortInv, NEW n, Root(n)
  PROVE  SortInv'
<1>1. /\ stack = <<>> /\ n \in todo /\ n \in DOMAIN graph /\ outcome = "running"
      /\ todo' = todo \ {n} /\ UNCHANGED <<graph, traversed, outcome>>
      /\ graph[n] \in SUBSET Named
  BY DEF Root, Running, SortInv, TypeOK
<1>2. CASE n \in ToSet(traversed)
  <2>1. stack' = <<>> /\ ancestors' = ancestors
    BY <1>2 DEF Root, Begin
  <2> QED BY <1>1, <1>2, <2>1 DEF SortInv, TypeOK, VisitedOnce, DependentsDone, InOrder, NoneForgotten, Visits, Named
<1>3. CASE n \notin ToSet(traversed)
  <2>1. stack' = <<Visit(n)>> /\ ancestors' = ancestors \cup {n}
    BY <1>3 DEF Root, Begin
  <2>2. /\ Visit(n) \in Visits /\ Visit(n).node = n /\ Visit(n).deps = graph[n]
    BY <1>1 DEF Visit, Visits
  <2>3. /\ stack' \in Seq(Visits) /\ DOMAIN stack' = {1} /\ stack'[1] = Visit(n)
    BY <2>1, <2>2
  <2>4. TypeOK'
    BY <1>1, <2>1, <2>3 DEF SortInv, TypeOK, Visits, Named
  <2>5. VisitedOnce' /\ DependentsDone'
    BY <1>1, <1>3, <2>1, <2>2, <2>3 DEF VisitedOnce, DependentsDone
  <2>6. InOrder' /\ NoneForgotten'
    BY <1>1, <2>2, <2>3 DEF SortInv, InOrder, NoneForgotten
  <2> QED BY <2>4, <2>5, <2>6 DEF SortInv
<1> QED BY <1>2, <1>3

\* A dependent that is missing or an ancestor stops the sort; one that is done is
\* left out; another one is visited before the visit goes on.
LEMMA DependentInv ==
  ASSUME SortInv, NEW d, Dependent(d)
  PROVE  SortInv'
<1> DEFINE k    == Len(stack)
           top  == Last(stack)
           less == [top EXCEPT !.deps = @ \ {d}]
           rest == Append(Front(stack), less)
<1>1. /\ k \in Nat \ {0} /\ top \in Visits /\ less \in Visits /\ rest \in Seq(Visits)
      /\ DOMAIN stack = 1..k /\ top = stack[k]
      /\ less.node = top.node /\ less.deps = top.deps \ {d}
      /\ Len(rest) = k /\ DOMAIN rest = 1..k /\ rest[k] = less
      /\ \A i \in 1..(k - 1) : rest[i] = stack[i]
  <2>1. stack \in Seq(Visits) /\ stack # <<>>
    BY DEF Dependent, SortInv, TypeOK
  <2>2. k \in Nat \ {0} /\ top \in Visits /\ DOMAIN stack = 1..k /\ top = stack[k]
    BY <2>1, FrontFacts
  <2>3. less \in Visits /\ less.node = top.node /\ less.deps = top.deps \ {d}
    BY <2>2 DEF Visits
  <2> HIDE DEF less
  <2>4. /\ rest \in Seq(Visits) /\ Len(rest) = k /\ DOMAIN rest = 1..k
        /\ \A i \in 1..(k - 1) : rest[i] = stack[i]
        /\ rest[k] = less
    BY <2>1, <2>3, ReplaceLast
  <2> QED BY <2>2, <2>3, <2>4
<1>2. /\ outcome = "running" /\ UNCHANGED <<graph, todo, traversed>>
      /\ \/ UNCHANGED <<stack, ancestors>> /\ outcome' \in {"missing", "loop"}
         \/ d \in DOMAIN graph \ ancestors /\ Begin(d, rest) /\ UNCHANGED outcome
  BY DEF Dependent, Running
<1> HIDE DEF k, top, less, rest
<1>3. \A i \in 1..k : /\ rest[i].node = stack[i].node
                      /\ i # k => rest[i].deps = stack[i].deps
  <2> TAKE i \in 1..k
  <2>1. CASE i = k
    BY <1>1, <2>1
  <2>2. CASE i # k
    <3>1. i \in 1..(k - 1)
      BY <1>1, <2>2
    <3> QED BY <1>1, <2>2, <3>1
  <2> QED BY <2>1, <2>2
<1>4. CASE UNCHANGED <<stack, ancestors>> /\ outcome' \in {"missing", "loop"}
  <2>1. TypeOK'
    BY <1>2, <1>4 DEF SortInv, TypeOK, Visits, Named
  <2> QED BY <1>2, <1>4, <2>1 DEF SortInv, VisitedOnce, DependentsDone, InOrder, NoneForgotten
<1>5. CASE d \in DOMAIN graph \ ancestors /\ Begin(d, rest) /\ UNCHANGED outcome
  <2>1. \A i \in 1..k : \A e \in graph[stack[i].node] :
          \/ e \in rest[i].deps \/ (e = d /\ i = k) \/ e \in ToSet(traversed)
          \/ i + 1 \in 1..k /\ e = rest[i + 1].node
    <3> SUFFICES ASSUME NEW i \in 1..k, NEW e \in graph[stack[i].node]
                 PROVE  \/ e \in rest[i].deps \/ (e = d /\ i = k) \/ e \in ToSet(traversed)
                        \/ i + 1 \in 1..k /\ e = rest[i + 1].node
      OBVIOUS
    <3>1. \/ e \in stack[i].deps \/ e \in ToSet(traversed)
          \/ i + 1 \in 1..k /\ e = stack[i + 1].node
      BY <1>1 DEF SortInv, DependentsDone
    <3>2. CASE i = k
      BY <1>1, <3>1, <3>2
    <3>3. CASE i # k
      BY <1>3, <3>1, <3>3
    <3> QED BY <3>2, <3>3
  <2>2. \A i, j \in 1..k : rest[i].node = rest[j].node => i = j
    BY <1>1, <1>3 DEF SortInv, VisitedOnce
  <2>3. \A i \in 1..k : rest[i].node \in ancestors /\ rest[i].node \notin ToSet(traversed)
    BY <1>1, <1>3 DEF SortInv, VisitedOnce
  <2>4. InOrder'
    BY <1>2 DEF SortInv, InOrder
  <2>5. \A n \in DOMAIN graph : \/ n \in todo \/ n \in ToSet(traversed)
                                \/ \E i \in 1..k : n = rest[i].node
    BY <1>1, <1>3 DEF SortInv, NoneForgotten
  <2>6. CASE d \in ToSet(traversed)
    <3>1. stack' = rest /\ ancestors' = ancestors
      BY <1>5, <2>6 DEF Begin
    <3>2. TypeOK'
      BY <1>1, <1>2, <1>5, <3>1 DEF SortInv, TypeOK, Visits, Named
    <3>3. VisitedOnce'
      BY <1>1, <1>2, <2>2, <2>3, <3>1 DEF VisitedOnce
    <3>4. DependentsDone'
      BY <1>1, <1>2, <1>3, <2>1, <2>6, <3>1 DEF DependentsDone
    <3>5. NoneForgotten'
      BY <1>1, <1>2, <1>5, <2>5, <3>1 DEF NoneForgotten
    <3> QED BY <2>4, <3>2, <3>3, <3>4, <3>5 DEF SortInv
  <2>7. CASE d \notin ToSet(traversed)
    <3> DEFINE v == Visit(d)
    <3>1. v \in Visits /\ v.node = d /\ v.deps = graph[d]
      BY <1>5 DEF SortInv, TypeOK, Visit, Visits
    <3>2. stack' = Append(rest, v) /\ ancestors' = ancestors \cup {d}
      BY <1>5, <2>7 DEF Begin
    <3> HIDE DEF v
    <3>3. /\ stack' \in Seq(Visits) /\ DOMAIN stack' = 1..(Len(rest) + 1)
          /\ \A i \in 1..Len(rest) : stack'[i] = rest[i]
          /\ stack'[Len(rest) + 1] = v
      BY <1>1, <3>1, <3>2, AppendFacts
    <3>4. /\ DOMAIN stack' = 1..(k + 1) /\ stack'[k + 1] = v
          /\ \A i \in 1..k : stack'[i] = rest[i]
      BY <1>1, <3>3
    <3>5. TypeOK'
      BY <1>2, <1>5, <3>2, <3>3 DEF SortInv, TypeOK, Visits, Named
    <3>6. \A i \in 1..(k + 1) : i \in 1..k \/ i = k + 1
      BY <1>1
    <3>7. VisitedOnce'
      <4>1. \A i \in 1..k : stack'[i].node # d
        BY <1>5, <2>3, <3>4
      <4>2. \A i, j \in DOMAIN stack' : stack'[i].node = stack'[j].node => i = j
        BY <2>2, <3>1, <3>4, <3>6, <4>1
      <4>3. \A i \in DOMAIN stack' :
              stack'[i].node \in ancestors' /\ stack'[i].node \notin ToSet(traversed)
        BY <2>3, <2>7, <3>1, <3>2, <3>4, <3>6
      <4> QED BY <1>2, <4>2, <4>3 DEF VisitedOnce
    <3>8. DependentsDone'
      <4> SUFFICES ASSUME NEW i \in 1..(k + 1), NEW e \in graph[stack'[i].node]
                   PROVE  \/ e \in stack'[i].deps \/ e \in ToSet(traversed)
                          \/ i + 1 \in 1..(k + 1) /\ e = stack'[i + 1].node
        BY <1>2, <3>4 DEF DependentsDone
      <4>1. CASE i = k + 1
        BY <3>1, <3>4, <4>1
      <4>2. CASE i \in 1..k
        <5>1. \/ e \in rest[i].deps \/ (e = d /\ i = k) \/ e \in ToSet(traversed)
              \/ i + 1 \in 1..k /\ e = rest[i + 1].node
          BY <1>3, <2>1, <3>4, <4>2
        <5>2. i \in 1..(k + 1) /\ i + 1 \in 1..(k + 1)
          BY <1>1, <4>2
        <5> QED BY <3>1, <3>4, <4>2, <5>1, <5>2
      <4> QED BY <3>6, <4>1, <4>2
    <3>9. NoneForgotten'
      <4>1. \A n \in DOMAIN graph : \/ n \in todo \/ n \in ToSet(traversed)
                                    \/ \E i \in DOMAIN stack' : n = stack'[i].node
        BY <1>1, <2>5, <3>4
      <4> QED BY <1>2, <1>5, <4>1 DEF NoneForgotten
    <3> QED BY <2>4, <3>5, <3>7, <3>8, <3>9 DEF SortInv
  <2> QED BY <2>6, <2>7
<1> QED BY <1>2, <1>4, <1>5

\* A type is done when all its dependents are.
LEMMA LeaveInv ==
  ASSUME SortInv, Leave
  PROVE  SortInv'
<1>1. PICK k \in Nat \ {0}, n \in DOMAIN graph :
        /\ DOMAIN stack = 1..k /\ n = stack[k].node /\ n = Last(stack).node
        /\ stack[k].deps = {}
        /\ stack' = Front(stack) /\ stack' \in Seq(Visits) /\ DOMAIN stack' = 1..(k - 1)
        /\ \A i \in 1..(k - 1) : stack'[i] = stack[i]
  <2>1. stack \in Seq(Visits) /\ stack # <<>> /\ Last(stack).deps = {} /\ stack' = Front(stack)
    BY DEF Leave, SortInv, TypeOK
  <2>2. /\ Front(stack) \in Seq(Visits) /\ Len(stack) \in Nat \ {0} /\ DOMAIN stack = 1..Len(stack)
        /\ DOMAIN Front(stack) = 1..(Len(stack) - 1)
        /\ \A i \in 1..(Len(stack) - 1) : Front(stack)[i] = stack[i]
        /\ Last(stack) = stack[Len(stack)] /\ Last(stack) \in Visits
    BY <2>1, FrontFacts
  <2>3. Last(stack).node \in DOMAIN graph
    BY <2>2 DEF Visits
  <2> QED BY <2>1, <2>2, <2>3
<1>2. /\ outcome = "running" /\ ancestors' = ancestors \ {n}
      /\ traversed' = Append(traversed, n) /\ UNCHANGED <<graph, todo, outcome>>
  <2>1. k \in DOMAIN stack /\ n = stack[k].node
    BY <1>1
  <2>2. n \notin ToSet(traversed)
    BY <2>1 DEF SortInv, VisitedOnce
  <2> QED BY <1>1, <2>2 DEF Leave, Put, Running
<1>3. traversed \in Seq(DOMAIN graph)
  BY DEF SortInv, TypeOK
<1> DEFINE l == Len(traversed)
<1>4. /\ l \in Nat /\ DOMAIN traversed = 1..l
      /\ traversed' \in Seq(DOMAIN graph) /\ DOMAIN traversed' = 1..(l + 1)
      /\ \A i \in 1..l : traversed'[i] = traversed[i]
      /\ traversed'[l + 1] = n
      /\ ToSet(traversed') = ToSet(traversed) \cup {n}
  BY <1>1, <1>2, <1>3, AppendFacts
<1> HIDE DEF l
<1>5. n \notin ToSet(traversed) /\ graph[n] \subseteq ToSet(traversed)
  <2>1. k \in 1..k /\ k + 1 \notin 1..k
    BY <1>1
  <2>2. n \notin ToSet(traversed)
    BY <1>1, <2>1 DEF SortInv, VisitedOnce
  <2>3. graph[n] \subseteq ToSet(traversed)
    BY <1>1, <2>1 DEF SortInv, DependentsDone
  <2> QED BY <2>2, <2>3
<1>6. \A i \in 1..k : i \in 1..(k - 1) \/ i = k
  BY <1>1
<1>7. \A i \in 1..(k - 1) : i \in 1..k /\ i # k /\ i + 1 \in 1..k
  BY <1>1
<1>8. TypeOK'
  BY <1>1, <1>2, <1>4 DEF SortInv, TypeOK, Visits, Named
<1>9. VisitedOnce'
  <2>1. \A i, j \in 1..(k - 1) : stack[i].node = stack[j].node => i = j
    BY <1>1, <1>7 DEF SortInv, VisitedOnce
  <2>2. \A i \in 1..(k - 1) : /\ stack[i].node \in ancestors \ {n}
                              /\ stack[i].node \notin ToSet(traversed) \cup {n}
    <3>1. k \in 1..k
      BY <1>1
    <3> QED BY <1>1, <1>7, <3>1 DEF SortInv, VisitedOnce
  <2> QED BY <1>1, <1>2, <1>4, <2>1, <2>2 DEF VisitedOnce
<1>10. DependentsDone'
  <2> SUFFICES ASSUME NEW i \in 1..(k - 1), NEW d \in graph[stack[i].node]
               PROVE  \/ d \in stack[i].deps \/ d \in ToSet(traversed) \cup {n}
                      \/ i + 1 \in 1..(k - 1) /\ d = stack'[i + 1].node
    BY <1>1, <1>2, <1>4 DEF DependentsDone
  <2>1. d \in stack[i].deps \/ d \in ToSet(traversed) \/ d = stack[i + 1].node
    BY <1>1, <1>7 DEF SortInv, DependentsDone
  <2>2. CASE i + 1 = k
    BY <1>1, <2>1, <2>2
  <2>3. CASE i + 1 # k
    BY <1>1, <1>6, <1>7, <2>1, <2>3
  <2> QED BY <2>2, <2>3
<1>11. InOrder'
  <2>1. \A i \in 1..(l + 1) : i \in 1..l \/ i = l + 1
    BY <1>4
  <2>2. \A i \in 1..l : traversed[i] \in ToSet(traversed) /\ traversed[i] # n
    BY <1>4, <1>5 DEF ToSet
  <2>3. IsInjective(traversed')
    BY <1>4, <2>1, <2>2 DEF SortInv, InOrder, IsInjective
  <2>4. ASSUME NEW i \in 1..(l + 1)
        PROVE  graph[traversed'[i]] \subseteq {traversed'[j] : j \in 1..(i - 1)}
    <3>1. \A j \in 1..(i - 1) : j \in 1..l /\ traversed'[j] = traversed[j]
      BY <1>4
    <3>2. CASE i \in 1..l
      <4>1. graph[traversed[i]] \subseteq {traversed[j] : j \in 1..(i - 1)}
        BY <1>4, <3>2 DEF SortInv, InOrder
      <4> QED BY <1>4, <3>1, <3>2, <4>1
    <3>3. CASE i = l + 1
      <4>1. ToSet(traversed) \subseteq {traversed'[j] : j \in 1..(i - 1)}
        <5>1. i - 1 = l
          BY <1>4, <3>3
        <5> QED BY <1>4, <3>1, <5>1 DEF ToSet
      <4> QED BY <1>4, <1>5, <3>3, <4>1
    <3> QED BY <2>1, <3>2, <3>3
  <2> QED BY <1>2, <1>4, <2>3, <2>4 DEF InOrder
<1>12. NoneForgotten'
  <2> SUFFICES ASSUME NEW m \in DOMAIN graph
               PROVE  \/ m \in todo \/ m \in ToSet(traversed) \cup {n}
                      \/ \E i \in 1..(k - 1) : m = stack'[i].node
    BY <1>1, <1>2, <1>4 DEF NoneForgotten
  <2>1. m \in todo \/ m \in ToSet(traversed) \/ \E i \in 1..k : m = stack[i].node
    BY <1>1 DEF SortInv, NoneForgotten
  <2> QED BY <1>1, <1>6, <2>1
<1> QED BY <1>8, <1>9, <1>10, <1>11, <1>12 DEF SortInv

LEMMA NextInv ==
  ASSUME SortInv, [Next]_vars
  PROVE  SortInv'
<1>1. ASSUME NEW n \in Types, Root(n) \/ Dependent(n) PROVE SortInv'
  BY <1>1, RootInv, DependentInv
<1>2. CASE Leave
  BY <1>2, LeaveInv
<1>3. CASE Sorted
  BY <1>3 DEF Sorted, SortInv, TypeOK, VisitedOnce, DependentsDone, InOrder, NoneForgotten, Visits, Named
<1>4. CASE UNCHANGED vars
  BY <1>4 DEF vars, SortInv, TypeOK, VisitedOnce, DependentsDone, InOrder, NoneForgotten, Visits, Named
<1> QED BY <1>1, <1>2, <1>3, <1>4 DEF Next

\* A type is visited once, what a visit has gone through is done, what is done is
\* in order, and no type is forgotten, at every point of the recursion.
THEOREM Invariant == Spec => []SortInv
<1>1. SortInv /\ [Next]_vars => SortInv'
  BY NextInv
<1> QED BY <1>1, StartInv, PTL DEF Spec

\* When the sort has ended, nothing is left of its recursion.
LEMMA EndIsOrdered == SortInv => SortedIsOrdered
<1> SUFFICES ASSUME SortInv, outcome = "sorted"
             PROVE  /\ IsInjective(traversed) /\ ToSet(traversed) = DOMAIN graph
                    /\ \A i \in DOMAIN traversed :
                         graph[traversed[i]] \subseteq {traversed[j] : j \in 1..(i - 1)}
  BY DEF SortedIsOrdered
<1>1. todo = {} /\ stack = <<>>
  BY DEF SortInv, NoneForgotten
<1>2. ToSet(traversed) \subseteq DOMAIN graph
  BY DEF SortInv, TypeOK, ToSet
<1>3. DOMAIN graph \subseteq ToSet(traversed)
  BY <1>1 DEF SortInv, NoneForgotten
<1> QED BY <1>2, <1>3 DEF SortInv, InOrder

\* A sort that ends well has every type once and after all it inherits from,
\* whatever the definitions and the order of the dictionary (topologicalSort).
THEOREM SortsAreOrdered == Spec => []SortedIsOrdered
  BY Invariant, EndIsOrdered, PTL
=============================================================================
