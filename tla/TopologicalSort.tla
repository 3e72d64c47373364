--------------------------- MODULE TopologicalSort ---------------------------
(***************************************************************************)
(* topologicalSort of cnd.py, which orders the node types of a CND so that *)
(* an interface is made after those it inherits from (_makeInterfaces).    *)
(* The recursion of _visitLeaves is a stack of visits; the dictionary and  *)
(* the lists of supertypes are gone through in any order.  InterfaceMaker   *)
(* starts a sort and takes its result.                                     *)
(***************************************************************************)
EXTENDS Naturals, Sequences, FiniteSets, SequencesExt

CONSTANT Types   \* names of node types

VARIABLES
  graph,      \* the types that are defined, each with its set of supertypes
  todo,       \* types that sorted() has not come to
  stack,      \* visits in progress: a type and the dependents to go through
  ancestors,  \* set of types being visited
  traversed,  \* the result
  outcome     \* "running", "sorted", "missing", "loop"

vars == <<graph, todo, stack, ancestors, traversed, outcome>>

Running == outcome = "running"
Visit(n) == [node |-> n, deps |-> graph[n]]

\* The start of _visitLeaves; nothing is left to do for a type that is done.
Begin(n, below) ==
  IF n \in ToSet(traversed)
  THEN stack' = below /\ UNCHANGED ancestors
  ELSE stack' = Append(below, Visit(n)) /\ ancestors' = ancestors \cup {n}

\* The next type of the loop of sorted().
Root(n) ==
  /\ Running /\ stack = <<>> /\ n \in todo
  /\ todo' = todo \ {n}
  /\ Begin(n, <<>>)
  /\ UNCHANGED <<graph, traversed, outcome>>

\* The next dependent of the innermost visit: an error, or a visit of its own.
Dependent(d) ==
  LET top  == Last(stack)
      rest == Append(Front(stack), [top EXCEPT !.deps = @ \ {d}])
  IN /\ Running /\ stack # <<>> /\ d \in top.deps
     /\ \/ d \notin DOMAIN graph /\ outcome' = "missing" /\ UNCHANGED <<stack, ancestors>>
        \/ d \in DOMAIN graph \cap ancestors /\ outcome' = "loop" /\ UNCHANGED <<stack, ancestors>>
        \/ /\ d \in DOMAIN graph \ ancestors
           /\ Begin(d, rest)
           /\ UNCHANGED outcome
     /\ UNCHANGED <<graph, todo, traversed>>

\* Mutant: a visited type goes to the front of the result.
PutInFront(n) == traversed' = IF n \in ToSet(traversed) THEN traversed ELSE <<n>> \o traversed

\* A visited type goes to the end of the result, if it is not done.
Put(n) == traversed' = IF n \in ToSet(traversed) THEN traversed ELSE Append(traversed, n)


\* The end of the innermost visit.
Leave ==
  /\ Running /\ stack # <<>> /\ Last(stack).deps = {}
  /\ ancestors' = ancestors \ {Last(stack).node}
  /\ Put(Last(stack).node)
  /\ stack' = Front(stack)
  /\ UNCHANGED <<graph, todo, outcome>>

Sorted ==
  /\ Running /\ stack = <<>> /\ todo = {}
  /\ outcome' = "sorted"
  /\ UNCHANGED <<graph, todo, stack, ancestors, traversed>>

Next == \/ \E n \in Types : Root(n) \/ Dependent(n)
        \/ Leave \/ Sorted

-----------------------------------------------------------------------------
(* What a sort has to find.                                                *)

\* The types n inherits from, over any number of definitions.
Inherits(n) ==
  LET up[i \in 0..Cardinality(Types)] ==
        IF i = 0 THEN graph[n]
        ELSE up[i - 1] \cup UNION {graph[m] : m \in up[i - 1] \cap DOMAIN graph}
  IN up[Cardinality(Types)]

HasLoop    == \E n \in DOMAIN graph : n \in Inherits(n)
HasMissing == \E n \in DOMAIN graph : ~(graph[n] \subseteq DOMAIN graph)

\* A sort that succeeds has every type once, after all it inherits from, so
\* that _makeInterfaces finds the bases of every interface.
SortedIsOrdered ==
  outcome = "sorted" =>
    /\ IsInjective(traversed) /\ ToSet(traversed) = DOMAIN graph
    /\ \A i \in DOMAIN traversed :
         graph[traversed[i]] \subseteq {traversed[j] : j \in 1..(i - 1)}

-----------------------------------------------------------------------------
(* Why it does: a sort by itself, and an inductive invariant.              *)

\* InterfaceMaker starts its sorts like this, with any graph.
Start ==
  /\ graph = [n \in DOMAIN graph |-> graph[n]] /\ todo = DOMAIN graph
  /\ stack = <<>> /\ ancestors = {} /\ traversed = <<>> /\ outcome = "running"

Spec == /\ \E D \in SUBSET Types : graph \in [D -> SUBSET Types]
        /\ Start
        /\ [][Next]_vars

Named  == UNION {graph[n] : n \in DOMAIN graph}
Visits == [node : DOMAIN graph, deps : SUBSET Named]

TypeOK ==
  /\ graph \in [DOMAIN graph -> SUBSET Named]
  /\ todo \subseteq DOMAIN graph /\ ancestors \subseteq DOMAIN graph
  /\ stack \in Seq(Visits) /\ traversed \in Seq(DOMAIN graph)
  /\ outcome \in {"running", "sorted", "missing", "loop"}

\* A type is not visited within its own visit, nor when it is done.
VisitedOnce ==
  /\ \A i, j \in DOMAIN stack : stack[i].node = stack[j].node => i = j
  /\ \A i \in DOMAIN stack : stack[i].node \in ancestors /\ stack[i].node \notin ToSet(traversed)

\* What a visit has gone through is done, but for the dependent whose visit is
\* in progress.
DependentsDone ==
  \A i \in DOMAIN stack : \A d \in graph[stack[i].node] :
    \/ d \in stack[i].deps \/ d \in ToSet(traversed)
    \/ i + 1 \in DOMAIN stack /\ d = stack[i + 1].node

\* What is done is in order.
InOrder ==
  /\ IsInjective(traversed)
  /\ \A i \in DOMAIN traversed :
       graph[traversed[i]] \subseteq {traversed[j] : j \in 1..(i - 1)}

\* No type is left out.
NoneForgotten ==
  /\ \A n \in DOMAIN graph : \/ n \in todo \/ n \in ToSet(traversed)
                             \/ \E i \in DOMAIN stack : n = stack[i].node
  /\ outcome = "sorted" => todo = {} /\ stack = <<>>

SortInv == TypeOK /\ VisitedOnce /\ DependentsDone /\ InOrder /\ NoneForgotten
=============================================================================
