---------------------------- MODULE MCConnection ----------------------------
(* Small instances of CapsuleConnection. *)
EXTENDS CapsuleConnection, TLC

\* Bounds on the search: no more than one node has another value than at the
\* start, and an abort raises only as long as the repository is as it was then.
AllTrees == {view, saved, committed, before}
FewValues ==
  /\ Cardinality({n \in Nodes : \E t \in AllTrees : t.val[n] # Initially}) <= 1
  /\ Broken => committed = InitTree

\* No node but Root is there at the start, and one is like another.
Interchangeable == Permutations(Nodes \ {Root})
=============================================================================
