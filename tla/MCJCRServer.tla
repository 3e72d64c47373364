---------------------------- MODULE MCJCRServer ----------------------------
(* Small instances of JCRServer: connections and nodes are interchangeable. *)
EXTENDS JCRServer, TLC

Symmetry == Permutations(Conns) \cup Permutations(Nodes)
=============================================================================
