------------------------------ MODULE TxnStore ------------------------------
(***************************************************************************)
(* What the JCR stub server promises to its clients: a store of versioned  *)
(* nodes with optimistic transactions.  Each client has one transaction at *)
(* a time.  A transaction remembers, for every node it writes, the version *)
(* the write was based on; it commits all its writes in one step, and only *)
(* if every one of those versions is still the committed one; otherwise it *)
(* ends without any effect.                                                *)
(***************************************************************************)
EXTENDS Naturals

CONSTANTS Clients, Nodes

VARIABLES version,      \* [Nodes -> Nat], the committed version of each node
          writes,       \* [Clients -> SUBSET Nodes], what the transaction wrote
          base          \* [Clients -> [Nodes -> Nat]], what it was based on

vars == <<version, writes, base>>

Init == /\ version = [n \in Nodes |-> 0]
        /\ writes = [c \in Clients |-> {}]
        /\ base = [c \in Clients |-> [n \in Nodes |-> 0]]

\* New writes join the transaction, each based on a version already committed.
Write(c) ==
  \E N \in SUBSET Nodes, f \in [Nodes -> UNION {0..version[n] : n \in Nodes}] :
    /\ \A n \in N : f[n] <= version[n]
    /\ writes' = [writes EXCEPT ![c] = @ \cup N]
    /\ base' = [base EXCEPT ![c] =
                  [n \in Nodes |-> IF n \in N \ writes[c] THEN f[n] ELSE @[n]]]
    /\ UNCHANGED version

Forget(c) == /\ writes' = [writes EXCEPT ![c] = {}]
             /\ base' = [base EXCEPT ![c] = [n \in Nodes |-> 0]]

Commit(c) ==
  /\ \A n \in writes[c] : base[c][n] = version[n]
  /\ version' = [n \in Nodes |-> IF n \in writes[c] THEN version[n] + 1
                                                    ELSE version[n]]
  /\ Forget(c)

Abort(C) ==
  /\ writes' = [c \in Clients |-> IF c \in C THEN {} ELSE writes[c]]
  /\ base' = [c \in Clients |-> IF c \in C THEN [n \in Nodes |-> 0] ELSE base[c]]
  /\ UNCHANGED version

Next == \/ \E c \in Clients : Write(c) \/ Commit(c)
        \/ \E C \in SUBSET Clients : Abort(C)

Spec == Init /\ [][Next]_vars
=============================================================================
