------------------------------- MODULE Reorder -------------------------------
(***************************************************************************)
(* Reordering the children of a container: reorderChildren and findInserts *)
(* of the connection (connection.py) turn the order the cache shows into   *)
(* moves of one child before another, and the server replays the moves on  *)
(* the children it has (processMultipleCommands, server.py).  The server   *)
(* may have children that the cache does not know of yet.                  *)
(***************************************************************************)
EXTENDS Naturals, Sequences, FiniteSets, SequencesExt

CONSTANTS Names,   \* the children the cache knows
          Others   \* children that other sessions have added

VARIABLES
  goal,     \* the list new of findInserts
  old,      \* the list old, which it changes until it is goal
  inserts,  \* the moves found
  children, \* the children on the server, in order
  applied,  \* how many moves the server has replayed
  phase     \* "find", "send", "done"

vars == <<goal, old, inserts, children, applied, phase>>

Position(s, x) == CHOOSE i \in DOMAIN s : s[i] = x

\* s has what t has, and in the order of t.
InOrder(s, t) ==
  /\ ToSet(t) \subseteq ToSet(s)
  /\ \A i, j \in DOMAIN t : i < j => Position(s, t[i]) < Position(s, t[j])

\* The cache and the server agree on the order of the children both know.
Init ==
  /\ old \in SetToSeqs(Names) /\ goal \in SetToSeqs(Names)
  /\ old = CHOOSE s \in SetToSeqs(Names) : TRUE     \* the names are arbitrary
  /\ children \in {s \in SetToSeqs(Names \cup Others) : InOrder(s, old)}
  /\ inserts = <<>> /\ applied = 0 /\ phase = "find"

\* s with x taken out and put before y: list.remove and list.insert, orderBefore.
MoveBefore(s, x, y) ==
  LET rest == RemoveAt(s, Position(s, x))
  IN InsertAt(rest, Position(rest, y), x)

\* The first difference: the name the goal has there, the name old has there.
Difference == LET i == CHOOSE j \in DOMAIN goal :
                         /\ old[j] # goal[j]
                         /\ \A k \in 1..(j - 1) : old[k] = goal[k]
              IN <<goal[i], old[i]>>

\* One round of the while loop, with its assertion that the name comes later.
FindInsert ==
  /\ phase = "find" /\ old # goal
  /\ Position(old, Difference[1]) > Position(old, Difference[2])
  /\ inserts' = Append(inserts, Difference)
  /\ old' = MoveBefore(old, Difference[1], Difference[2])
  /\ UNCHANGED <<goal, children, applied, phase>>

Found ==
  /\ phase = "find" /\ old = goal
  /\ phase' = "send"
  /\ UNCHANGED <<goal, old, inserts, children, applied>>

\* Mutant: the moves are replayed from the last one to the first.
OrderBeforeReversed ==
  /\ phase = "send" /\ applied < Len(inserts)
  /\ LET m == inserts[Len(inserts) - applied]
     IN children' = MoveBefore(children, m[1], m[2])
  /\ applied' = applied + 1
  /\ UNCHANGED <<goal, old, inserts, phase>>

\* node.orderBefore, for the next move of the command.
OrderBefore ==
  /\ phase = "send" /\ applied < Len(inserts)
  /\ LET m == inserts[applied + 1]
     IN children' = MoveBefore(children, m[1], m[2])
  /\ applied' = applied + 1
  /\ UNCHANGED <<goal, old, inserts, phase>>

Replayed ==
  /\ phase = "send" /\ applied = Len(inserts)
  /\ phase' = "done"
  /\ UNCHANGED <<goal, old, inserts, children, applied>>

Next == FindInsert \/ Found \/ OrderBefore \/ Replayed

\* Both loops are sequential code that nothing interrupts.
Spec == Init /\ [][Next]_vars /\ WF_vars(Next)

-----------------------------------------------------------------------------
(* Properties.                                                             *)

\* Replayed by the server, the moves give the children the order that was asked
\* for, whatever other children are between them, and lose none (findInserts).
GoalReached ==
  phase = "done" => InOrder(children, goal) /\ children \in SetToSeqs(Names \cup Others)

\* A child is moved forward, and once at most, on the server too, where other
\* children are in between (processMultipleCommands; the fake server asserts it).
MovesForward ==
  /\ IsInjective([i \in DOMAIN inserts |-> inserts[i][1]])
  /\ phase = "send" /\ applied < Len(inserts) =>
       Position(children, inserts[applied + 1][2]) < Position(children, inserts[applied + 1][1])
=============================================================================
