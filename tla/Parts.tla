------------------------------- MODULE Parts ---------------------------------
(* Five parts that do not touch each other, as one instance.  A run is about *)
(* one of them: batches (BatchProtocol), the answer of getNodeStates         *)
(* (ReplyReader), an order of children (Reorder), the roles of a document    *)
(* (SpecialAttributes, which this module extends) or the fake server          *)
(* (FakeServer).                                                             *)
EXTENDS SpecialAttributes, Sequences, SequencesExt, FiniteSets

CONSTANTS
  Batches, MaxBatches,    \* BatchProtocol
  Answers, MaxRequests,   \* ReplyReader
  Siblings, Others,       \* Reorder
  Sessions, ChildNames, Keys, Values, Store, Nobody, MaxUUID, MaxCommands, MaxPrepares \* FakeServer

VARIABLES
  client, sent, batches, c2s, s2c, conn, unprocessed, want, bin, stack, commands, command,
  prop_name, prop_value, prop_values, received, kept,           \* BatchProtocol
  request, requests, towrite, interest, replies, chunks, mode, length, data, node, values,
  infos, result,                                                \* ReplyReader
  goal, old, inserts, children, applied, phase,                 \* Reorder
  real, initial, storage, next, calls, outcome, merging, todo, theirs, prepares, \* FakeServer
  part       \* the part the run is about

batch   == <<client, sent, batches, c2s, s2c, conn, unprocessed, want, bin, stack, commands,
             command, prop_name, prop_value, prop_values, received, kept>>
reply   == <<request, requests, towrite, interest, replies, chunks, mode, length, data, node,
             values, infos, result>>
reorder == <<goal, old, inserts, children, applied, phase>>
fake    == <<real, initial, storage, next, calls, outcome, merging, todo, theirs, prepares>>
special == vars
parts   == <<batch, reply, reorder, special, fake, part>>

Batch  == INSTANCE BatchProtocol WITH saved <- kept
Reply  == INSTANCE ReplyReader WITH s2c <- replies
Order  == INSTANCE Reorder WITH Names <- Siblings
Server == INSTANCE FakeServer WITH Names <- ChildNames, commands <- calls

\* A container has finitely many children.
ASSUME ChildrenAssumption == IsFiniteSet(Siblings) /\ IsFiniteSet(Others)

\* The connection sends batches of commands.
ASSUME BatchesAssumption == \A b \in Batches : Batch!IsBatch(b)

\* Earlier transactions have left a tree, whose nodes have the first uuids.
ASSUME StoreAssumption ==
  /\ Server!IsTree(Store) /\ \A u \in DOMAIN Store : Server!IsNode(Store[u])
  /\ IsFiniteSet(DOMAIN Store)
  /\ Store = [u \in 0..(Cardinality(DOMAIN Store) - 1) |-> Store[u]]

-----------------------------------------------------------------------------
(* Only the part that was chosen goes on; the others stay where they start.  *)

PartsInit ==
  /\ Batch!Init /\ Reply!Init /\ Order!Init /\ Init /\ Server!Init
  /\ part \in {"batch", "reply", "reorder", "special", "fake"}
  /\ part # "reorder" => goal = old /\ children = old \o SetToSeq(Others)

Batching   == part = "batch" /\ Batch!Next /\ UNCHANGED <<reply, reorder, special, fake, part>>
Replying   == part = "reply" /\ Reply!Next /\ UNCHANGED <<batch, reorder, special, fake, part>>
Reordering == part = "reorder" /\ Order!Next /\ UNCHANGED <<batch, reply, special, fake, part>>
Assigning  == part = "special" /\ Next /\ UNCHANGED <<batch, reply, reorder, fake, part>>
Merging    == part = "fake" /\ Server!Next /\ UNCHANGED <<batch, reply, reorder, special, part>>

PartsNext == Batching \/ Replying \/ Reordering \/ Assigning \/ Merging

\* The fairness of the parts that have some.
Fairness ==
  /\ WF_batch(part = "batch" /\ Batch!Controller) /\ WF_batch(part = "batch" /\ Batch!Reader)
  /\ WF_reply(part = "reply" /\ Reply!Server) /\ WF_reply(part = "reply" /\ Reply!Controller)
  /\ WF_reorder(part = "reorder" /\ Order!Next)

PartsSpec == PartsInit /\ [][PartsNext]_parts /\ Fairness

-----------------------------------------------------------------------------
(* The properties of the parts, besides those of SpecialAttributes; they hold *)
(* of a part that does not begin.                                            *)

\* A batch arrives as it was sent, however it is cut (doRead, the continuations).
BatchArrives == Batch!BatchArrives

\* Before a batch is sent, nothing is left of the last one (doRead, sendCommands).
InStep == Batch!InStep

\* An abort that is acknowledged has rolled back (abort, cmdRollback).
AbortIsReal == Batch!AbortIsReal

\* getNodeStates returns what the server wrote, however it is cut (_getNodeStates).
ReadsBack == Reply!ReadsBack

\* The moves give the children the order that was asked for (findInserts).
GoalReached == Order!GoalReached

\* A child is moved forward, and once at most (findInserts, orderBefore).
MovesForward == Order!MovesForward

\* Neither side waits for the other for ever, and no loop runs for ever: every
\* batch, every abort, every getNodeStates and every reordering comes to an end,
\* even if the server ends first (sendCommands, abort, getNodeStates, findInserts).
Calling == \/ client \in {"waiting", "aborting"}
           \/ mode # "idle"
           \/ part = "reorder" /\ phase # "done"
CallsReturn == Calling ~> ~Calling

\* A merge that ends well is a three-way merge of every node (Merger).
MergeIsThreeWay == Server!MergeIsThreeWay

\* The store stays a tree, also after half a merge (Merger).
StoreIsATree == Server!StoreIsATree

\* A prepare fails with a ConflictError only (_merge, _moveUUID).
OnlyConflicts == Server!OnlyConflicts
=============================================================================
