---------------------- MODULE CapsuleConnection_proofs ----------------------
(***************************************************************************)
(* Proofs about CapsuleConnection, for every set of nodes and values: the  *)
(* batches and the trees of any application, the transactions of a careful *)
(* one, and the cache and the aborts of one that has the repository to     *)
(* itself.                                                                 *)
(***************************************************************************)
EXTENDS CapsuleConnection, TLAPS

-----------------------------------------------------------------------------
(* Sequences and trees.                                                    *)

LEMMA AppendFacts ==
  ASSUME NEW A \in Seq(Nodes), NEW n \in Nodes
  PROVE  /\ Append(A, n) \in Seq(Nodes)
         /\ ToSet(Append(A, n)) = ToSet(A) \cup {n}
         /\ IsInjective(A) /\ n \notin ToSet(A) => IsInjective(Append(A, n))
         /\ \A i \in DOMAIN A : Append(A, n)[i] = A[i]
         /\ DOMAIN Append(A, n) = DOMAIN A \cup {Len(A) + 1}
         /\ Append(A, n)[Len(A) + 1] = n
<1>1. /\ Append(A, n) \in Seq(Nodes)
      /\ \A i \in DOMAIN A : Append(A, n)[i] = A[i]
      /\ DOMAIN Append(A, n) = DOMAIN A \cup {Len(A) + 1}
      /\ Append(A, n)[Len(A) + 1] = n
      /\ Len(A) + 1 \notin DOMAIN A
  OBVIOUS
<1> DEFINE B == Append(A, n)  d == Len(A) + 1
<1>2. /\ \A i \in DOMAIN A : B[i] = A[i]
      /\ DOMAIN B = DOMAIN A \cup {d} /\ B[d] = n /\ d \notin DOMAIN A
  BY <1>1
<1> HIDE DEF B, d
<1>3. ToSet(B) = ToSet(A) \cup {n}
  BY <1>2 DEF ToSet
<1>4. IsInjective(A) /\ n \notin ToSet(A) => IsInjective(B)
  BY <1>2 DEF ToSet, IsInjective
<1> QED BY <1>1, <1>3, <1>4 DEF B

LEMMA ToSetFacts ==
  /\ \A A \in Seq(Nodes) : ToSet(A) \subseteq Nodes /\ (A # <<>> => ToSet(A) # {})
  /\ <<>> \in Seq(Nodes) /\ ToSet(<<>>) = {} /\ IsInjective(<<>>)
<1>1. \A A \in Seq(Nodes) : ToSet(A) \subseteq Nodes
  BY DEF ToSet
<1>2. \A A \in Seq(Nodes) : A # <<>> => 1 \in DOMAIN A
  OBVIOUS
<1>3. \A A \in Seq(Nodes) : A # <<>> => ToSet(A) # {}
  BY <1>2 DEF ToSet
<1>4. <<>> \in Seq(Nodes) /\ DOMAIN <<>> = {}
  OBVIOUS
<1> QED BY <1>1, <1>3, <1>4 DEF ToSet, IsInjective

\* What is under a node is closed under Below, and everything in it but the node
\* itself has its parent there.
LEMMA SubTreeFacts ==
  ASSUME NEW t, NEW n \in Nodes
  PROVE  /\ SubTree(t, n) \subseteq Nodes /\ n \in SubTree(t, n)
         /\ \A k \in SubTree(t, n) : Below(t, k) \subseteq SubTree(t, n)
         /\ \A k \in SubTree(t, n) \ {n} : k # Root /\ t.par[k] \in SubTree(t, n)
<1> DEFINE Closed(S) == n \in S /\ (\A k \in S : Below(t, k) \subseteq S)
           N == SubTree(t, n)
<1>1. /\ N \subseteq Nodes
      /\ \A m \in Nodes : m \in N <=> \A S \in SUBSET Nodes : Closed(S) => m \in S
  BY DEF SubTree
<1>2. \A k : Below(t, k) \subseteq Nodes
  BY DEF Below
<1> HIDE DEF N
<1>3. n \in N
  BY <1>1
<1>4. ASSUME NEW k \in N PROVE Below(t, k) \subseteq N
  <2> SUFFICES ASSUME NEW m \in Below(t, k), NEW S \in SUBSET Nodes, Closed(S)
               PROVE  m \in S
    BY <1>1, <1>2
  <2>1. k \in S
    BY <1>1
  <2> QED BY <2>1
<1>5. ASSUME NEW k \in N \ {n} PROVE k # Root /\ t.par[k] \in N
  <2>1. N \ {k} \in SUBSET Nodes /\ k \in Nodes
    BY <1>1
  <2>2. ~Closed(N \ {k})
    <3> SUFFICES ASSUME Closed(N \ {k}) PROVE FALSE
      OBVIOUS
    <3> HIDE DEF Closed
    <3> QED BY <2>1, <1>1
  <2>3. PICK j \in N \ {k} : ~(Below(t, j) \subseteq N \ {k})
    BY <2>2, <1>3
  <2>4. k \in Below(t, j)
    BY <2>3, <1>4
  <2> QED BY <2>4, <2>3 DEF Below
<1> QED BY <1>1, <1>3, <1>4, <1>5 DEF N

\* A tree without N.
LEMMA WithoutFacts ==
  ASSUME NEW t \in Trees, NEW N
  PROVE  /\ Without(t, N) \in Trees
         /\ \A n \in Nodes : Without(t, N).par[n] = IF n \in N THEN NoNode ELSE t.par[n]
         /\ Without(t, N).val = t.val
<1> DEFINE p == [n \in Nodes |-> IF n \in N THEN NoNode ELSE t.par[n]]
<1>1. Without(t, N) = [t EXCEPT !.par = p]
  BY DEF Without
<1>2. p \in [Nodes -> Nodes \cup {NoNode}]
  BY DEF Trees
<1> QED BY <1>1, <1>2 DEF Trees

\* A tree without some nodes, and what is below them, has what its nodes are below.
LEMMA RootedWithout ==
  ASSUME NEW t \in Trees, Rooted(t), NEW D \in SUBSET (Nodes \ {Root})
  PROVE  Rooted(Without(t, UNION {SubTree(t, n) : n \in D}))
<1> DEFINE N == UNION {SubTree(t, n) : n \in D}
<1>1. Root \notin N /\ \A k \in N : Below(t, k) \subseteq N
  <2>1. ASSUME NEW n \in D, Root \in SubTree(t, n) PROVE FALSE
    <3>1. n \in Nodes /\ Root # n
      BY ONLY n \in D, D \in SUBSET (Nodes \ {Root})
    <3>2. \A k \in SubTree(t, n) \ {n} : k # Root
      BY ONLY <3>1, SubTreeFacts
    <3> QED BY ONLY <2>1, <3>1, <3>2
  <2>2. ASSUME NEW n \in D, NEW k \in SubTree(t, n) PROVE Below(t, k) \subseteq SubTree(t, n)
    <3>1. n \in Nodes
      BY ONLY n \in D, D \in SUBSET (Nodes \ {Root})
    <3>2. \A l \in SubTree(t, n) : Below(t, l) \subseteq SubTree(t, n)
      BY ONLY <3>1, SubTreeFacts
    <3> QED BY ONLY <2>2, <3>2
  <2> QED BY <2>1, <2>2, Zenon
<1> HIDE DEF N
<1>2. /\ \A n \in Nodes : Without(t, N).par[n] = IF n \in N THEN NoNode ELSE t.par[n]
      /\ Root \in Nodes /\ NoNode \notin Nodes
  BY WithoutFacts, ScopeAssumption
<1>3. Without(t, N).par[Root] = Root
  BY <1>1, <1>2 DEF Rooted
<1>4. ASSUME NEW n \in Nodes, Exists(Without(t, N), n)
      PROVE  Exists(Without(t, N), Without(t, N).par[n])
  <2>1. n \notin N /\ Exists(t, n)
    BY <1>2, <1>4 DEF Exists
  <2>2. t.par[n] \in Nodes /\ Exists(t, t.par[n])
    BY <2>1 DEF Rooted, Exists, Trees
  <2>3. CASE n = Root
    BY <2>3, <1>3, <1>4
  <2>4. CASE n # Root
    <3>1. n \in Below(t, t.par[n])
      BY <2>4 DEF Below
    <3>2. t.par[n] \notin N
      BY <3>1, <1>1, <2>1
    <3> QED BY <3>2, <2>1, <2>2, <1>2 DEF Exists
  <2> QED BY <2>3, <2>4
<1> QED BY <1>3, <1>4 DEF Rooted, N

\* What is not in a tree has nothing below it there.
LEMMA NothingBelow ==
  ASSUME NEW t \in Trees, Rooted(t), NEW n \in Nodes, ~Exists(t, n)
  PROVE  Below(t, n) = {}
<1> SUFFICES ASSUME NEW k \in Below(t, n) PROVE FALSE
  OBVIOUS
<1>1. k \in Nodes /\ t.par[k] = n /\ NoNode \notin Nodes
  BY ScopeAssumption DEF Below
<1> QED BY <1>1 DEF Rooted, Exists

-----------------------------------------------------------------------------
(* Batches of commands.                                                    *)

\* The session after the adds and modifies of a batch, before its removes.
Written(A, K) == ToSet(A) \cup {k \in K : st[k] # "ghost"}
SentTree(A, P, K) ==
  [par |-> [n \in Nodes |-> IF n \in ToSet(A) THEN P[n] ELSE view.par[n]],
   val |-> [n \in Nodes |-> IF n \in Written(A, K) THEN val[n] ELSE view.val[n]]]

\* Added objects A with parents P as a batch has them.
Batch(A, P) ==
  /\ A \in Seq(Nodes) /\ P \in [Nodes -> Nodes \cup {NoNode}]
  /\ Root \notin ToSet(A)
  /\ \A a \in ToSet(A) : P[a] \in Nodes /\ (P[a] \in ToSet(A) \/ Exists(view, P[a]))

LEMMA SentTreeFacts ==
  ASSUME TypeOK, Rooted(view), NEW A, NEW P, NEW K, Batch(A, P)
  PROVE  /\ SentTree(A, P, K) \in Trees
         /\ \A n \in Nodes :
              /\ SentTree(A, P, K).par[n] = IF n \in ToSet(A) THEN P[n] ELSE view.par[n]
              /\ SentTree(A, P, K).val[n] = IF n \in Written(A, K) THEN val[n] ELSE view.val[n]
         /\ Rooted(SentTree(A, P, K))
<1> DEFINE t == SentTree(A, P, K)  N == ToSet(A)
<1>1. /\ t \in Trees
      /\ \A n \in Nodes : /\ t.par[n] = IF n \in N THEN P[n] ELSE view.par[n]
                          /\ t.val[n] = IF n \in Written(A, K) THEN val[n] ELSE view.val[n]
  BY DEF SentTree, TypeOK, Trees, Batch
<1>2. /\ view \in Trees /\ N \subseteq Nodes /\ Root \notin N
      /\ \A a \in N : P[a] \in Nodes /\ (P[a] \in N \/ Exists(view, P[a]))
      /\ Root \in Nodes /\ NoNode \notin Nodes
  BY ToSetFacts, ScopeAssumption DEF Batch, TypeOK
<1> HIDE DEF t, N
<1>3. Rooted(t)
  <2>1. t.par[Root] = Root
    BY <1>1, <1>2 DEF Rooted
  <2>2. ASSUME NEW n \in Nodes, Exists(t, n) PROVE Exists(t, t.par[n])
    <3>1. CASE n \in N
      BY <3>1, <1>1, <1>2 DEF Exists
    <3>2. CASE n \notin N
      <4>1. view.par[n] \in Nodes /\ Exists(view, view.par[n])
        BY <3>2, <2>2, <1>1, <1>2 DEF Exists, Rooted, Trees
      <4> QED BY <4>1, <3>2, <1>1, <1>2 DEF Exists
    <3> QED BY <3>1, <3>2
  <2> QED BY <2>1, <2>2 DEF Rooted
<1> QED BY <1>1, <1>3 DEF t, N

\* A batch leaves a tree.
LEMMA AfterCommandsFacts ==
  ASSUME TypeOK, Rooted(view), NEW A, NEW P, NEW K, Batch(A, P),
         NEW D \in SUBSET (Nodes \ {Root})
  PROVE  AfterCommands(A, P, K, D) \in Trees /\ Rooted(AfterCommands(A, P, K, D))
<1>1. AfterCommands(A, P, K, D)
        = Without(SentTree(A, P, K), UNION {SubTree(SentTree(A, P, K), n) : n \in D})
  BY DEF AfterCommands, SentTree, Written
<1> QED BY <1>1, SentTreeFacts, RootedWithout, WithoutFacts

\* A batch that removes nothing leaves the tree of its adds and modifies.
LEMMA NothingRemoved ==
  ASSUME TypeOK, Rooted(view), NEW A, NEW P, NEW K, Batch(A, P)
  PROVE  AfterCommands(A, P, K, {}) = SentTree(A, P, K)
<1> DEFINE t == SentTree(A, P, K)
<1>1. UNION {SubTree(t, n) : n \in {}} = {}
  OBVIOUS
<1>2. AfterCommands(A, P, K, {}) = Without(t, UNION {SubTree(t, n) : n \in {}})
  BY DEF AfterCommands, SentTree, Written
<1>3. AfterCommands(A, P, K, {}) = Without(t, {})
  BY <1>1, <1>2
<1>4. t \in Trees
  BY SentTreeFacts
<1> HIDE DEF t
<1>5. Without(t, {}) \in Trees /\ Without(t, {}).val = t.val
      /\ \A n \in Nodes : Without(t, {}).par[n] = t.par[n]
  BY <1>4, WithoutFacts
<1>6. Without(t, {}).par = t.par
  BY <1>5, <1>4 DEF Trees
<1> QED BY <1>3, <1>4, <1>5, <1>6 DEF Trees, t

\* New objects A, with parents P, whose parents the session may not have.
Queue(A, P) ==
  /\ A \in Seq(Nodes) /\ P \in [Nodes -> Nodes \cup {NoNode}]
  /\ Root \notin ToSet(A) /\ \A a \in ToSet(A) : P[a] \in Nodes

\* What the server accepts is a batch.
LEMMA AcceptedBatch ==
  ASSUME NEW A, NEW P, Queue(A, P), NEW N, Accepted(A, P, N)
  PROVE  Batch(A, P)
<1>1. A \in Seq(Nodes) /\ DOMAIN A = 1..Len(A) /\ Len(A) \in Nat
  BY DEF Queue
<1>2. ASSUME NEW i \in DOMAIN A
      PROVE  P[A[i]] \in ToSet(A) \/ Exists(view, P[A[i]])
  <2>1. Exists(view, P[A[i]]) \/ \E j \in 1..(i - 1) : P[A[i]] = A[j]
    BY DEF Accepted
  <2>2. \A j \in 1..(i - 1) : j \in DOMAIN A
    BY <1>1
  <2> QED BY <2>1, <2>2 DEF ToSet
<1>3. \A a \in ToSet(A) : \E i \in DOMAIN A : a = A[i]
  BY DEF ToSet
<1> QED BY <1>2, <1>3 DEF Queue, Batch

LEMMA SendFacts ==
  ASSUME TypeOK, RootStays, NEW A, NEW P, NEW R, NEW K, Queue(A, P),
         NEW D \in SUBSET (Nodes \ {Root}), Send(A, P, R, K, D)
  PROVE  /\ view' \in Trees /\ Rooted(view') /\ saved' \in Trees /\ Rooted(saved')
         /\ committed' = committed
<1>1. CASE UNCHANGED server
  BY <1>1 DEF TypeOK, RootStays, server, Rooted, Exists
<1>2. CASE /\ Passes(A, P, R, D)
           /\ view' = AfterCommands(A, P, K, D) /\ saved' = view' /\ UNCHANGED committed
  <2>1. Batch(A, P)
    BY <1>2, AcceptedBatch DEF Passes
  <2>2. AfterCommands(A, P, K, D) \in Trees /\ Rooted(AfterCommands(A, P, K, D))
    BY <2>1, AfterCommandsFacts DEF RootStays
  <2> QED BY <1>2, <2>2
<1> QED BY <1>1, <1>2 DEF Send

\* The objects that are there already can be sent.
LEMMA AddedQueue ==
  ASSUME Inv
  PROVE  /\ Queue(added, par) /\ ToSet(added) \subseteq Nodes
         /\ registered \subseteq Nodes /\ commands \subseteq Nodes \ {Root}
         /\ (needsToJoin => added = <<>> /\ registered = {} /\ commands = {})
BY ToSetFacts DEF Inv, TypeOK, RootStays, AddedApart, EndsSent, Queue

\* In a transaction in which no operation has raised they are a batch.
LEMMA AddedBatch ==
  ASSUME Inv, Using, ~Broken
  PROVE  /\ Batch(added, par) /\ ToSet(added) \subseteq Nodes
         /\ ToSet(added) \cap cache = {} /\ commands = {}
         /\ joined \/ needsToJoin
         /\ (~joined => added = <<>> /\ registered = {})
<1>1. CASE joined
  BY <1>1, ToSetFacts DEF Inv, TypeOK, RootStays, AddedApart, EndsSent, Batch, Using
<1>2. CASE needsToJoin
  BY <1>2, ToSetFacts DEF Inv, TypeOK, RootStays, EndsSent, Batch
<1> QED BY <1>1, <1>2 DEF Broken, Inv, EndsSent

\* A new node under a live one can be sent with them.
LEMMA QueuedFacts ==
  ASSUME Inv, NEW p \in Nodes, NEW n \in Nodes, Live(p), Fresh(n)
  PROVE  /\ Queue(Queued(n), [par EXCEPT ![n] = p])
         /\ ToSet(Queued(n)) = ToSet(added) \cup {n}
         /\ n # Root /\ n # p /\ n \notin cache \cup ToSet(added) /\ ~Exists(view, n)
         /\ p \in ToSet(added) \/ Exists(view, p)
<1>1. /\ Queue(added, par) /\ added \in Seq(Nodes)
      /\ view \in Trees /\ Rooted(view) /\ Root \in Nodes /\ NoNode \notin Nodes
  BY AddedQueue, ScopeAssumption DEF Inv, TypeOK, RootStays
<1>2. /\ Queued(n) \in Seq(Nodes)
      /\ ToSet(Queued(n)) = ToSet(added) \cup {n}
  BY <1>1, AppendFacts DEF Queued
<1>3. n # Root /\ n \notin cache \cup ToSet(added) /\ ~Exists(view, n)
  BY <1>1 DEF Fresh, Rooted, Exists
<1>4. n # p /\ (p \in ToSet(added) \/ Exists(view, p))
  BY <1>3 DEF Live
<1> DEFINE P == [par EXCEPT ![n] = p]
<1>5. /\ P \in [Nodes -> Nodes \cup {NoNode}] /\ P[n] = p
      /\ \A a \in Nodes \ {n} : P[a] = par[a]
  BY DEF Inv, TypeOK
<1> HIDE DEF P
<1>6. ToSet(added) \subseteq Nodes
  BY <1>1, ToSetFacts
<1>7. ASSUME NEW a \in ToSet(added) \cup {n}
      PROVE  P[a] \in Nodes
  BY <1>1, <1>3, <1>4, <1>5, <1>6 DEF Queue
<1>8. Queue(Queued(n), P)
  BY <1>1, <1>2, <1>3, <1>5, <1>7 DEF Queue
<1> QED BY <1>2, <1>3, <1>4, <1>8 DEF P

-----------------------------------------------------------------------------
(* What every application keeps: steps that send everything.               *)

\* The objects after a step that sends everything.
ObjectsClean ==
  /\ cache \subseteq Nodes /\ st \in [Nodes -> States] /\ val \in [Nodes -> Vals]
  /\ kids \in [Nodes -> SUBSET Nodes]
  /\ \A n \in Nodes : /\ st[n] # "changed" /\ Root \notin kids[n]
                      /\ st[n] = "ghost" => kids[n] = {}
                      /\ st[n] # "ghost" => n \in cache

LEMMA InitiallyFacts == Initially \in Vals /\ "ghost" \in States
BY ScopeAssumption DEF Initially, States

LEMMA CleanObjects ==
  ASSUME NEW C, C \subseteq Nodes,
         NEW s, s \in [Nodes -> States], \A n \in Nodes : s[n] # "changed",
         NEW v, v \in [Nodes -> Vals],
         NEW k, k \in [Nodes -> SUBSET Nodes], \A n \in Nodes : Root \notin k[n],
         SetObjects(C, {}, s, v, k)
  PROVE  ObjectsClean'
<1>1. /\ cache' = C /\ st' \in [Nodes -> States]
      /\ val' \in [Nodes -> Vals] /\ kids' \in [Nodes -> SUBSET Nodes]
      /\ \A n \in Nodes :
           /\ st'[n] # "ghost" => n \in C /\ st'[n] = s[n] /\ kids'[n] = k[n]
           /\ st'[n] = "ghost" => kids'[n] = {}
  BY InitiallyFacts DEF SetObjects
<1> QED BY <1>1 DEF ObjectsClean

\* What the objects that are sent show as their state has no change in it.
LEMMA StAfterFacts ==
  ASSUME Inv, NEW A, NEW R, registered \subseteq R, ToSet(added) \subseteq ToSet(A)
  PROVE  /\ StAfter(st, A, R) \in [Nodes -> States]
         /\ \A n \in Nodes : StAfter(st, A, R)[n] # "changed"
BY DEF StAfter, Inv, TypeOK, StatesKept, States

\* A step that sends everything keeps Inv if it leaves trees.
Emptied == /\ added' = <<>> /\ par' = [n \in Nodes |-> NoNode]
           /\ registered' = {} /\ keys' = {}

LEMMA SentInv ==
  ASSUME Inv, Emptied, ObjectsClean',
         needsToJoin' = FALSE, joined' \in BOOLEAN,
         phase' \in {"active", "prepared"}, failed' \in {"no", "refused", "KeyError"},
         phase' # "active" => joined' /\ failed' = "no",
         commands' \subseteq Nodes \ {Root}, failed' = "no" => commands' = {},
         UNCHANGED <<before, committed>>,
         view' \in Trees, Rooted(view'), saved' \in Trees, Rooted(saved'),
         modified' \subseteq Nodes, created' \subseteq Nodes
  PROVE  Inv'
<1>1. added' = <<>> /\ ToSet(added') = {} /\ registered' = {} /\ keys' = {}
  BY ToSetFacts DEF Emptied
<1>2. TypeOK'
  <2>1. /\ par' \in [Nodes -> Nodes \cup {NoNode}]
        /\ added' \in Seq(Nodes) /\ IsInjective(added')
    BY <1>1, ToSetFacts DEF Emptied
  <2> QED BY <1>1, <2>1 DEF Inv, TypeOK, ObjectsClean
<1>3. RootStays'
  BY <1>1 DEF Inv, RootStays, Rooted, Exists, ObjectsClean
<1>4. StatesKept'
  BY <1>1 DEF StatesKept, ObjectsClean
<1>5. EndsSent'
  BY <1>1 DEF EndsSent
<1>6. AddedApart' /\ ParentsFirst'
  BY <1>1 DEF AddedApart, ParentsFirst
<1>7. NothingHalfDone'
  BY DEF NothingHalfDone
<1> QED BY <1>2, <1>3, <1>4, <1>5, <1>6, <1>7 DEF Inv

LEMMA SentFacts == Sent => Emptied /\ commands' = {} /\ commands' \subseteq Nodes \ {Root}
BY DEF Sent, Emptied

\* An operation of a connection that waits for a transaction joins it.
LEMMA JoinFacts ==
  ASSUME Inv, Using
  PROVE  /\ Join => /\ needsToJoin' = FALSE /\ joined' = (joined \/ needsToJoin)
                    /\ phase' = "active" /\ failed' = "no" /\ before' = before
         /\ (joined \/ needsToJoin) \in BOOLEAN
         /\ joined => needsToJoin = FALSE
BY DEF Join, Using, Inv, TypeOK, EndsSent

\* A flush: a savepoint, or the first half of a commit.
LEMMA FlushFacts ==
  ASSUME Inv,
         Send(added, par, registered, keys, commands),
         SetObjects(cache \cup ToSet(added), {}, StAfter(st, added, registered), val, kids),
         Remember(registered, {}, added)
  PROVE  /\ ObjectsClean'
         /\ view' \in Trees /\ Rooted(view') /\ saved' \in Trees /\ Rooted(saved')
         /\ committed' = committed /\ modified' \subseteq Nodes /\ created' \subseteq Nodes
<1> USE DEF Inv
<1>1. /\ Queue(added, par) /\ ToSet(added) \subseteq Nodes /\ TypeOK /\ RootStays
      /\ commands \in SUBSET (Nodes \ {Root})
  BY AddedQueue
<1>2. /\ view' \in Trees /\ Rooted(view') /\ saved' \in Trees /\ Rooted(saved')
      /\ committed' = committed
  BY <1>1, SendFacts
<1>3. ObjectsClean'
  <2>1. /\ StAfter(st, added, registered) \in [Nodes -> States]
        /\ \A n \in Nodes : StAfter(st, added, registered)[n] # "changed"
    BY StAfterFacts
  <2>2. /\ cache \cup ToSet(added) \subseteq Nodes
        /\ val \in [Nodes -> Vals] /\ kids \in [Nodes -> SUBSET Nodes]
        /\ \A n \in Nodes : Root \notin kids[n]
    BY <1>1 DEF TypeOK, RootStays
  <2> QED BY <2>1, <2>2, CleanObjects
<1>4. modified' \subseteq Nodes /\ created' \subseteq Nodes
  BY <1>1 DEF TypeOK, Remember
<1> QED BY <1>2, <1>3, <1>4

LEMMA CommitOkInv == Inv /\ CommitOk => Inv'
<1> SUFFICES ASSUME Inv, CommitOk PROVE Inv'
  OBVIOUS
<1>1. /\ Send(added, par, registered, keys, commands) /\ Remember(registered, {}, added)
      /\ SetObjects(cache \cup ToSet(added), {}, StAfter(st, added, registered), val, kids)
      /\ Sent /\ needsToJoin' = FALSE /\ joined' = TRUE
      /\ phase' = "prepared" /\ failed' = "no" /\ before' = before
  BY DEF CommitOk, Using, Inv, TypeOK, EndsSent
<1> QED BY <1>1, FlushFacts, SentFacts, SentInv

\* Sent with another batch, and other children, than the connection has.
LEMMA SendingFacts ==
  ASSUME Inv, NEW A, NEW P, Queue(A, P), ToSet(added) \subseteq ToSet(A),
         NEW R, registered \subseteq R, R \subseteq Nodes,
         NEW D, D \subseteq Nodes \ {Root}, NEW K, Send(A, P, R, K, D),
         NEW M, M \subseteq Nodes, Remember(R, M, A)
  PROVE  /\ view' \in Trees /\ Rooted(view') /\ saved' \in Trees /\ Rooted(saved')
         /\ committed' = committed /\ modified' \subseteq Nodes /\ created' \subseteq Nodes
<1> USE DEF Inv
<1>1. /\ view' \in Trees /\ Rooted(view') /\ saved' \in Trees /\ Rooted(saved')
      /\ committed' = committed
  BY SendFacts
<1>2. ToSet(A) \subseteq Nodes
  BY ToSetFacts DEF Queue
<1> QED BY <1>1, <1>2 DEF TypeOK, Remember

LEMMA AddChildInv ==
  ASSUME Inv, NEW p \in Nodes, NEW n \in Nodes, AddChild(p, n)
  PROVE  Inv'
<1> DEFINE A == Queued(n)
           P == [par EXCEPT ![n] = p]
           R == registered \cup Registering(p)
           s == [StAfter(st, A, R) EXCEPT ![n] = "ghost"]
           k == [kids EXCEPT ![p] = @ \cup {n}]
<1>1. /\ Using /\ Live(p) /\ Fresh(n) /\ Sent /\ Join
      /\ Send(A, P, R, keys, commands)
      /\ SetObjects(cache \cup ToSet(A), {}, s, val, k) /\ Remember(R, {p}, A)
  BY DEF AddChild
<1>2. /\ Queue(A, P) /\ ToSet(A) = ToSet(added) \cup {n} /\ n # Root
      /\ ToSet(A) \subseteq Nodes /\ commands \subseteq Nodes \ {Root} /\ {p} \subseteq Nodes
  BY <1>1, QueuedFacts, AddedQueue
<1>3. R \subseteq Nodes /\ registered \subseteq R
  BY DEF Inv, TypeOK, Registering
<1>4. /\ view' \in Trees /\ Rooted(view') /\ saved' \in Trees /\ Rooted(saved')
      /\ committed' = committed /\ modified' \subseteq Nodes /\ created' \subseteq Nodes
  <2> HIDE DEF A, P, R
  <2>1. ToSet(added) \subseteq ToSet(A)
    BY <1>2
  <2> QED BY <1>1, <1>2, <1>3, <2>1, SendingFacts
<1>5. ObjectsClean'
  <2>1. s \in [Nodes -> States] /\ \A m \in Nodes : s[m] # "changed"
    <3>1. /\ StAfter(st, A, R) \in [Nodes -> States]
          /\ \A m \in Nodes : StAfter(st, A, R)[m] # "changed"
      BY <1>2, <1>3, StAfterFacts
    <3> QED BY <3>1 DEF States
  <2>2. /\ k \in [Nodes -> SUBSET Nodes] /\ \A m \in Nodes : Root \notin k[m]
        /\ val \in [Nodes -> Vals] /\ cache \cup ToSet(A) \subseteq Nodes
    BY <1>2 DEF Inv, TypeOK, RootStays
  <2> HIDE DEF s, k, A
  <2> QED BY <1>1, <2>1, <2>2, CleanObjects
<1> HIDE DEF A, P, R, s, k
<1> QED BY <1>1, <1>4, <1>5, JoinFacts, SentFacts, SentInv

\* The nodes D are removed.
LEMMA RemovingFacts ==
  ASSUME Inv,
         NEW D, D \subseteq Nodes \ {Root}, Send(added, par, registered, keys, D),
         NEW M, M \subseteq Nodes, Remember(registered, M, added)
  PROVE  /\ view' \in Trees /\ Rooted(view') /\ saved' \in Trees /\ Rooted(saved')
         /\ committed' = committed /\ modified' \subseteq Nodes /\ created' \subseteq Nodes
<1>1. Queue(added, par) /\ registered \subseteq Nodes
  BY AddedQueue
<1> QED BY <1>1, SendingFacts

\* The states after a flush, with fewer objects and fewer children.
LEMMA FlushedObjects ==
  ASSUME Inv, NEW C, C \subseteq Nodes,
         NEW k, k \in [Nodes -> SUBSET Nodes], \A n \in Nodes : Root \notin k[n],
         SetObjects(C, {}, StAfter(st, added, registered), val, k)
  PROVE  ObjectsClean'
<1>1. /\ StAfter(st, added, registered) \in [Nodes -> States]
      /\ \A n \in Nodes : StAfter(st, added, registered)[n] # "changed"
  BY StAfterFacts
<1>2. val \in [Nodes -> Vals]
  BY DEF Inv, TypeOK
<1> QED BY <1>1, <1>2, CleanObjects

LEMMA DeleteNodeOkInv ==
  ASSUME Inv, NEW p \in Nodes, NEW n \in Nodes, Using, n \in kids[p] \cap cache,
         Send(added, par, registered, keys, commands \cup {n}),
         SetObjects((cache \cup ToSet(added)) \ {n}, {}, StAfter(st, added, registered),
                    val, [kids EXCEPT ![p] = @ \ {n}]),
         Remember(registered, {p}, added), Sent, Join
  PROVE  Inv'
<1> DEFINE k == [kids EXCEPT ![p] = @ \ {n}]
           C == (cache \cup ToSet(added)) \ {n}
<1>1. commands \cup {n} \subseteq Nodes \ {Root} /\ {p} \subseteq Nodes
  BY AddedQueue DEF Inv, RootStays
<1>2. /\ view' \in Trees /\ Rooted(view') /\ saved' \in Trees /\ Rooted(saved')
      /\ committed' = committed /\ modified' \subseteq Nodes /\ created' \subseteq Nodes
  BY <1>1, RemovingFacts
<1>3. ObjectsClean'
  <2>1. /\ k \in [Nodes -> SUBSET Nodes] /\ \A m \in Nodes : Root \notin k[m]
        /\ C \subseteq Nodes
    BY AddedQueue DEF Inv, TypeOK, RootStays
  <2> HIDE DEF k, C
  <2>2. SetObjects(C, {}, StAfter(st, added, registered), val, k)
    BY DEF k, C
  <2> QED BY <2>1, <2>2, FlushedObjects
<1> QED BY <1>2, <1>3, JoinFacts, SentFacts, SentInv

LEMMA DeleteAddedOkInv ==
  ASSUME Inv, NEW p \in Nodes, NEW n \in Nodes, Using, n \in kids[p],
         Send(added, par, registered, keys, commands \cup {n}),
         SetObjects(cache \cup ToSet(added), {}, StAfter(st, added, registered),
                    val, [kids EXCEPT ![p] = @ \ {n}]),
         Remember(registered, {p}, added), Sent, failed' = "KeyError",
         needsToJoin' = FALSE, joined' = (joined \/ needsToJoin), UNCHANGED <<phase, before>>
  PROVE  Inv'
<1> DEFINE k == [kids EXCEPT ![p] = @ \ {n}]
           C == cache \cup ToSet(added)
<1>1. phase' = "active" /\ joined' \in BOOLEAN
  BY JoinFacts DEF Using
<1>2. commands \cup {n} \subseteq Nodes \ {Root} /\ {p} \subseteq Nodes
  BY AddedQueue DEF Inv, RootStays
<1>3. /\ view' \in Trees /\ Rooted(view') /\ saved' \in Trees /\ Rooted(saved')
      /\ committed' = committed /\ modified' \subseteq Nodes /\ created' \subseteq Nodes
  BY <1>2, RemovingFacts
<1>4. ObjectsClean'
  <2>1. /\ k \in [Nodes -> SUBSET Nodes] /\ \A m \in Nodes : Root \notin k[m]
        /\ C \subseteq Nodes
    BY AddedQueue DEF Inv, TypeOK, RootStays
  <2> HIDE DEF k, C
  <2>2. SetObjects(C, {}, StAfter(st, added, registered), val, k)
    BY DEF k, C
  <2> QED BY <2>1, <2>2, FlushedObjects
<1> QED BY <1>1, <1>3, <1>4, SentFacts, SentInv

LEMMA ClearInv ==
  ASSUME Inv, NEW p \in Nodes, Clear(p)
  PROVE  Inv'
<1> DEFINE k == [kids EXCEPT ![p] = {}]
           C == (cache \cup ToSet(added)) \ kids[p]
<1>1. /\ Using /\ Send(added, par, registered, keys, commands \cup kids[p])
      /\ SetObjects(C, {}, StAfter(st, added, registered), val, k)
      /\ Remember(registered, {p}, added) /\ Sent /\ Join
  BY DEF Clear, Clearing
<1>2. commands \cup kids[p] \subseteq Nodes \ {Root} /\ {p} \subseteq Nodes
  BY AddedQueue DEF Inv, TypeOK, RootStays
<1>3. /\ view' \in Trees /\ Rooted(view') /\ saved' \in Trees /\ Rooted(saved')
      /\ committed' = committed /\ modified' \subseteq Nodes /\ created' \subseteq Nodes
  BY <1>1, <1>2, RemovingFacts
<1>4. ObjectsClean'
  <2>1. /\ k \in [Nodes -> SUBSET Nodes] /\ \A m \in Nodes : Root \notin k[m]
        /\ C \subseteq Nodes
    BY <1>1, AddedQueue DEF Inv, TypeOK, RootStays
  <2> HIDE DEF k, C
  <2> QED BY <1>1, <2>1, FlushedObjects
<1> HIDE DEF k, C
<1> QED BY <1>1, <1>3, <1>4, JoinFacts, SentFacts, SentInv

LEMMA ClearRefusedInv ==
  ASSUME Inv, NEW p \in Nodes, ClearRefused(p)
  PROVE  Inv'
<1>1. /\ Using /\ Remember(registered, {p}, added) /\ Emptied
      /\ failed' = "refused" /\ needsToJoin' = FALSE /\ joined' = (joined \/ needsToJoin)
      /\ phase' = "active" /\ UNCHANGED <<before, committed>>
  BY DEF ClearRefused, Clearing, Using, Emptied
<1> DEFINE Gone(N, n) ==
             /\ Passes(added, par, registered, commands \cup N)
             /\ saved' = AfterCommands(added, par, keys, commands \cup N)
             /\ view' \in {saved', AfterCommands(added, par, keys, commands \cup N \cup {n})}
             /\ SetObjects((cache \cup ToSet(added)) \ N, {}, StAfter(st, added, registered),
                           val, kids)
             /\ commands' = {n}
<1>2. PICK N \in SUBSET kids[p] \ {{}} : \E n \in kids[p] \ N : Gone(N, n)
  BY DEF ClearRefused
<1>n. PICK n \in kids[p] \ N : Gone(N, n)
  BY <1>2
<1>3. /\ commands \cup N \subseteq Nodes \ {Root}
      /\ commands \cup N \cup {n} \subseteq Nodes \ {Root} /\ {n} \subseteq Nodes \ {Root}
  BY AddedQueue DEF Inv, TypeOK, RootStays
<1>4. view' \in Trees /\ Rooted(view') /\ saved' \in Trees /\ Rooted(saved')
  <2>1. TypeOK /\ Rooted(view) /\ Batch(added, par)
    BY <1>n, AddedQueue, AcceptedBatch DEF Inv, RootStays, Passes
  <2>2. /\ AfterCommands(added, par, keys, commands \cup N) \in Trees
        /\ Rooted(AfterCommands(added, par, keys, commands \cup N))
    BY <2>1, <1>3, AfterCommandsFacts
  <2>3. /\ AfterCommands(added, par, keys, commands \cup N \cup {n}) \in Trees
        /\ Rooted(AfterCommands(added, par, keys, commands \cup N \cup {n}))
    BY <2>1, <1>3, AfterCommandsFacts
  <2> QED BY <1>n, <2>2, <2>3
<1>5. ObjectsClean'
  <2>1. /\ kids \in [Nodes -> SUBSET Nodes] /\ \A m \in Nodes : Root \notin kids[m]
        /\ (cache \cup ToSet(added)) \ N \subseteq Nodes
    BY <1>1, AddedQueue DEF Inv, TypeOK, RootStays
  <2> QED BY <1>n, <2>1, FlushedObjects
<1>6. modified' \subseteq Nodes /\ created' \subseteq Nodes
  BY <1>1, AddedQueue DEF Inv, TypeOK, Remember
<1>7. commands' \subseteq Nodes \ {Root}
  BY <1>n, <1>3
<1> QED BY <1>1, <1>4, <1>5, <1>6, <1>7, JoinFacts, SentInv

LEMMA ReorderChildrenOkInv ==
  ASSUME Inv, Using, NEW R, R \subseteq Nodes, registered \subseteq R,
         Send(added, par, R, keys, commands),
         SetObjects(cache \cup ToSet(added), {}, StAfter(st, added, R), val, kids),
         Remember(R, {}, added), Sent, Join
  PROVE  Inv'
<1>1. /\ Queue(added, par) /\ commands \subseteq Nodes \ {Root}
      /\ {} \subseteq Nodes \ {Root} /\ {} \subseteq Nodes
  BY AddedQueue
<1>2. /\ view' \in Trees /\ Rooted(view') /\ saved' \in Trees /\ Rooted(saved')
      /\ committed' = committed /\ modified' \subseteq Nodes /\ created' \subseteq Nodes
  BY <1>1, SendingFacts
<1>3. ObjectsClean'
  <2>1. /\ StAfter(st, added, R) \in [Nodes -> States]
        /\ \A m \in Nodes : StAfter(st, added, R)[m] # "changed"
    BY StAfterFacts
  <2>2. /\ val \in [Nodes -> Vals] /\ kids \in [Nodes -> SUBSET Nodes]
        /\ \A m \in Nodes : Root \notin kids[m]
        /\ cache \cup ToSet(added) \subseteq Nodes
    BY AddedQueue DEF Inv, TypeOK, RootStays
  <2> QED BY <2>1, <2>2, CleanObjects
<1> QED BY <1>2, <1>3, JoinFacts, SentFacts, SentInv

\* A version that is in the cache, with what it holds, has a history.
LEMMA VersionFacts ==
  ASSUME Inv, NEW f \in Nodes, Live(f), f \in cache, view.par[f] \in cache
  PROVE  view.par[f] \in Nodes /\ view.par[view.par[f]] \in Nodes
<1>1. cache \subseteq Nodes /\ Rooted(view) /\ view \in Trees /\ Exists(view, f)
  BY DEF Inv, TypeOK, RootStays, Live
<1> QED BY <1>1 DEF Rooted, Exists, Trees

LEMMA RemoveFrozenOkInv ==
  ASSUME Inv, Using, NEW f, NEW version \in Nodes \ {Root}, NEW history \in Nodes,
         Send(added, par, registered, keys, commands \cup {version}),
         SetObjects((cache \cup ToSet(added)) \ {f}, {},
                    [StAfter(st, added, registered) EXCEPT ![version] = "ghost",
                                                           ![history] = "ghost"],
                    val, kids),
         Remember(registered, {history}, added), Sent, Join
  PROVE  Inv'
<1> DEFINE s == [StAfter(st, added, registered) EXCEPT ![version] = "ghost",
                                                       ![history] = "ghost"]
           C == (cache \cup ToSet(added)) \ {f}
<1>1. commands \cup {version} \subseteq Nodes \ {Root} /\ {history} \subseteq Nodes
  BY AddedQueue
<1>2. /\ view' \in Trees /\ Rooted(view') /\ saved' \in Trees /\ Rooted(saved')
      /\ committed' = committed /\ modified' \subseteq Nodes /\ created' \subseteq Nodes
  BY <1>1, RemovingFacts
<1>3. ObjectsClean'
  <2>1. s \in [Nodes -> States] /\ \A m \in Nodes : s[m] # "changed"
    <3>1. /\ StAfter(st, added, registered) \in [Nodes -> States]
          /\ \A m \in Nodes : StAfter(st, added, registered)[m] # "changed"
      BY StAfterFacts
    <3> QED BY <3>1 DEF States
  <2>2. /\ val \in [Nodes -> Vals] /\ kids \in [Nodes -> SUBSET Nodes]
        /\ \A m \in Nodes : Root \notin kids[m]
        /\ C \subseteq Nodes
    BY AddedQueue DEF Inv, TypeOK, RootStays
  <2>3. SetObjects(C, {}, s, val, kids)
    OBVIOUS
  <2> HIDE DEF s, C
  <2> QED BY <2>1, <2>2, <2>3, CleanObjects
<1> QED BY <1>2, <1>3, JoinFacts, SentFacts, SentInv

-----------------------------------------------------------------------------
(* What every application keeps: commands of their own.                    *)

\* What a savepoint before a command makes of the session.
LEMMA FlushedFacts ==
  ASSUME Inv, Pending => Passes(added, par, registered, commands)
  PROVE  /\ Flushed \in Trees /\ Rooted(Flushed) /\ Persisted \in Trees /\ Rooted(Persisted)
         /\ \A n \in Nodes : n \notin ToSet(added) /\ ~Exists(view, n) => ~Exists(Flushed, n)
<1>1. /\ TypeOK /\ Rooted(view) /\ Rooted(saved) /\ view \in Trees /\ saved \in Trees
      /\ Queue(added, par) /\ commands \subseteq Nodes \ {Root}
  BY AddedQueue DEF Inv, RootStays, TypeOK
<1>2. CASE ~Pending
  BY <1>1, <1>2 DEF Flushed, Persisted
<1>3. CASE Pending
  <2> DEFINE t == SentTree(added, par, keys)
             N == UNION {SubTree(t, n) : n \in commands}
  <2>1. Batch(added, par)
    BY <1>1, <1>3, AcceptedBatch DEF Passes
  <2>2. Flushed = AfterCommands(added, par, keys, commands) /\ Persisted = Flushed
    BY <1>3 DEF Flushed, Persisted
  <2>3. Flushed \in Trees /\ Rooted(Flushed)
    BY <1>1, <2>1, <2>2, AfterCommandsFacts
  <2>4. /\ t \in Trees
        /\ \A n \in Nodes : t.par[n] = IF n \in ToSet(added) THEN par[n] ELSE view.par[n]
    BY <1>1, <2>1, SentTreeFacts
  <2>5. AfterCommands(added, par, keys, commands) = Without(t, N)
    BY DEF AfterCommands, SentTree, Written
  <2> HIDE DEF t, N
  <2>6. \A n \in Nodes : Without(t, N).par[n] = IF n \in N THEN NoNode ELSE t.par[n]
    BY <2>4, WithoutFacts
  <2> QED BY <2>2, <2>3, <2>4, <2>5, <2>6 DEF Exists
<1> QED BY <1>2, <1>3

\* The objects after such a command.
LEMMA ChangedInBackendFacts ==
  ASSUME Inv, NEW n \in Nodes, NEW N, N \subseteq Nodes,
         ChangedInBackend(n, N)
  PROVE  ObjectsClean' /\ modified' \subseteq Nodes /\ created' \subseteq Nodes
<1> DEFINE here == cache \cup ToSet(added) \cup {n}
           gone == {n} \cup (N \cap here)
           s == [m \in Nodes |-> IF m \in gone THEN "ghost"
                                 ELSE StAfter(st, added, registered)[m]]
<1>1. SetObjects(here, {}, s, val, kids) /\ Remember(registered, gone, added)
  BY DEF ChangedInBackend
<1>2. s \in [Nodes -> States] /\ \A m \in Nodes : s[m] # "changed"
  <2>1. /\ StAfter(st, added, registered) \in [Nodes -> States]
        /\ \A m \in Nodes : StAfter(st, added, registered)[m] # "changed"
    BY StAfterFacts
  <2> QED BY <2>1 DEF States
<1>3. /\ val \in [Nodes -> Vals] /\ kids \in [Nodes -> SUBSET Nodes]
      /\ \A m \in Nodes : Root \notin kids[m]
      /\ here \subseteq Nodes /\ gone \subseteq Nodes /\ ToSet(added) \subseteq Nodes
  BY AddedQueue DEF Inv, TypeOK, RootStays
<1> HIDE DEF s, here, gone
<1>4. ObjectsClean'
  BY <1>1, <1>2, <1>3, CleanObjects
<1> QED BY <1>1, <1>3, <1>4 DEF Inv, TypeOK, Remember

\* A command of its own keeps Inv if it leaves trees.
LEMMA CommandInv ==
  ASSUME Inv, Using, NEW n \in Nodes, NEW N, N \subseteq Nodes,
         ChangedInBackend(n, N), Sent, Join, committed' = committed,
         view' \in Trees, Rooted(view'), saved' \in Trees, Rooted(saved')
  PROVE  Inv'
BY ChangedInBackendFacts, JoinFacts, SentFacts, SentInv

\* The node has another parent, which is in the tree.
LEMMA MoveInv ==
  ASSUME Inv, NEW n \in Nodes, NEW d \in Nodes, Move(n, d)
  PROVE  Inv'
<1>1. /\ Using /\ n # Root /\ Exists(Flushed, n) /\ Exists(Flushed, d)
      /\ Pending => Passes(added, par, registered, commands)
      /\ view' = [Flushed EXCEPT !.par[n] = d] /\ saved' = Persisted
      /\ ChangedInBackend(Flushed.par[n], {n, d}) /\ Sent /\ Join /\ committed' = committed
  BY DEF Move, Flushing
<1>2. /\ Flushed \in Trees /\ Rooted(Flushed) /\ Persisted \in Trees /\ Rooted(Persisted)
      /\ Exists(Flushed, n) /\ Exists(Flushed, d)
  BY <1>1, FlushedFacts
<1>3. view' \in Trees /\ Rooted(view')
  <2> DEFINE t == Flushed
  <2>1. t \in Trees /\ Rooted(t) /\ Exists(t, n) /\ Exists(t, d) /\ view' = [t EXCEPT !.par[n] = d]
    BY <1>1, <1>2
  <2> HIDE DEF t
  <2>2. /\ view' \in Trees
        /\ \A m \in Nodes : view'.par[m] = IF m = n THEN d ELSE t.par[m]
    BY <2>1 DEF Trees
  <2> QED BY <1>1, <2>1, <2>2, ScopeAssumption DEF Rooted, Exists, Trees
<1>4. Flushed.par[n] \in Nodes /\ {n, d} \subseteq Nodes
  BY <1>2 DEF Exists, Trees
<1> QED BY <1>1, <1>2, <1>3, <1>4, CommandInv

LEMMA CheckpointInv ==
  ASSUME Inv, NEW n \in Nodes, NEW v \in Vals, Checkpoint(n, v)
  PROVE  Inv'
<1>1. /\ Using /\ Sent /\ Join /\ committed' = committed
      /\ Pending => Passes(added, par, registered, commands)
      /\ view' = [Flushed EXCEPT !.val[n] = v] /\ saved' = [Persisted EXCEPT !.val[n] = v]
      /\ ChangedInBackend(n, {})
  BY DEF Checkpoint, InWorkspace, Flushing
<1>2. /\ Flushed \in Trees /\ Rooted(Flushed) /\ Persisted \in Trees /\ Rooted(Persisted)
  BY <1>1, FlushedFacts
<1>3. ASSUME NEW t \in Trees, Rooted(t)
      PROVE  [t EXCEPT !.val[n] = v] \in Trees /\ Rooted([t EXCEPT !.val[n] = v])
  BY <1>3 DEF Trees, Rooted, Exists
<1>4. view' \in Trees /\ Rooted(view') /\ saved' \in Trees /\ Rooted(saved')
  BY <1>1, <1>2, <1>3
<1>5. {} \subseteq Nodes
  OBVIOUS
<1> QED BY <1>1, <1>4, <1>5, CommandInv

\* Trees of the same shape have the same nodes under a node.
LEMMA SameShape ==
  ASSUME NEW t, NEW u, t.par = u.par, NEW n
  PROVE  SubTree(t, n) = SubTree(u, n) /\ Below(t, n) = Below(u, n)
BY DEF SubTree, Below

\* What the version does not have goes, with all that is under it.
LEMMA RestoreInv ==
  ASSUME Inv, NEW n \in Nodes, NEW v \in Vals, Restore(n, v)
  PROVE  Inv'
<1>1. Using /\ (Pending => Passes(added, par, registered, commands))
  BY DEF Restore, Flushing
<1> DEFINE F == Flushed  P == Persisted
           gone(N) == UNION {SubTree(F, k) : k \in N}
           Value(t, N) == [m \in Nodes |-> IF m \in SubTree(t, n) \ gone(N) THEN v
                                           ELSE Without(t, gone(N)).val[m]]
           Restored(t, N) == [Without(t, gone(N)) EXCEPT !.val = Value(t, N)]
<1>2. PICK N \in SUBSET Below(F, n) :
        /\ InWorkspace(Restored(F, N), Restored(P, N))
        /\ ChangedInBackend(n, SubTree(F, n) \ gone(N))
  BY Zenon DEF Restore
<1>3. /\ F \in Trees /\ Rooted(F) /\ P \in Trees /\ Rooted(P) /\ F.par = P.par
      /\ Sent /\ Join /\ committed' = committed
      /\ view' = Restored(F, N) /\ saved' = Restored(P, N)
  BY <1>1, <1>2, FlushedFacts DEF InWorkspace
<1> HIDE DEF F, P
<1>4. N \in SUBSET (Nodes \ {Root})
  BY DEF Below
<1>5. ASSUME NEW t \in Trees, Rooted(t), t.par = F.par
      PROVE  Restored(t, N) \in Trees /\ Rooted(Restored(t, N))
  <2>1. Rooted(Without(t, UNION {SubTree(t, k) : k \in N}))
    BY <1>4, <1>5, RootedWithout
  <2>2. \A k : SubTree(t, k) = SubTree(F, k)
    BY <1>5, SameShape
  <2>3. Rooted(Without(t, gone(N)))
    BY <2>1, <2>2
  <2>4. Without(t, gone(N)) \in Trees
    BY <1>5, WithoutFacts
  <2> DEFINE u == Without(t, gone(N))  w == Value(t, N)
  <2>5. w \in [Nodes -> Vals]
    BY <2>4 DEF Trees
  <2> HIDE DEF u, w
  <2>6. [u EXCEPT !.val = w] \in Trees /\ Rooted([u EXCEPT !.val = w])
    BY <2>3, <2>4, <2>5 DEF Trees, Rooted, Exists, u
  <2> QED BY <2>6 DEF u, w
<1>6. view' \in Trees /\ Rooted(view') /\ saved' \in Trees /\ Rooted(saved')
  BY <1>3, <1>5
<1>7. SubTree(F, n) \ gone(N) \subseteq Nodes
  BY SubTreeFacts
<1> QED BY <1>1, <1>2, <1>3, <1>6, <1>7, CommandInv

\* The copies are below the target, or below one another.
LEMMA CopyInv ==
  ASSUME Inv, NEW n \in Nodes, NEW d \in Nodes, Copy(n, d)
  PROVE  Inv'
<1>1. /\ Using /\ n # Root /\ Exists(Flushed, d) /\ ChangedInBackend(d, {})
      /\ Pending => Passes(added, par, registered, commands)
  BY DEF Copy, Flushing
<1> DEFINE F == Flushed  P == Persisted
           from(f, m) == CHOOSE k \in DOMAIN f : f[k] = m
           Copied(t, f) ==
             [par |-> [m \in Nodes |-> IF m = f[n] THEN d
                                       ELSE IF m \in Range(f) THEN f[t.par[from(f, m)]]
                                       ELSE t.par[m]],
              val |-> [m \in Nodes |-> t.val[IF m \in Range(f) THEN from(f, m) ELSE m]]]
<1>2. PICK f \in [SubTree(F, n) -> {m \in Nodes : Fresh(m)}] :
        InWorkspace(Copied(F, f), Copied(P, f))
  BY Zenon DEF Copy
<1>3. /\ F \in Trees /\ Rooted(F) /\ P \in Trees /\ Rooted(P) /\ F.par = P.par
      /\ Sent /\ Join /\ committed' = committed
      /\ view' = Copied(F, f) /\ saved' = Copied(P, f)
      /\ Exists(F, d)
      /\ \A m \in Nodes : m \notin ToSet(added) /\ ~Exists(view, m) => ~Exists(F, m)
  BY <1>1, <1>2, FlushedFacts DEF InWorkspace
<1>4. \A m \in Nodes : Fresh(m) => ~Exists(F, m)
  BY <1>3 DEF Fresh
<1> HIDE DEF F, P
<1>5. /\ SubTree(F, n) \subseteq Nodes /\ n \in SubTree(F, n)
      /\ \A k \in SubTree(F, n) \ {n} : F.par[k] \in SubTree(F, n)
  BY SubTreeFacts
<1>6. /\ Range(f) \subseteq Nodes /\ \A k \in SubTree(F, n) : f[k] \in Range(f)
      /\ \A m \in Range(f) : ~Exists(F, m)
      /\ \A m \in Range(f) : from(f, m) \in SubTree(F, n) /\ f[from(f, m)] = m
  <2>1. /\ Range(f) \subseteq Nodes /\ \A k \in SubTree(F, n) : f[k] \in Range(f)
        /\ \A m \in Range(f) : ~Exists(F, m)
        /\ \A m \in Range(f) : \E k \in DOMAIN f : f[k] = m
    BY <1>4 DEF Range
  <2> QED BY <2>1
<1>7. Root \in Nodes /\ NoNode \notin Nodes
  BY ScopeAssumption
<1>8. ASSUME NEW t \in Trees, Rooted(t), t.par = F.par
      PROVE  Copied(t, f) \in Trees /\ Rooted(Copied(t, f))
  <2> DEFINE u == Copied(t, f)
             o(m) == from(f, m)
  <2>1. \A m \in Range(f) : /\ o(m) \in SubTree(F, n) /\ f[o(m)] = m /\ o(m) \in Nodes
                            /\ m # f[n] => /\ t.par[o(m)] \in SubTree(F, n)
                                           /\ f[t.par[o(m)]] \in Range(f)
    BY <1>5, <1>6, <1>8
  <2>2. \A m \in Nodes : u.par[m] = IF m = f[n] THEN d
                                    ELSE IF m \in Range(f) THEN f[t.par[o(m)]]
                                    ELSE t.par[m]
    OBVIOUS
  <2>3. u.val = [m \in Nodes |-> t.val[IF m \in Range(f) THEN o(m) ELSE m]]
    OBVIOUS
  <2>4. u = [par |-> u.par, val |-> u.val] /\ DOMAIN u.par = Nodes
        /\ u.par = [m \in Nodes |-> u.par[m]]
    OBVIOUS
  <2> HIDE DEF u, o
  <2>5. u.val \in [Nodes -> Vals]
    BY <2>1, <2>3 DEF Trees
  <2>6. \A m \in Range(f) : u.par[m] \in Range(f) \cup {d} /\ u.par[m] \in Nodes
    BY <2>1, <2>2, <1>6
  <2>7. \A m \in Nodes \ Range(f) : u.par[m] = t.par[m]
    BY <2>2, <1>5, <1>6
  <2>8. u \in Trees
    <3>1. \A m \in Nodes : u.par[m] \in Nodes \cup {NoNode}
      BY <2>6, <2>7 DEF Trees
    <3>2. u.par \in [Nodes -> Nodes \cup {NoNode}]
      BY <3>1, <2>4
    <3> QED BY <3>2, <2>4, <2>5 DEF Trees
  <2>9. Exists(F, Root) /\ \A m \in Nodes : Exists(F, m) <=> Exists(t, m)
    BY <1>3, <1>7, <1>8 DEF Rooted, Exists
  <2>10. u.par[Root] = Root
    BY <2>7, <2>9, <1>6, <1>7, <1>8 DEF Rooted
  <2>11. \A m \in Nodes : Exists(F, m) => Exists(u, m)
    BY <2>7, <2>9, <1>6 DEF Exists
  <2>12. \A m \in Range(f) : Exists(u, m)
    BY <2>6, <1>7 DEF Exists
  <2>13. ASSUME NEW m \in Nodes, Exists(u, m) PROVE Exists(u, u.par[m])
    <3>1. CASE m \in Range(f)
      BY <3>1, <2>6, <2>11, <2>12, <1>3
    <3>2. CASE m \notin Range(f)
      <4>1. Exists(t, m) /\ u.par[m] = t.par[m]
        BY <3>2, <2>7, <2>13 DEF Exists
      <4>2. Exists(t, t.par[m]) /\ t.par[m] \in Nodes
        BY <4>1, <1>8 DEF Rooted, Exists, Trees
      <4> QED BY <4>1, <4>2, <2>9, <2>11
    <3> QED BY <3>1, <3>2
  <2> QED BY <2>8, <2>10, <2>13 DEF Rooted, u
<1>9. view' \in Trees /\ Rooted(view') /\ saved' \in Trees /\ Rooted(saved')
  BY <1>3, <1>8
<1>10. {} \subseteq Nodes
  OBVIOUS
<1> QED BY <1>1, <1>3, <1>9, <1>10, CommandInv

-----------------------------------------------------------------------------
(* What every application keeps: objects come, change and go.              *)

\* A step that only loads or unloads objects.
LEMMA ObjectsInv ==
  ASSUME Inv, Using, UNCHANGED <<unsent, undo, txn, server>>,
         cache' \subseteq Nodes, st' \in [Nodes -> States], val' \in [Nodes -> Vals],
         kids' \in [Nodes -> SUBSET Nodes],
         \A n \in Nodes : /\ Root \notin kids'[n]
                          /\ st'[n] = "ghost" => kids'[n] = {}
                          /\ st'[n] # "ghost" => n \in cache' \cup ToSet(added)
                          /\ st'[n] = "changed" => st[n] = "changed",
         joined => \A a \in ToSet(added) : /\ a \notin cache' /\ st'[a] = st[a]
                                           /\ par[a] \in cache => par[a] \in cache'
  PROVE  Inv'
<1> USE DEF unsent, undo, txn, server
<1>1. TypeOK'
  BY DEF Inv, TypeOK
<1>2. RootStays' /\ StatesKept' /\ EndsSent' /\ NothingHalfDone'
  BY DEF Inv, RootStays, Rooted, Exists, StatesKept, EndsSent, NothingHalfDone
<1>3. AddedApart'
  BY DEF Inv, AddedApart, Exists
<1>4. ParentsFirst'
  <2> SUFFICES ASSUME joined, NEW i \in DOMAIN added
               PROVE  par[added[i]] \in cache' \cup {added[j] : j \in 1..(i - 1)}
    BY DEF ParentsFirst
  <2>1. par[added[i]] \in cache \cup {added[j] : j \in 1..(i - 1)}
    BY DEF Inv, ParentsFirst
  <2>2. added[i] \in ToSet(added)
    BY DEF ToSet
  <2> QED BY <2>1, <2>2
<1> QED BY <1>1, <1>2, <1>3, <1>4 DEF Inv

LEMMA LoadInv ==
  ASSUME Inv, NEW n \in Nodes, Load(n)
  PROVE  Inv'
<1> DEFINE C == cache \cup Below(view, n) \cup {view.par[n]}
           A == ToSet(added)
           s == [st EXCEPT ![n] = "uptodate"]
           v == [val EXCEPT ![n] = view.val[n]]
           k == [kids EXCEPT ![n] = Below(view, n)]
<1>1. /\ Using /\ n \in cache /\ Exists(view, n) /\ st[n] = "ghost"
      /\ SetObjects(C, A, s, v, k) /\ UNCHANGED <<unsent, undo, txn, server>>
  BY DEF Load
<1>2. /\ C \subseteq Nodes /\ A \subseteq Nodes /\ s \in [Nodes -> States]
      /\ v \in [Nodes -> Vals] /\ k \in [Nodes -> SUBSET Nodes]
      /\ \A m \in Nodes : /\ Root \notin k[m]
                          /\ s[m] = IF m = n THEN "uptodate" ELSE st[m]
  BY <1>1, ToSetFacts DEF Inv, TypeOK, RootStays, Exists, Trees, States, Below
<1>3. joined => \A a \in A : a \notin C /\ st[a] # "ghost" /\ s[a] = st[a]
  <2>1. NoNode \notin Nodes /\ Rooted(view) /\ view \in Trees
    BY ScopeAssumption DEF Inv, RootStays, TypeOK
  <2> SUFFICES ASSUME joined, NEW a \in A PROVE a \notin C /\ st[a] # "ghost" /\ s[a] = st[a]
    OBVIOUS
  <2>2. a \notin cache /\ ~Exists(view, a) /\ st[a] # "ghost"
    BY <1>1 DEF Inv, AddedApart, Using
  <2>3. a \notin Below(view, n)
    BY <2>1, <2>2, <1>1 DEF Below, Exists
  <2>4. a # view.par[n]
    BY <2>1, <2>2, <1>1 DEF Rooted
  <2> QED BY <2>2, <2>3, <2>4, <1>1, <1>2
<1> HIDE DEF C, A, s, v, k
<1>4. /\ cache' = C /\ st' \in [Nodes -> States]
      /\ val' \in [Nodes -> Vals] /\ kids' \in [Nodes -> SUBSET Nodes]
      /\ \A m \in Nodes :
           /\ st'[m] # "ghost" => m \in C \cup A /\ st'[m] = s[m] /\ kids'[m] = k[m]
           /\ st'[m] = "ghost" => kids'[m] = {}
           /\ m \in C \cup A => st'[m] = s[m]
  BY <1>1, <1>2, InitiallyFacts DEF SetObjects
<1>5. joined => \A a \in A : a \notin cache' /\ st'[a] = st[a]
  BY <1>2, <1>3, <1>4
<1>6. cache \subseteq cache'
  BY <1>4 DEF C
<1> QED BY <1>1, <1>2, <1>4, <1>5, <1>6, ObjectsInv DEF A

LEMMA DeactivateInv ==
  ASSUME Inv, NEW n \in Nodes, Deactivate(n)
  PROVE  Inv'
<1> DEFINE A == ToSet(added)
           s == [st EXCEPT ![n] = "ghost"]
<1>1. /\ Using /\ n \in cache /\ st[n] = "uptodate"
      /\ SetObjects(cache, A, s, val, kids) /\ UNCHANGED <<unsent, undo, txn, server>>
  BY DEF Deactivate
<1>2. /\ cache \subseteq Nodes /\ A \subseteq Nodes /\ s \in [Nodes -> States]
      /\ val \in [Nodes -> Vals] /\ kids \in [Nodes -> SUBSET Nodes]
      /\ \A m \in Nodes : /\ Root \notin kids[m]
                          /\ s[m] = IF m = n THEN "ghost" ELSE st[m]
  BY <1>1, ToSetFacts DEF Inv, TypeOK, RootStays, States
<1>3. joined => \A a \in A : a \notin cache /\ st[a] # "ghost" /\ s[a] = st[a]
  BY <1>1, <1>2 DEF Inv, AddedApart
<1> HIDE DEF A, s
<1>4. /\ cache' = cache /\ st' \in [Nodes -> States]
      /\ val' \in [Nodes -> Vals] /\ kids' \in [Nodes -> SUBSET Nodes]
      /\ \A m \in Nodes :
           /\ st'[m] # "ghost" => m \in cache \cup A /\ st'[m] = s[m] /\ kids'[m] = kids[m]
           /\ st'[m] = "ghost" => kids'[m] = {}
           /\ m \in cache \cup A => st'[m] = s[m]
  BY <1>1, <1>2, InitiallyFacts DEF SetObjects
<1>5. joined => \A a \in A : a \notin cache' /\ st'[a] = st[a]
  BY <1>1, <1>2, <1>3, <1>4
<1> QED BY <1>1, <1>2, <1>4, <1>5, ObjectsInv DEF A

\* The parent of an added object, which refers to it, is not collected.
LEMMA CollectInv ==
  ASSUME Inv, NEW n \in Nodes, Collect(n)
  PROVE  Inv'
<1>1. /\ Using /\ n \in cache \ {Root} /\ st[n] = "ghost" /\ n \notin Referenced(st)
      /\ cache' = cache \ {n} /\ UNCHANGED <<st, val, kids, unsent, undo, txn, server>>
  BY DEF Collect
<1>2. ASSUME joined, NEW a \in ToSet(added)
      PROVE  a \notin cache' /\ st'[a] = st[a] /\ par[a] # n
  <2>1. a \notin cache /\ st[a] # "ghost"
    BY <1>2 DEF Inv, AddedApart
  <2>2. par[a] \in Referenced(st)
    BY <2>1 DEF Referenced
  <2> QED BY <2>1, <2>2, <1>1
<1>3. /\ cache' \subseteq Nodes /\ st' \in [Nodes -> States] /\ val' \in [Nodes -> Vals]
      /\ kids' \in [Nodes -> SUBSET Nodes]
      /\ \A m \in Nodes : /\ Root \notin kids'[m]
                          /\ st'[m] = "ghost" => kids'[m] = {}
                          /\ st'[m] # "ghost" => m \in cache' \cup ToSet(added)
                          /\ st'[m] = "changed" => st[m] = "changed"
  BY <1>1 DEF Inv, TypeOK, RootStays, StatesKept
<1> QED BY <1>1, <1>2, <1>3, ObjectsInv

LEMMA SetPropertyInv ==
  ASSUME Inv, NEW n \in Nodes, NEW w \in Vals, SetProperty(n, w)
  PROVE  Inv'
<1>1. /\ Using /\ Loaded(n) /\ val' = [val EXCEPT ![n] = w]
      /\ UNCHANGED <<cache, kids, par, added, undo, server, phase, failed, before>>
  BY DEF SetProperty, Join, txn
<1>c. commands' = commands
  BY DEF SetProperty
<1>2. CASE n \in ToSet(added)
  <2>1. UNCHANGED <<st, registered, keys, txn>>
    BY <1>2 DEF SetProperty
  <2> USE <1>1, <1>c, <2>1 DEF undo, server, txn
  <2>2. TypeOK'
    BY DEF Inv, TypeOK
  <2>3. RootStays' /\ StatesKept' /\ EndsSent' /\ NothingHalfDone'
    BY DEF Inv, RootStays, Rooted, Exists, StatesKept, EndsSent, NothingHalfDone
  <2>4. AddedApart' /\ ParentsFirst'
    BY DEF Inv, AddedApart, ParentsFirst, Exists
  <2> QED BY <2>2, <2>3, <2>4 DEF Inv
<1>3. CASE n \notin ToSet(added)
  <2>1. /\ st' = [st EXCEPT ![n] = "changed"]
        /\ registered' = registered \cup Registering(n) /\ keys' = keys \cup {n}
        /\ IF Registering(n) = {} THEN UNCHANGED txn ELSE Join
    BY <1>3 DEF SetProperty
  <2>2. /\ n \in cache /\ st[n] # "ghost" /\ n \in registered'
        /\ n \notin registered => Registering(n) # {}
    BY <1>1, <1>3, <2>1 DEF Loaded, Registering, Inv, TypeOK, StatesKept, States
  <2>3. Registering(n) \subseteq {n} /\ (Registering(n) # {} => needsToJoin' = FALSE)
    BY <2>1 DEF Registering, Join
  <2> USE <1>1, <1>c, <1>3, <2>1, <2>2, <2>3 DEF undo, server
  <2>4. /\ needsToJoin' \in BOOLEAN /\ joined' \in BOOLEAN
        /\ needsToJoin' => ~joined' /\ needsToJoin /\ registered' = registered
        /\ joined' # joined => needsToJoin /\ joined'
    BY DEF Join, txn, Inv, TypeOK, EndsSent
  <2>5. TypeOK'
    BY <2>4 DEF Inv, TypeOK, States
  <2>6. RootStays'
    BY DEF Inv, RootStays, Rooted, Exists
  <2>7. StatesKept'
    BY DEF Inv, TypeOK, StatesKept
  <2>8. EndsSent'
    BY <2>4 DEF Inv, EndsSent, Using
  <2>9. AddedApart'
    <3>1. ASSUME NEW a \in ToSet(added), joined
          PROVE  a \notin cache' /\ st'[a] \in {"uptodate", "changed"}
      BY <3>1 DEF Inv, AddedApart, TypeOK
    <3>2. joined' /\ ~joined => ToSet(added) = {}
      BY <2>4, ToSetFacts DEF Inv, EndsSent
    <3> QED BY <3>1, <3>2 DEF Inv, AddedApart, Exists
  <2>10. ParentsFirst'
    <3>1. joined' /\ ~joined => DOMAIN added = {}
      <4>1. joined' /\ ~joined => added = <<>>
        BY <2>4 DEF Inv, EndsSent
      <4>2. DOMAIN <<>> = {}
        OBVIOUS
      <4> QED BY <4>1, <4>2
    <3> QED BY <3>1 DEF Inv, ParentsFirst
  <2>11. NothingHalfDone'
    BY <2>4 DEF Inv, NothingHalfDone
  <2> QED BY <2>5, <2>6, <2>7, <2>8, <2>9, <2>10, <2>11 DEF Inv
<1> QED BY <1>2, <1>3

\* The new object comes last, after its parent.
LEMMA AddPropertyInv ==
  ASSUME Inv, NEW p \in Nodes, NEW n \in Nodes, AddProperty(p, n)
  PROVE  Inv'
<1>1. /\ Using /\ Live(p) /\ Loaded(p) /\ Fresh(n) /\ Join
      /\ added' = Queued(n) /\ par' = [par EXCEPT ![n] = p]
      /\ st' = [st EXCEPT ![n] = "uptodate", ![p] = "changed"]
      /\ kids' = [kids EXCEPT ![p] = @ \cup {n}]
      /\ registered' = registered \cup Registering(p)
      /\ modified' = modified \cup {p}
      /\ UNCHANGED <<cache, val, keys, commands, created, view, saved, committed>>
  BY DEF AddProperty, server
<1>2. /\ Queue(Queued(n), [par EXCEPT ![n] = p]) /\ Queue(added, par)
      /\ ToSet(Queued(n)) = ToSet(added) \cup {n} /\ ToSet(added) \subseteq Nodes
      /\ n # Root /\ n # p /\ n \notin cache \cup ToSet(added) /\ ~Exists(view, n)
      /\ p \in ToSet(added) \/ Exists(view, p)
  BY <1>1, QueuedFacts, AddedQueue
<1>3. /\ needsToJoin' = FALSE /\ joined' \in BOOLEAN
      /\ phase' = "active" /\ failed' = "no" /\ before' = before
      /\ joined' => joined \/ needsToJoin
      /\ needsToJoin => added = <<>> /\ ToSet(added) = {} /\ DOMAIN added = {}
      /\ joined' => commands = {}
  <2>1. /\ needsToJoin' = FALSE /\ joined' = (joined \/ needsToJoin)
        /\ phase' = "active" /\ failed' = "no" /\ before' = before
        /\ (joined \/ needsToJoin) \in BOOLEAN /\ failed = "no"
    BY <1>1, JoinFacts DEF Using
  <2>2. needsToJoin => added = <<>>
    BY DEF Inv, EndsSent
  <2>3. joined \/ needsToJoin => commands = {}
    BY <2>1 DEF Inv, EndsSent
  <2>4. DOMAIN <<>> = {}
    OBVIOUS
  <2> QED BY <2>1, <2>2, <2>3, <2>4, ToSetFacts
<1>4. Registering(p) \subseteq {p} /\ registered \subseteq Nodes
  BY DEF Registering, Inv, TypeOK
<1>5. TypeOK'
  <2>1. added' \in Seq(Nodes) /\ IsInjective(added')
    BY <1>1, <1>2, AppendFacts DEF Inv, TypeOK, Queued
  <2>2. /\ st' \in [Nodes -> States] /\ kids' \in [Nodes -> SUBSET Nodes]
        /\ par' \in [Nodes -> Nodes \cup {NoNode}]
    BY <1>1 DEF Inv, TypeOK, States
  <2> QED BY <1>1, <1>3, <1>4, <2>1, <2>2 DEF Inv, TypeOK
<1>6. RootStays'
  <2>1. Root \notin ToSet(added')
    BY <1>1, <1>2 DEF Inv, RootStays
  <2>2. \A m \in Nodes : Root \notin kids'[m]
    BY <1>1, <1>2 DEF Inv, RootStays, TypeOK
  <2> QED BY <1>1, <2>1, <2>2 DEF Inv, RootStays, Rooted, Exists
<1>7. StatesKept'
  <2>1. ToSet(added') = ToSet(added) \cup {n}
    BY <1>1, <1>2
  <2>2. p \in cache \cup ToSet(added) /\ st[p] \notin {"ghost", "orphan"}
    BY <1>1 DEF Loaded
  <2>3. p \in registered' \cup ToSet(added)
    BY <1>1, <2>2 DEF Registering, Inv, StatesKept, TypeOK, States
  <2>4. /\ st'[n] = "uptodate" /\ st'[p] = "changed"
        /\ \A m \in Nodes \ {n, p} : st'[m] = st[m] /\ kids'[m] = kids[m]
        /\ cache' = cache /\ registered \subseteq registered'
    BY <1>1, <1>2 DEF Inv, TypeOK
  <2>5. ASSUME NEW m \in Nodes \ {n, p}
        PROVE  /\ st[m] = "ghost" => kids[m] = {}
               /\ st[m] # "ghost" => m \in cache \cup ToSet(added)
               /\ st[m] = "changed" => m \in registered \cup ToSet(added)
    BY DEF Inv, StatesKept
  <2>6. ASSUME NEW m \in Nodes
        PROVE  /\ st'[m] = "ghost" => kids'[m] = {}
               /\ st'[m] # "ghost" => m \in cache' \cup ToSet(added')
               /\ st'[m] = "changed" => m \in registered' \cup ToSet(added')
    <3>1. CASE m \in {n, p}
      BY <3>1, <2>1, <2>2, <2>3, <2>4
    <3>2. CASE m \notin {n, p}
      BY <3>2, <2>1, <2>4, <2>5
    <3> QED BY <3>1, <3>2
  <2> QED BY <2>6 DEF StatesKept
<1>8. EndsSent'
  BY <1>1, <1>3 DEF EndsSent
<1>9. AddedApart'
  <2>1. joined' => joined \/ ToSet(added) = {}
    BY <1>3
  <2>2. ToSet(added') = ToSet(added) \cup {n}
    BY <1>1, <1>2
  <2>3. ASSUME NEW a \in ToSet(added) \cup {n}
        PROVE  /\ par'[a] \in Nodes
               /\ joined' => /\ a \notin cache' /\ st'[a] \in {"uptodate", "changed"}
                             /\ ~Exists(view, a)
                             /\ par'[a] \in ToSet(added) \cup {n} \/ Exists(view, par'[a])
    <3>1. CASE a = n
      BY <3>1, <1>1, <1>2 DEF Inv, TypeOK
    <3>2. CASE a # n
      <4>1. /\ a \in ToSet(added) /\ par'[a] = par[a] /\ par[a] \in Nodes
            /\ joined' => /\ a \notin cache /\ st[a] \in {"uptodate", "changed"}
                          /\ ~Exists(view, a)
                          /\ par[a] \in ToSet(added) \/ Exists(view, par[a])
        BY <3>2, <2>1, <1>1, <1>2 DEF Inv, AddedApart, Using, TypeOK
      <4> QED BY <4>1, <1>1, <1>2, <3>2 DEF Inv, TypeOK
    <3> QED BY <3>1, <3>2
  <2> QED BY <2>2, <2>3, <1>1 DEF AddedApart, Exists
<1>10. ParentsFirst'
  <2> SUFFICES ASSUME joined', NEW i \in DOMAIN added'
               PROVE  par'[added'[i]] \in cache' \cup {added'[j] : j \in 1..(i - 1)}
    BY DEF ParentsFirst
  <2>1. /\ added \in Seq(Nodes)
        /\ \A j \in DOMAIN added : added'[j] = added[j]
        /\ DOMAIN added' = DOMAIN added \cup {Len(added) + 1}
        /\ added'[Len(added) + 1] = n
    BY <1>1, AppendFacts DEF Queued, Inv, TypeOK
  <2>2. DOMAIN added = 1..Len(added) /\ Len(added) \in Nat
    BY <2>1
  <2>3. CASE i = Len(added) + 1
    <3>1. par'[added'[i]] = p
      BY <2>1, <2>3, <1>1 DEF Inv, TypeOK
    <3>2. p \in cache \cup ToSet(added)
      BY <1>1 DEF Loaded
    <3>3. ToSet(added) = {added'[j] : j \in 1..(i - 1)}
      BY <2>1, <2>2, <2>3 DEF ToSet
    <3> QED BY <3>1, <3>2, <3>3, <1>1
  <2>4. CASE i \in DOMAIN added
    <3>1. added'[i] = added[i] /\ added[i] \in ToSet(added) /\ i \in 1..Len(added)
      BY <2>1, <2>2, <2>4 DEF ToSet
    <3>2. par'[added[i]] = par[added[i]]
      BY <3>1, <1>1, <1>2 DEF Inv, TypeOK
    <3>3. joined
      BY <1>3, <2>4
    <3>4. par[added[i]] \in cache \cup {added[j] : j \in 1..(i - 1)}
      BY <3>3, <2>4 DEF Inv, ParentsFirst
    <3>5. {added[j] : j \in 1..(i - 1)} = {added'[j] : j \in 1..(i - 1)}
      BY <2>1, <2>2, <3>1
    <3> QED BY <3>1, <3>2, <3>4, <3>5, <1>1
  <2> QED BY <2>1, <2>3, <2>4
<1>11. NothingHalfDone'
  BY <1>3 DEF NothingHalfDone
<1> QED BY <1>5, <1>6, <1>7, <1>8, <1>9, <1>10, <1>11 DEF Inv

-----------------------------------------------------------------------------
(* What every application keeps: refusals and the transaction manager.     *)

\* The first objects of a queue are a queue.
LEMMA SubQueue ==
  ASSUME NEW A, NEW P, Queue(A, P), NEW i \in 0..Len(A)
  PROVE  Queue(SubSeq(A, 1, i), P)
<1>1. A \in Seq(Nodes) /\ Len(A) \in Nat
  BY DEF Queue
<1>2. /\ SubSeq(A, 1, i) \in Seq(Nodes)
      /\ DOMAIN SubSeq(A, 1, i) = 1..i
      /\ \A j \in 1..i : SubSeq(A, 1, i)[j] = A[j] /\ j \in DOMAIN A
  BY <1>1
<1>3. ToSet(SubSeq(A, 1, i)) \subseteq ToSet(A)
  BY <1>2 DEF ToSet
<1> QED BY <1>2, <1>3 DEF Queue

\* What a batch leaves that stops on the way is a tree.
LEMMA RefusedTrees ==
  ASSUME Inv, NEW R, NEW D, D \subseteq Nodes \ {Root}, Refused(added, par, R, keys, D)
  PROVE  /\ view' \in Trees /\ Rooted(view') /\ saved' \in Trees /\ Rooted(saved')
<1>1. PICK i \in 0..Len(added), L \in SUBSET keys, N \in SUBSET D :
        /\ Accepted(SubSeq(added, 1, i), par, L \cup N)
        /\ view' = AfterCommands(SubSeq(added, 1, i), par, L, N)
        /\ saved' = saved \/ saved' = view'
  BY DEF Refused
<1> DEFINE A == SubSeq(added, 1, i)
<1>2. Batch(A, par)
  BY <1>1, AddedQueue, SubQueue, AcceptedBatch
<1>3. TypeOK /\ Rooted(view) /\ Rooted(saved) /\ saved \in Trees /\ N \in SUBSET (Nodes \ {Root})
  BY DEF Inv, RootStays, TypeOK
<1> HIDE DEF A
<1>4. AfterCommands(A, par, L, N) \in Trees /\ Rooted(AfterCommands(A, par, L, N))
  BY <1>2, <1>3, AfterCommandsFacts
<1> QED BY <1>1, <1>3, <1>4 DEF A

\* A refused batch leaves what was to be sent, and its parents, as they were.
LEMMA RefusedInv ==
  ASSUME Inv, Using, NEW D, D \subseteq Nodes \ {Root},
         NEW R, registered \subseteq R, R \subseteq Nodes, registered' = R,
         Refused(added, par, R, keys, D),
         UNCHANGED <<cache, val, kids, added, par, keys, created>>,
         modified' \subseteq Nodes, st' \in [Nodes -> States],
         \A m \in Nodes : \/ st'[m] = st[m]
                          \/ st'[m] = "changed" /\ m \in cache \cap (R \cup ToSet(added))
  PROVE  Inv'
<1>1. /\ view' \in Trees /\ Rooted(view') /\ saved' \in Trees /\ Rooted(saved')
  BY RefusedTrees
<1>2. /\ failed' = "refused" /\ needsToJoin' = FALSE /\ joined' = (joined \/ needsToJoin)
      /\ joined' \in BOOLEAN /\ commands' = D /\ UNCHANGED <<phase, before, committed>>
  BY JoinFacts DEF Refused
<1>3. TypeOK'
  BY <1>1, <1>2 DEF TypeOK, Inv
<1>4. RootStays'
  BY <1>1, <1>2 DEF Inv, RootStays, Rooted, Exists
<1>5. StatesKept'
  BY DEF Inv, StatesKept
<1>6. EndsSent' /\ NothingHalfDone'
  BY <1>2 DEF Inv, EndsSent, NothingHalfDone, Using
<1>7. joined' => joined \/ (ToSet(added) = {} /\ DOMAIN added = {})
  <2>1. needsToJoin => added = <<>>
    BY AddedQueue
  <2>2. DOMAIN <<>> = {}
    OBVIOUS
  <2>3. added = <<>> => ToSet(added) = {} /\ DOMAIN added = {}
    BY <2>2, ToSetFacts
  <2> QED BY <1>2, <2>1, <2>3
<1>8. AddedApart'
  <2>1. \A a \in ToSet(added) : par[a] \in Nodes
    BY DEF Inv, AddedApart
  <2>2. ASSUME NEW a \in ToSet(added), joined'
        PROVE  a \notin cache' /\ st'[a] \in {"uptodate", "changed"}
    <3>1. joined
      BY <1>7, <2>2
    <3>2. a \notin cache /\ st[a] \in {"uptodate", "changed"} /\ a \in Nodes
      BY <3>1, AddedQueue DEF Inv, AddedApart
    <3> QED BY <3>2
  <2> QED BY <1>2, <2>1, <2>2 DEF AddedApart
<1>9. ParentsFirst'
  BY <1>7 DEF Inv, ParentsFirst
<1> QED BY <1>3, <1>4, <1>5, <1>6, <1>8, <1>9 DEF Inv

\* ... and most of the time leaves the objects as well.
LEMMA SameObjectsInv ==
  ASSUME Inv, Using, NEW D, D \subseteq Nodes \ {Root},
         Refused(added, par, registered, keys, D),
         UNCHANGED <<objects, added, par, registered, keys, created>>,
         modified' \subseteq Nodes
  PROVE  Inv'
<1>1. /\ registered \subseteq Nodes /\ st' \in [Nodes -> States] /\ st' = st
      /\ UNCHANGED <<cache, val, kids, added, par, keys, created>> /\ registered' = registered
  BY DEF Inv, TypeOK, objects
<1> QED BY <1>1, RefusedInv

LEMMA SavepointInv == Inv /\ Savepoint => Inv'
<1> SUFFICES ASSUME Inv, Savepoint PROVE Inv'
  OBVIOUS
<1>1. Using
  BY DEF Savepoint
<1>2. CASE /\ Send(added, par, registered, keys, commands)
           /\ SetObjects(cache \cup ToSet(added), {}, StAfter(st, added, registered), val, kids)
           /\ Remember(registered, {}, added)
           /\ Sent /\ Join
  BY <1>1, <1>2, FlushFacts, JoinFacts, SentFacts, SentInv
<1>3. CASE /\ Refused(added, par, registered, keys, commands)
           /\ UNCHANGED <<objects, added, par, registered, keys, undo>>
  <2>1. commands \subseteq Nodes \ {Root} /\ modified' \subseteq Nodes /\ created' = created
    BY <1>3, AddedQueue DEF undo, Inv, TypeOK
  <2> QED BY <1>1, <1>3, <2>1, SameObjectsInv
<1> QED BY <1>2, <1>3 DEF Savepoint

LEMMA DeleteRefusedInv ==
  ASSUME Inv, Using, NEW p \in Nodes, NEW n \in Nodes, n \in kids[p], DeleteRefused(p, n)
  PROVE  Inv'
<1>1. /\ Refused(added, par, registered, keys, commands \cup {n})
      /\ modified' = modified \cup {p}
      /\ UNCHANGED <<objects, added, par, registered, keys, created>>
  BY DEF DeleteRefused
<1>2. commands \cup {n} \subseteq Nodes \ {Root} /\ modified' \subseteq Nodes
  BY <1>1, AddedQueue DEF Inv, RootStays, TypeOK
<1> QED BY <1>1, <1>2, SameObjectsInv

LEMMA DeleteNodeInv ==
  ASSUME Inv, NEW p \in Nodes, NEW n \in Nodes, DeleteNode(p, n)
  PROVE  Inv'
<1>1. Using /\ n \in kids[p] \cap cache
  BY DEF DeleteNode
<1> QED BY <1>1, DeleteRefusedInv, DeleteNodeOkInv DEF DeleteNode

LEMMA DeleteAddedInv ==
  ASSUME Inv, NEW p \in Nodes, NEW n \in Nodes, DeleteAdded(p, n)
  PROVE  Inv'
<1>1. Using /\ n \in kids[p]
  BY DEF DeleteAdded
<1> QED BY <1>1, DeleteRefusedInv, DeleteAddedOkInv DEF DeleteAdded

LEMMA ReorderChildrenInv ==
  ASSUME Inv, NEW n \in Nodes, ReorderChildren(n)
  PROVE  Inv'
<1> DEFINE R == registered \cup Registering(n)
<1>1. Using /\ n \in cache /\ Loaded(n)
  BY DEF ReorderChildren
<1>2. R \subseteq Nodes /\ registered \subseteq R
  BY DEF Inv, TypeOK, Registering
<1>3. n \in R \cup ToSet(added)
  BY <1>1 DEF Loaded, Registering, Inv, TypeOK, StatesKept, States
<1>4. \/ /\ Send(added, par, R, keys, commands)
         /\ SetObjects(cache \cup ToSet(added), {}, StAfter(st, added, R), val, kids)
         /\ Remember(R, {}, added) /\ Sent /\ Join
      \/ /\ Refused(added, par, R, keys, commands)
         /\ registered' = R /\ st' = [st EXCEPT ![n] = "changed"]
         /\ UNCHANGED <<cache, val, kids, added, par, keys, undo>>
  BY DEF ReorderChildren
<1> HIDE DEF R
<1>5. CASE /\ Refused(added, par, R, keys, commands)
           /\ registered' = R /\ st' = [st EXCEPT ![n] = "changed"]
           /\ UNCHANGED <<cache, val, kids, added, par, keys, undo>>
  <2>1. /\ commands \subseteq Nodes \ {Root} /\ modified' \subseteq Nodes /\ created' = created
        /\ st' \in [Nodes -> States]
        /\ \A m \in Nodes : \/ st'[m] = st[m]
                            \/ st'[m] = "changed" /\ m \in cache \cap (R \cup ToSet(added))
    BY <1>1, <1>3, <1>5, AddedQueue DEF undo, Inv, TypeOK, States
  <2> QED BY <1>1, <1>2, <1>5, <2>1, RefusedInv
<1> QED BY <1>1, <1>2, <1>4, <1>5, ReorderChildrenOkInv

LEMMA RemoveFrozenInv ==
  ASSUME Inv, NEW f \in Nodes, RemoveFrozen(f)
  PROVE  Inv'
<1> DEFINE version == view.par[f]
           history == view.par[version]
           s == [StAfter(st, added, registered) EXCEPT ![version] = "ghost", ![history] = "ghost"]
<1>1. Using /\ Live(f) /\ version # Root /\ f \in cache /\ version \in cache
  BY DEF RemoveFrozen
<1>2. version \in Nodes \ {Root} /\ history \in Nodes
  BY <1>1, VersionFacts
<1>3. \/ /\ Send(added, par, registered, keys, commands \cup {version})
         /\ SetObjects((cache \cup ToSet(added)) \ {f}, {}, s, val, kids)
         /\ Remember(registered, {history}, added) /\ Sent /\ Join
      \/ /\ Refused(added, par, registered, keys, commands \cup {version})
         /\ UNCHANGED <<objects, added, par, registered, keys, undo>>
  BY DEF RemoveFrozen
<1>4. CASE /\ Refused(added, par, registered, keys, commands \cup {version})
           /\ UNCHANGED <<objects, added, par, registered, keys, undo>>
  <2>1. /\ commands \cup {version} \subseteq Nodes \ {Root}
        /\ modified' \subseteq Nodes /\ created' = created
    BY <1>2, <1>4, AddedQueue DEF undo, Inv, TypeOK
  <2> QED BY <1>1, <1>4, <2>1, SameObjectsInv
<1> QED BY <1>1, <1>2, <1>3, <1>4, RemoveFrozenOkInv

LEMMA VoteInv == Inv /\ Vote => Inv'
<1> SUFFICES ASSUME Inv, Vote PROVE Inv'
  OBVIOUS
<1> USE DEF Vote, objects, unsent, undo
<1>1. TypeOK' /\ RootStays' /\ StatesKept'
  BY DEF Inv, TypeOK, RootStays, Rooted, Exists, StatesKept
<1>2. EndsSent' /\ NothingHalfDone'
  BY DEF Inv, EndsSent, NothingHalfDone
<1>3. AddedApart' /\ ParentsFirst'
  BY DEF Inv, AddedApart, ParentsFirst, Exists
<1> QED BY <1>1, <1>2, <1>3 DEF Inv

LEMMA FinishInv == Inv /\ Finish => Inv'
<1> SUFFICES ASSUME Inv, Finish PROVE Inv'
  OBVIOUS
<1> USE DEF Finish, Cleanup, objects, server
<1>1. /\ added' = <<>> /\ ToSet(added') = {} /\ registered' = {} /\ keys' = {}
      /\ commands' = {}
      /\ added' \in Seq(Nodes) /\ IsInjective(added')
      /\ par' \in [Nodes -> Nodes \cup {NoNode}]
  BY ToSetFacts DEF Sent
<1>2. TypeOK'
  BY <1>1 DEF Inv, TypeOK
<1>3. RootStays'
  BY <1>1 DEF Inv, RootStays, Rooted, Exists
<1>4. StatesKept'
  <2>1. ToSet(added) = {} /\ registered = {}
    BY ToSetFacts DEF Inv, EndsSent
  <2> QED BY <1>1, <2>1 DEF Inv, StatesKept
<1>5. EndsSent' /\ NothingHalfDone' /\ AddedApart' /\ ParentsFirst'
  BY <1>1 DEF Inv, EndsSent, NothingHalfDone, AddedApart, ParentsFirst
<1> QED BY <1>2, <1>3, <1>4, <1>5 DEF Inv

LEMMA EndUnjoinedInv == Inv /\ EndUnjoined => Inv'
<1> SUFFICES ASSUME Inv, EndUnjoined PROVE Inv'
  OBVIOUS
<1> USE DEF EndUnjoined, objects, unsent, undo, server
<1>1. TypeOK' /\ RootStays' /\ StatesKept'
  BY DEF Inv, TypeOK, RootStays, Rooted, Exists, StatesKept
<1>2. EndsSent' /\ NothingHalfDone' /\ AddedApart' /\ ParentsFirst'
  BY DEF Inv, EndsSent, NothingHalfDone, AddedApart, ParentsFirst, Exists
<1> QED BY <1>1, <1>2 DEF Inv

\* Another session changes no tree's shape, and the same value in all trees that
\* had the same.
LEMMA OtherCommitInv ==
  ASSUME Inv, NEW n \in Nodes, NEW w \in Vals, OtherCommit(n, w)
  PROVE  Inv'
<1> USE DEF objects, unsent, undo, txn
<1> DEFINE Set(t) == [t EXCEPT !.val[n] = w]
<1>1. /\ phase # "prepared" /\ committed' = Set(committed)
      /\ saved' = IF saved.val[n] = committed.val[n] THEN Set(saved) ELSE saved
      /\ view' = IF view.val[n] = committed.val[n] THEN Set(view) ELSE view
      /\ UNCHANGED <<objects, unsent, undo, txn>>
  BY DEF OtherCommit
<1>2. \A t \in Trees : Set(t) \in Trees /\ Set(t).par = t.par
  BY DEF Trees
<1> HIDE DEF Set
<1>3. /\ view' \in Trees /\ saved' \in Trees /\ committed' \in Trees
      /\ view'.par = view.par /\ saved'.par = saved.par /\ committed'.par = committed.par
      /\ saved = committed => saved' = committed'
  BY <1>1, <1>2 DEF Inv, TypeOK
<1>4. TypeOK'
  BY <1>1, <1>3 DEF Inv, TypeOK
<1>5. RootStays' /\ StatesKept'
  BY <1>1, <1>3 DEF Inv, RootStays, Rooted, Exists, StatesKept
<1>6. EndsSent' /\ NothingHalfDone'
  BY <1>1, <1>3 DEF Inv, EndsSent, NothingHalfDone
<1>7. AddedApart' /\ ParentsFirst'
  BY <1>1, <1>3 DEF Inv, AddedApart, ParentsFirst, Exists
<1> QED BY <1>4, <1>5, <1>6, <1>7 DEF Inv

\* After a rollback the session shows a tree.
LEMMA OverlayFacts ==
  ASSUME TypeOK, RootStays
  PROVE  Overlay \in Trees /\ Rooted(Overlay)
<1> DEFINE pick(new, old, base) == [n \in Nodes |-> IF new[n] # old[n] THEN new[n] ELSE base[n]]
           t == [par |-> pick(view.par, saved.par, committed.par),
                 val |-> pick(view.val, saved.val, committed.val)]
<1>1. Overlay = IF IsTree(t) THEN t ELSE committed
  BY DEF Overlay
<1>2. /\ view \in Trees /\ saved \in Trees /\ committed \in Trees
      /\ Rooted(view) /\ Rooted(saved) /\ Rooted(committed)
      /\ Root \in Nodes /\ NoNode \notin Nodes
  BY ScopeAssumption DEF TypeOK, RootStays
<1>3. t \in Trees /\ t.par[Root] = Root
  <2>1. /\ pick(view.par, saved.par, committed.par) \in [Nodes -> Nodes \cup {NoNode}]
        /\ pick(view.val, saved.val, committed.val) \in [Nodes -> Vals]
        /\ pick(view.par, saved.par, committed.par)[Root] = Root
    BY <1>2 DEF Trees, Rooted
  <2> HIDE DEF pick
  <2> QED BY <2>1 DEF Trees
<1> HIDE DEF t
<1>4. ASSUME IsTree(t), NEW n \in Nodes, Exists(t, n) PROVE Exists(t, t.par[n])
  <2>1. n \in SubTree(t, Root)
    BY <1>4 DEF IsTree
  <2>2. CASE n = Root
    BY <2>2, <1>3, <1>4
  <2>3. CASE n # Root
    <3>1. t.par[n] \in SubTree(t, Root)
      BY <2>1, <2>3, <1>2, SubTreeFacts
    <3>2. t.par[n] = Root \/ t.par[t.par[n]] \in Nodes
      BY <3>1, <1>2, SubTreeFacts
    <3> QED BY <3>1, <3>2, <1>2, <1>3 DEF Exists
  <2> QED BY <2>2, <2>3
<1>5. IsTree(t) => Rooted(t)
  BY <1>3, <1>4 DEF Rooted
<1> QED BY <1>1, <1>2, <1>3, <1>5

\* abort leaves a connection that is as at the start of a transaction, or one
\* that will not join again.
LEMMA AbortInv == Inv /\ Abort => Inv'
<1> SUFFICES ASSUME Inv, Abort PROVE Inv'
  OBVIOUS
<1> DEFINE ghosts == [n \in Nodes |-> IF n \in cache \cap (modified \cup registered)
                                      THEN "ghost" ELSE st[n]]
           unheld == {n \in cache \ {Root} : /\ ghosts[n] = "ghost"
                                             /\ n \notin Referenced(ghosts)}
           orphaned == [n \in Nodes |-> IF n \in ToSet(added) THEN "orphan" ELSE ghosts[n]]
           Cleaned(lost) ==
             /\ SetObjects(cache \ (created \cup lost), {}, ghosts, val, kids)
             /\ Cleanup
           Broke(lost) ==
             /\ \E gone \in SUBSET (created \cap cache) :
                  SetObjects(cache \ (gone \cup lost), ToSet(added), orphaned, val, kids)
             /\ UNCHANGED <<unsent, undo, needsToJoin>>
<1>1. \E lost \in IF "forget" \in Scope THEN SUBSET unheld ELSE {{}} :
        IF created \subseteq cache \ lost THEN Cleaned(lost) ELSE Broke(lost)
  BY ONLY Abort, Zenon DEF Abort
<1>2. PICK lost : IF created \subseteq cache \ lost THEN Cleaned(lost) ELSE Broke(lost)
  BY <1>1
<1>3. /\ joined /\ view' = Overlay /\ saved' = committed /\ committed' = committed
      /\ joined' = FALSE /\ phase' = "active" /\ failed' = "no" /\ before' = committed
  BY DEF Abort, Aborting, ServerRollback
<1>4. /\ view' \in Trees /\ Rooted(view') /\ committed \in Trees /\ Rooted(committed)
      /\ needsToJoin = FALSE
  BY <1>3, OverlayFacts DEF Inv, TypeOK, RootStays, EndsSent
<1>5. /\ ghosts \in [Nodes -> States]
      /\ \A n \in Nodes : ghosts[n] = "changed" => st[n] = "changed" /\ n \notin cache \cap registered
      /\ orphaned \in [Nodes -> States]
      /\ \A n \in Nodes : orphaned[n] = "changed" => n \notin ToSet(added) /\ ghosts[n] = "changed"
  BY DEF Inv, TypeOK, States
<1>6. NothingHalfDone' /\ ParentsFirst'
  BY <1>3 DEF NothingHalfDone, ParentsFirst
<1> HIDE DEF ghosts, unheld, orphaned
<1>7. CASE Cleaned(lost)
  <2>1. /\ added' = <<>> /\ ToSet(added') = {} /\ registered' = {} /\ keys' = {} /\ commands' = {}
        /\ added' \in Seq(Nodes) /\ IsInjective(added')
        /\ par' \in [Nodes -> Nodes \cup {NoNode}]
        /\ modified' = {} /\ created' = {} /\ needsToJoin' = TRUE
    BY <1>7, ToSetFacts DEF Sent, Cleanup
  <2> DEFINE C == cache \ (created \cup lost)
  <2>2. /\ SetObjects(C, {}, ghosts, val, kids) /\ C \subseteq cache
        /\ val \in [Nodes -> Vals] /\ kids \in [Nodes -> SUBSET Nodes]
        /\ \A n \in Nodes : Root \notin kids[n]
    BY <1>7 DEF Inv, TypeOK, RootStays
  <2> HIDE DEF C
  <2>3. /\ cache' = C /\ st' \in [Nodes -> States]
        /\ val' \in [Nodes -> Vals] /\ kids' \in [Nodes -> SUBSET Nodes]
        /\ \A n \in Nodes :
             /\ st'[n] # "ghost" => n \in C /\ st'[n] = ghosts[n] /\ kids'[n] = kids[n]
             /\ st'[n] = "ghost" => kids'[n] = {}
    BY <2>2, <1>5, InitiallyFacts DEF SetObjects
  <2>4. TypeOK'
    BY <1>3, <1>4, <2>1, <2>2, <2>3 DEF Inv, TypeOK
  <2>5. RootStays'
    BY <1>3, <1>4, <2>1, <2>2, <2>3 DEF RootStays, Rooted, Exists
  <2>6. StatesKept'
    <3>1. ASSUME NEW n \in Nodes, st'[n] = "changed" PROVE FALSE
      <4>1. n \in cache /\ ghosts[n] = "changed"
        BY <3>1, <2>2, <2>3
      <4>2. n \in registered \cup ToSet(added)
        BY <4>1, <1>5 DEF Inv, StatesKept
      <4> QED BY <4>1, <4>2, <1>3, <1>5 DEF Inv, AddedApart
    <3> QED BY <3>1, <2>1, <2>3 DEF StatesKept
  <2>7. EndsSent' /\ AddedApart'
    BY <1>3, <2>1 DEF EndsSent, AddedApart
  <2> QED BY <2>4, <2>5, <2>6, <2>7, <1>6 DEF Inv
<1>8. CASE Broke(lost)
  <2> USE DEF unsent, undo
  <2>1. /\ UNCHANGED <<added, par, registered, keys, commands, modified, created, needsToJoin>>
        /\ \E gone : SetObjects(cache \ (gone \cup lost), ToSet(added), orphaned, val, kids)
    BY <1>8
  <2>2. PICK gone : SetObjects(cache \ (gone \cup lost), ToSet(added), orphaned, val, kids)
    BY <2>1
  <2> DEFINE C == cache \ (gone \cup lost)  A == ToSet(added)
  <2>3. /\ SetObjects(C, A, orphaned, val, kids) /\ C \subseteq cache
        /\ val \in [Nodes -> Vals] /\ kids \in [Nodes -> SUBSET Nodes]
        /\ \A n \in Nodes : Root \notin kids[n]
    BY <2>2 DEF Inv, TypeOK, RootStays
  <2> HIDE DEF C, A
  <2>4. /\ cache' = C /\ st' \in [Nodes -> States]
        /\ val' \in [Nodes -> Vals] /\ kids' \in [Nodes -> SUBSET Nodes]
        /\ \A n \in Nodes :
             /\ st'[n] # "ghost" => n \in C \cup A /\ st'[n] = orphaned[n] /\ kids'[n] = kids[n]
             /\ st'[n] = "ghost" => kids'[n] = {}
    BY <2>3, <1>5, InitiallyFacts DEF SetObjects
  <2>5. TypeOK'
    BY <1>3, <1>4, <2>1, <2>3, <2>4 DEF Inv, TypeOK
  <2>6. RootStays'
    BY <1>3, <1>4, <2>1, <2>3, <2>4 DEF Inv, RootStays, Rooted, Exists
  <2>7. StatesKept'
    <3>1. ASSUME NEW n \in Nodes, st'[n] = "changed" PROVE n \in registered
      <4>1. st[n] = "changed" /\ n \notin ToSet(added)
        BY <3>1, <1>5, <2>4
      <4> QED BY <4>1 DEF Inv, StatesKept
    <3> QED BY <3>1, <2>1, <2>4 DEF StatesKept, A
  <2>8. EndsSent' /\ AddedApart'
    BY <1>3, <1>4, <2>1 DEF Inv, EndsSent, AddedApart
  <2> QED BY <2>5, <2>6, <2>7, <2>8, <1>6 DEF Inv
<1> QED BY <1>2, <1>7, <1>8

\* An abort that raises leaves it joined to nothing, with what it had to send.
LEMMA AbortRaisesInv == Inv /\ AbortRaises => Inv'
<1> SUFFICES ASSUME Inv, AbortRaises PROVE Inv'
  OBVIOUS
<1>1. /\ joined /\ committed' = committed
      /\ joined' = FALSE /\ phase' = "active" /\ failed' = "no" /\ before' = committed
      /\ UNCHANGED <<objects, unsent, undo, needsToJoin>>
      /\ \/ view' = Overlay /\ saved' = committed
         \/ view' = view /\ saved' = saved
  BY DEF AbortRaises, Aborting, ServerRollback
<1>2. /\ view' \in Trees /\ Rooted(view') /\ saved' \in Trees /\ Rooted(saved')
      /\ needsToJoin = FALSE
  BY <1>1, OverlayFacts DEF Inv, TypeOK, RootStays, EndsSent
<1> USE <1>1, <1>2 DEF objects, unsent, undo
<1>3. TypeOK' /\ RootStays' /\ StatesKept'
  BY DEF Inv, TypeOK, RootStays, Rooted, Exists, StatesKept
<1>4. EndsSent' /\ AddedApart' /\ ParentsFirst' /\ NothingHalfDone'
  BY DEF Inv, EndsSent, AddedApart, ParentsFirst, NothingHalfDone
<1> QED BY <1>3, <1>4 DEF Inv

-----------------------------------------------------------------------------
(* What every application keeps: the theorems.                             *)

LEMMA InitInv == Init => Inv
<1> SUFFICES ASSUME Init PROVE Inv
  OBVIOUS
<1>1. /\ Initially \in Vals /\ Root \in Nodes /\ NoNode \notin Nodes
      /\ InitNodes \subseteq Nodes \ {Root}
  BY ScopeAssumption, InitiallyFacts
<1>2. InitTree \in Trees /\ Rooted(InitTree)
  BY <1>1 DEF InitTree, Trees, Rooted, Exists
<1>3. ToSet(added) = {} /\ added \in Seq(Nodes) /\ IsInjective(added) /\ DOMAIN added = {}
  BY ToSetFacts DEF Init
<1> USE <1>1, <1>2, <1>3 DEF Init
<1>4. TypeOK
  BY DEF TypeOK, States
<1>5. RootStays /\ StatesKept /\ EndsSent /\ AddedApart /\ ParentsFirst /\ NothingHalfDone
  BY DEF RootStays, StatesKept, EndsSent, AddedApart, ParentsFirst, NothingHalfDone
<1> QED BY <1>4, <1>5 DEF Inv

LEMMA NextInv == Inv /\ [Next]_vars => Inv'
<1> SUFFICES ASSUME Inv, [Next]_vars PROVE Inv'
  OBVIOUS
<1>1. CASE UNCHANGED vars
  BY <1>1 DEF vars, objects, unsent, undo, txn, server, Inv, TypeOK, RootStays, Rooted,
     Exists, StatesKept, EndsSent, AddedApart, ParentsFirst, NothingHalfDone
<1>2. ASSUME NEW n \in Nodes,
             \/ Load(n) \/ Deactivate(n) \/ Collect(n)
             \/ Clear(n) \/ ClearRefused(n) \/ ReorderChildren(n) \/ RemoveFrozen(n)
      PROVE  Inv'
  BY <1>2, LoadInv, DeactivateInv, CollectInv, ClearInv, ClearRefusedInv,
     ReorderChildrenInv, RemoveFrozenInv
<1>3. ASSUME NEW n \in Nodes, NEW v \in Vals,
             \/ SetProperty(n, v) \/ OtherCommit(n, v) \/ Checkpoint(n, v) \/ Restore(n, v)
      PROVE  Inv'
  BY <1>3, SetPropertyInv, OtherCommitInv, CheckpointInv, RestoreInv
<1>4. ASSUME NEW n \in Nodes, NEW p \in Nodes,
             \/ AddProperty(p, n) \/ AddChild(p, n) \/ DeleteNode(p, n) \/ DeleteAdded(p, n)
             \/ Move(n, p) \/ Copy(n, p)
      PROVE  Inv'
  BY <1>4, AddPropertyInv, AddChildInv, DeleteNodeInv, DeleteAddedInv, MoveInv, CopyInv
<1>5. CASE \/ Savepoint \/ CommitOk \/ Vote \/ Finish \/ EndUnjoined
            \/ Abort \/ AbortRaises
  BY <1>5, SavepointInv, CommitOkInv, VoteInv, FinishInv, EndUnjoinedInv, AbortInv,
     AbortRaisesInv
<1> QED BY <1>1, <1>2, <1>3, <1>4, <1>5 DEF Next

\* Whatever the application does, the server refuses and others commit, every
\* operation of the connection keeps the tree of the session whole, the states
\* with their objects, and what is to be sent apart from what is sent.
THEOREM Invariance == Spec => []Inv
BY InitInv, NextInv, PTL DEF Spec

\* The variables have their types whatever the application does, the server
\* refuses and others commit (connection.py).
THEOREM TypeCorrect == Spec => []TypeOK
<1>1. Inv => TypeOK
  BY DEF Inv
<1> QED BY <1>1, Invariance, PTL

\* A batch never has a child before its parent (_added_order).
THEOREM ParentsComeFirst == Spec => []ParentsFirst
<1>1. Inv => ParentsFirst
  BY DEF Inv
<1> QED BY <1>1, Invariance, PTL

\* A connection that waits for its next transaction has left nothing half done in
\* the repository, whatever its application does (abort, tpc_abort).
THEOREM AllOrNothing == Spec => []NothingHalfDone
<1>1. Inv => NothingHalfDone
  BY DEF Inv
<1> QED BY <1>1, Invariance, PTL

-----------------------------------------------------------------------------
(* What a careful application keeps.                                       *)

\* A step that sends everything, and loses no object it has created.
LEMMA SentCareful ==
  ASSUME Inv', Emptied, joined' = TRUE, created' \subseteq cache'
  PROVE  CarefulInv'
BY DEF CarefulInv, Broken, Emptied

LEMMA RemovingCareful ==
  ASSUME Careful, CarefulInv, Using, NEW N, N \subseteq cache \ created,
         cache' = (cache \cup ToSet(added)) \ N, created' = created \cup ToSet(added)
  PROVE  created' \subseteq cache'
<1>1. ~Broken /\ created \subseteq cache /\ Inv
  BY DEF CarefulInv
<1>2. ToSet(added) \cap cache = {}
  BY <1>1, AddedBatch
<1> QED BY <1>1, <1>2

\* Registered objects stay registered, in the cache and changed.
LEMMA KeptCareful ==
  ASSUME CarefulInv, Inv', joined' \/ needsToJoin', cache \subseteq cache',
         UNCHANGED <<created, registered>>,
         \A n \in registered : st[n] = "changed" => st'[n] = "changed"
  PROVE  CarefulInv'
BY DEF CarefulInv, Broken

\* A refused batch changes no object.
LEMMA RefusedCareful ==
  ASSUME CarefulInv, Inv', Using, NEW D, Refused(added, par, registered, keys, D),
         UNCHANGED <<objects, registered, created>>
  PROVE  CarefulInv'
<1>1. joined'
  BY JoinFacts DEF Refused, CarefulInv, Broken
<1> QED BY <1>1, KeptCareful DEF objects

LEMMA DeletingCareful ==
  ASSUME Careful, CarefulInv, Inv', NEW p \in Nodes,
         \/ \E n \in Nodes : DeleteNode(p, n) \/ DeleteAdded(p, n)
         \/ Clear(p) \/ ClearRefused(p) \/ RemoveFrozen(p)
  PROVE  CarefulInv'
<1> USE DEF SetObjects, Remember
<1>1. ~("undo" \in Scope) /\ Inv /\ ~Broken /\ created \subseteq cache
  BY DEF Careful, CarefulInv
<1>2. ASSUME NEW n \in Nodes, DeleteNode(p, n) PROVE CarefulInv'
  <2>1. Using /\ {n} \subseteq cache \ created
    BY <1>1, <1>2 DEF DeleteNode
  <2>2. CASE DeleteRefused(p, n)
    BY <2>1, <2>2, RefusedCareful DEF DeleteRefused
  <2>3. CASE /\ SetObjects((cache \cup ToSet(added)) \ {n}, {}, StAfter(st, added, registered),
                           val, [kids EXCEPT ![p] = @ \ {n}])
             /\ Remember(registered, {p}, added) /\ Sent /\ Join
    <3>1. /\ Emptied /\ cache' = (cache \cup ToSet(added)) \ {n} /\ created' = created \cup ToSet(added)
          /\ joined' = TRUE
      BY <1>1, <2>1, <2>3, JoinFacts, SentFacts DEF Broken
    <3>2. created' \subseteq cache'
      BY <2>1, <3>1, RemovingCareful
    <3> QED BY <3>1, <3>2, SentCareful
  <2> QED BY <1>2, <2>2, <2>3 DEF DeleteNode
<1>3. ASSUME NEW n \in Nodes, DeleteAdded(p, n) PROVE CarefulInv'
  BY <1>1, <1>3 DEF DeleteAdded
<1>4. CASE Clear(p)
  <2>1. /\ Using /\ Emptied /\ Join /\ kids[p] \subseteq cache \ created
        /\ cache' = (cache \cup ToSet(added)) \ kids[p] /\ created' = created \cup ToSet(added)
    BY <1>1, <1>4, SentFacts DEF Clear, Clearing
  <2>2. joined' = TRUE /\ created' \subseteq cache'
    BY <1>1, <2>1, JoinFacts, RemovingCareful DEF Broken
  <2> QED BY <2>1, <2>2, SentCareful
<1>5. CASE ClearRefused(p)
  <2>1. /\ Using /\ Emptied /\ kids[p] \subseteq cache \ created
        /\ needsToJoin' = FALSE /\ joined' = (joined \/ needsToJoin)
        /\ created' = created \cup ToSet(added)
        /\ \E N \in SUBSET kids[p] : cache' = (cache \cup ToSet(added)) \ N
    BY <1>1, <1>5 DEF ClearRefused, Clearing, Emptied
  <2>2. joined' = TRUE
    <3>1. joined \/ needsToJoin
      BY <1>1 DEF Broken
    <3> QED BY <2>1, <3>1, JoinFacts
  <2>3. PICK N \in SUBSET kids[p] : cache' = (cache \cup ToSet(added)) \ N
    BY <2>1
  <2>4. created' \subseteq cache'
    BY <2>1, <2>3, RemovingCareful
  <2> QED BY <2>1, <2>2, <2>4, SentCareful
<1>6. CASE RemoveFrozen(p)
  <2>1. Using /\ {p} \subseteq cache \ created
    BY <1>6 DEF RemoveFrozen
  <2>2. CASE /\ Sent /\ Join
             /\ cache' = (cache \cup ToSet(added)) \ {p} /\ created' = created \cup ToSet(added)
    <3>1. joined' = TRUE
      BY <1>1, <2>1, <2>2, JoinFacts DEF Broken
    <3>2. created' \subseteq cache'
      BY <2>1, <2>2, RemovingCareful
    <3>3. Emptied
      BY <2>2, SentFacts
    <3> QED BY <3>1, <3>2, <3>3, SentCareful
  <2>3. CASE /\ \E D : Refused(added, par, registered, keys, D)
             /\ UNCHANGED <<objects, added, par, registered, keys, undo>>
    BY <2>1, <2>3, RefusedCareful DEF undo
  <2> QED BY <1>6, <2>2, <2>3 DEF RemoveFrozen
<1> QED BY <1>2, <1>3, <1>4, <1>5, <1>6

LEMMA SendingCareful ==
  ASSUME Careful, CarefulInv, Inv',
         \/ Savepoint \/ CommitOk
         \/ \E p, n \in Nodes : AddChild(p, n)
         \/ \E n \in Nodes : ReorderChildren(n)
  PROVE  CarefulInv'
<1> USE DEF SetObjects, Remember
<1>1. Inv /\ ~Broken /\ created \subseteq cache
  BY DEF CarefulInv
<1>2. CASE Savepoint
  <2>1. CASE /\ Refused(added, par, registered, keys, commands)
             /\ UNCHANGED <<objects, added, par, registered, keys, undo>>
    BY <1>2, <2>1, RefusedCareful DEF Savepoint, undo
  <2>2. CASE /\ SetObjects(cache \cup ToSet(added), {}, StAfter(st, added, registered), val, kids)
             /\ Remember(registered, {}, added) /\ Sent /\ Join
    <3>1. Emptied /\ joined' = TRUE /\ created' \subseteq cache'
      BY <1>1, <1>2, <2>2, JoinFacts, SentFacts DEF Savepoint, Broken
    <3> QED BY <3>1, SentCareful
  <2> QED BY <1>2, <2>1, <2>2 DEF Savepoint
<1>3. CASE CommitOk
  BY <1>1, <1>3, SentCareful, SentFacts DEF CommitOk, Inv, TypeOK
<1>4. ASSUME NEW p \in Nodes, NEW n \in Nodes, AddChild(p, n) PROVE CarefulInv'
  <2>1. /\ Using /\ Sent /\ Join
        /\ cache' = cache \cup ToSet(Queued(n)) /\ created' = created \cup ToSet(Queued(n))
    BY <1>4 DEF AddChild
  <2> QED BY <1>1, <2>1, JoinFacts, SentFacts, SentCareful DEF Broken
<1>5. ASSUME NEW n \in Nodes, ReorderChildren(n) PROVE CarefulInv'
  <2>1. /\ Using /\ n \in cache /\ n \in Nodes /\ Registering(n) \subseteq {n}
    BY <1>5 DEF ReorderChildren, Registering
  <2>2. CASE /\ Sent /\ Join
             /\ cache' = cache \cup ToSet(added) /\ created' = created \cup ToSet(added)
    BY <1>1, <2>1, <2>2, JoinFacts, SentFacts, SentCareful DEF Broken
  <2>3. CASE /\ Refused(added, par, registered \cup Registering(n), keys, commands)
             /\ registered' = registered \cup Registering(n)
             /\ st' = [st EXCEPT ![n] = "changed"]
             /\ UNCHANGED <<cache, created>>
    <3>1. joined'
      BY <1>1, <2>1, <2>3, JoinFacts DEF Refused, Broken
    <3>2. /\ registered \subseteq cache /\ \A m \in registered : st[m] = "changed"
          /\ registered \subseteq Nodes /\ st \in [Nodes -> States]
      BY <1>1 DEF CarefulInv, Inv, TypeOK
    <3>3. /\ registered' \subseteq cache' /\ created' \subseteq cache'
          /\ \A m \in registered' : st'[m] = "changed"
      BY <1>1, <2>1, <2>3, <3>2
    <3> QED BY <3>1, <3>3 DEF CarefulInv, Broken
  <2> QED BY <1>5, <2>2, <2>3 DEF ReorderChildren, undo
<1> QED BY <1>2, <1>3, <1>4, <1>5

LEMMA CommandsCareful ==
  ASSUME Careful, CarefulInv, Inv', NEW n \in Nodes,
         \/ \E d \in Nodes : Move(n, d) \/ Copy(n, d)
         \/ \E v \in Vals : Checkpoint(n, v) \/ Restore(n, v)
  PROVE  CarefulInv'
<1>1. Inv /\ ~Broken /\ created \subseteq cache
  BY DEF CarefulInv
<1>2. ASSUME NEW m, NEW N, ChangedInBackend(m, N) PROVE created' \subseteq cache'
  BY <1>1, <1>2 DEF ChangedInBackend, SetObjects, Remember
<1>3. ASSUME NEW d \in Nodes, Move(n, d) PROVE CarefulInv'
  <2>1. Using /\ Emptied /\ Join /\ ChangedInBackend(Flushed.par[n], {n, d})
    BY <1>3, SentFacts DEF Move, Flushing
  <2> QED BY <1>1, <1>2, <2>1, JoinFacts, SentCareful DEF Broken
<1>4. ASSUME NEW d \in Nodes, Copy(n, d) PROVE CarefulInv'
  <2>1. Using /\ Emptied /\ Join /\ ChangedInBackend(d, {})
    BY <1>4, SentFacts, Zenon DEF Copy, InWorkspace, Flushing
  <2> QED BY <1>1, <1>2, <2>1, JoinFacts, SentCareful DEF Broken
<1>5. ASSUME NEW v \in Vals, Checkpoint(n, v) PROVE CarefulInv'
  <2>1. Using /\ Emptied /\ Join /\ ChangedInBackend(n, {})
    BY <1>5, SentFacts DEF Checkpoint, InWorkspace, Flushing
  <2> QED BY <1>1, <1>2, <2>1, JoinFacts, SentCareful DEF Broken
<1>6. ASSUME NEW v \in Vals, Restore(n, v) PROVE CarefulInv'
  <2>1. Using /\ Emptied /\ Join /\ \E N : ChangedInBackend(n, N)
    BY <1>6, SentFacts, Zenon DEF Restore, InWorkspace, Flushing
  <2>2. created' \subseteq cache'
    BY <2>1, <1>2
  <2> QED BY <1>1, <2>1, <2>2, JoinFacts, SentCareful DEF Broken
<1> QED BY <1>3, <1>4, <1>5, <1>6

LEMMA ObjectsCareful ==
  ASSUME Careful, CarefulInv, Inv', NEW n \in Nodes,
         \/ Load(n) \/ Deactivate(n) \/ Collect(n)
         \/ \E v \in Vals : SetProperty(n, v) \/ OtherCommit(n, v)
         \/ \E p \in Nodes : AddProperty(p, n)
  PROVE  CarefulInv'
<1> USE DEF unsent, undo, txn
<1>1. /\ Inv /\ "forget" \notin Scope /\ (joined \/ needsToJoin)
      /\ \A m \in registered : m \in cache /\ m \in Nodes /\ st[m] = "changed"
      /\ created \subseteq cache /\ cache \subseteq Nodes
      /\ st \in [Nodes -> States]
  BY DEF Careful, CarefulInv, Broken, Inv, TypeOK
<1>2. CASE Load(n)
  BY <1>1, <1>2, KeptCareful DEF Load, SetObjects
<1>3. CASE Deactivate(n)
  BY <1>1, <1>3, KeptCareful DEF Deactivate, SetObjects
<1>4. CASE Collect(n)
  BY <1>1, <1>4 DEF Collect
<1>5. ASSUME NEW v \in Vals, OtherCommit(n, v) PROVE CarefulInv'
  BY <1>1, <1>5, KeptCareful DEF OtherCommit, objects
<1>6. ASSUME NEW v \in Vals, SetProperty(n, v) PROVE CarefulInv'
  <2>1. CASE n \in ToSet(added)
    <3>1. UNCHANGED <<cache, st, registered, created, needsToJoin, joined>>
      BY <1>6, <2>1 DEF SetProperty
    <3> QED BY <1>1, <3>1, KeptCareful
  <2>2. CASE n \notin ToSet(added)
    <3>1. /\ n \in cache /\ st' = [st EXCEPT ![n] = "changed"]
          /\ registered' = registered \cup Registering(n)
          /\ Registering(n) \subseteq {n} /\ UNCHANGED <<cache, created>>
          /\ joined' \/ needsToJoin'
      BY <1>1, <1>6, <2>2 DEF SetProperty, Loaded, Registering, Join
    <3> QED BY <1>1, <3>1 DEF CarefulInv, Broken
  <2> QED BY <2>1, <2>2
<1>7. ASSUME NEW p \in Nodes, AddProperty(p, n) PROVE CarefulInv'
  <2>1. /\ Using /\ Loaded(p) /\ Fresh(n) /\ Join
        /\ st' = [st EXCEPT ![n] = "uptodate", ![p] = "changed"]
        /\ registered' = registered \cup Registering(p)
        /\ UNCHANGED <<cache, created>>
    BY <1>7 DEF AddProperty
  <2>2. joined' = TRUE /\ n \notin registered /\ n # p /\ n \notin cache
    BY <1>1, <2>1, JoinFacts DEF Fresh, Loaded
  <2>3. Registering(p) \subseteq {p} /\ (p \in Registering(p) => p \in cache)
    BY <2>1 DEF Registering, Loaded
  <2> QED BY <1>1, <2>1, <2>2, <2>3 DEF CarefulInv, Broken
<1> QED BY <1>2, <1>3, <1>4, <1>5, <1>6, <1>7

LEMMA ManagerCareful ==
  ASSUME Careful, CarefulInv, Inv', Vote \/ Finish \/ EndUnjoined \/ Abort \/ AbortRaises
  PROVE  CarefulInv'
<1>1. /\ (joined \/ needsToJoin) /\ Scope \cap {"forget", "lost"} = {} /\ created \subseteq cache
  BY DEF Careful, CarefulInv, Broken, Inv, TypeOK
<1>2. CASE Vote \/ EndUnjoined
  <2>1. UNCHANGED <<cache, st, registered, created, needsToJoin, joined>>
    BY <1>2 DEF Vote, EndUnjoined, objects, unsent, undo
  <2> QED BY <1>1, <2>1, KeptCareful
<1>3. CASE Finish
  BY <1>3 DEF Finish, Cleanup, Sent, CarefulInv, Broken
<1>4. CASE Abort
  <2>1. Cleanup
    <3>1. "forget" \notin Scope /\ created \subseteq cache \ {}
      BY <1>1
    <3> QED BY <1>4, <3>1, Zenon DEF Abort
  <2> QED BY <2>1 DEF Cleanup, Sent, CarefulInv, Broken
<1>5. CASE AbortRaises
  BY <1>1, <1>5 DEF AbortRaises
<1> QED BY <1>2, <1>3, <1>4, <1>5

LEMMA NextCareful == Careful /\ CarefulInv /\ [Next]_vars => CarefulInv'
<1> SUFFICES ASSUME Careful, CarefulInv, [Next]_vars PROVE CarefulInv'
  OBVIOUS
<1>1. Inv'
  BY NextInv DEF CarefulInv
<1>2. CASE UNCHANGED vars
  <2>1. UNCHANGED <<cache, st, registered, created, needsToJoin, joined>>
    BY <1>2 DEF vars, objects, unsent, undo, txn
  <2> QED BY <1>1, <2>1 DEF CarefulInv, Broken
<1>3. ASSUME NEW n \in Nodes,
             \/ Load(n) \/ Deactivate(n) \/ Collect(n)
             \/ Clear(n) \/ ClearRefused(n) \/ ReorderChildren(n) \/ RemoveFrozen(n)
      PROVE  CarefulInv'
  BY <1>1, <1>3, ObjectsCareful, DeletingCareful, SendingCareful
<1>4. ASSUME NEW n \in Nodes, NEW v \in Vals,
             \/ SetProperty(n, v) \/ OtherCommit(n, v) \/ Checkpoint(n, v) \/ Restore(n, v)
      PROVE  CarefulInv'
  BY <1>1, <1>4, ObjectsCareful, CommandsCareful
<1>5. ASSUME NEW n \in Nodes, NEW p \in Nodes,
             \/ AddProperty(p, n) \/ AddChild(p, n) \/ DeleteNode(p, n) \/ DeleteAdded(p, n)
             \/ Move(n, p) \/ Copy(n, p)
      PROVE  CarefulInv'
  BY <1>1, <1>5, ObjectsCareful, SendingCareful, DeletingCareful, CommandsCareful
<1>6. CASE \/ Savepoint \/ CommitOk \/ Vote \/ Finish \/ EndUnjoined
            \/ Abort \/ AbortRaises
  BY <1>1, <1>6, SendingCareful, ManagerCareful
<1> QED BY <1>2, <1>3, <1>4, <1>5, <1>6 DEF Next

\* When no node just created is removed and no object dropped, an abort finds all
\* it looks up in _cache, and what is registered is there, too (abort, register).
THEOREM CarefulInvariance ==
  ASSUME Careful PROVE Spec => []CarefulInv
<1>1. Init => CarefulInv
  <2>1. Init => ~Broken /\ created \subseteq cache /\ registered = {}
    BY DEF Init, Broken
  <2> QED BY <2>1, InitInv DEF CarefulInv
<1>2. CarefulInv /\ [Next]_vars => CarefulInv'
  BY NextCareful
<1> QED BY <1>1, <1>2, PTL DEF Spec

\* Whatever is to be sent belongs to a transaction that the connection has
\* joined (_maybeJoin, _tpc_cleanup).
THEOREM NothingLeftBehind ==
  ASSUME Careful PROVE Spec => []PendingJoined
<1>1. CarefulInv => PendingJoined
  BY DEF CarefulInv, Broken, Inv, EndsSent, PendingJoined
<1> QED BY <1>1, CarefulInvariance, PTL

\* The transaction manager never leaves the connection with something saved that
\* is not committed: no abort raises, after which it would save unjoined.
THEOREM NothingSavedUnjoined ==
  ASSUME Careful PROVE Spec => [](~joined => saved = committed)
<1>1. CarefulInv => (~joined => saved = committed)
  BY DEF CarefulInv, Broken, Inv, NothingHalfDone
<1> QED BY <1>1, CarefulInvariance, PTL

\* The states of the objects and _registered tell the same (register).
THEOREM StatesAreRegistered ==
  ASSUME Careful PROVE Spec => []ChangedIsRegistered
<1>1. CarefulInv => ChangedIsRegistered
  <2> SUFFICES ASSUME CarefulInv PROVE ChangedIsRegistered
    OBVIOUS
  <2>1. \A a \in ToSet(added) : a \notin cache
    <3>1. joined \/ ToSet(added) = {}
      BY ToSetFacts DEF CarefulInv, Broken, Inv, EndsSent
    <3> QED BY <3>1 DEF CarefulInv, Inv, AddedApart
  <2> QED BY <2>1 DEF ChangedIsRegistered, CarefulInv, Inv, TypeOK, StatesKept
<1> QED BY <1>1, CarefulInvariance, PTL

-----------------------------------------------------------------------------
(* The cache and the aborts of an application that does the plain things    *)
(* and has the repository to itself: it sees what its session has, an abort *)
(* brings back what is committed, and a commit takes all.                   *)

LEMMA PlainIsCareful == Plain => Careful
BY DEF Plain, Careful

-----------------------------------------------------------------------------
(* What a batch makes of the nodes below a node.                           *)

LEMMA BelowAfter ==
  ASSUME TypeOK, Rooted(view), NEW A, NEW P, NEW K, Batch(A, P),
         \A a \in ToSet(A) : ~Exists(view, a), \A m \in K : st[m] # "ghost",
         NEW D, D \subseteq Nodes \ {Root},
         NEW q \in Nodes, Exists(AfterCommands(A, P, K, D), q)
  PROVE  /\ Below(AfterCommands(A, P, K, D), q)
              = (Below(view, q) \cup {a \in ToSet(A) : P[a] = q}) \ D
         /\ AfterCommands(A, P, K, D).val[q]
              = IF q \in ToSet(A) \cup K THEN val[q] ELSE view.val[q]
         /\ q \in ToSet(A) \/ Exists(view, q)
<1> DEFINE t == SentTree(A, P, K)
           Gone == UNION {SubTree(t, d) : d \in D}
           u == Without(t, Gone)
           N == ToSet(A)
<1>1. /\ t \in Trees
      /\ \A n \in Nodes : /\ t.par[n] = IF n \in N THEN P[n] ELSE view.par[n]
                          /\ t.val[n] = IF n \in N \cup K THEN val[n] ELSE view.val[n]
  <2>1. Written(A, K) = N \cup K
    BY DEF Written
  <2> QED BY <2>1, SentTreeFacts
<1>2. AfterCommands(A, P, K, D) = u
  BY DEF AfterCommands, SentTree, Written
<1>3. D \subseteq Gone /\ \A m \in Gone : m \in D \/ t.par[m] \in Gone
  BY SubTreeFacts
<1>4. /\ N \subseteq Nodes \ {Root} /\ \A a \in N : view.par[a] = NoNode
      /\ NoNode \notin Nodes
  BY ToSetFacts, ScopeAssumption DEF Batch, Exists
<1> HIDE DEF Gone, t
<1>5. /\ \A n \in Nodes : u.par[n] = IF n \in Gone THEN NoNode ELSE t.par[n]
      /\ u.val = t.val
  BY <1>1, WithoutFacts
<1> HIDE DEF u, N
<1>6. q \notin Gone /\ t.par[q] # NoNode
  BY <1>2, <1>5 DEF Exists
<1>7. \A m \in Nodes : u.par[m] = q <=> t.par[m] = q /\ m \notin D
  BY <1>3, <1>4, <1>5, <1>6
<1>8. \A m \in Nodes : t.par[m] = q <=> (m \in N /\ P[m] = q) \/ view.par[m] = q
  BY <1>1, <1>4
<1>9. Below(u, q) = (Below(view, q) \cup {a \in N : P[a] = q}) \ D
  BY <1>4, <1>7, <1>8 DEF Below
<1>10. q \in N \/ Exists(view, q)
  BY <1>1, <1>6 DEF Exists
<1> QED BY <1>1, <1>2, <1>5, <1>9, <1>10 DEF N

\* When the session shows what it has saved, a batch is sent or empty: both
\* leave what its commands make of the session.
LEMMA SendIsCommands ==
  ASSUME TypeOK, Rooted(view), view = saved, NEW A, NEW P, NEW K, Batch(A, P),
         NEW R, K \subseteq R, NEW D, Send(A, P, R, K, D)
  PROVE  view' = AfterCommands(A, P, K, D) /\ saved' = view' /\ committed' = committed
<1>1. CASE A = <<>> /\ R = {} /\ D = {}
  <2>1. AfterCommands(A, P, K, D) = SentTree(A, P, K) /\ ToSet(A) = {} /\ Written(A, K) = {}
    BY <1>1, NothingRemoved, ToSetFacts DEF Written
  <2>2. /\ view \in Trees /\ SentTree(A, P, K) \in Trees
        /\ \A n \in Nodes : /\ SentTree(A, P, K).par[n] = view.par[n]
                            /\ SentTree(A, P, K).val[n] = view.val[n]
    BY <2>1, SentTreeFacts DEF TypeOK
  <2>3. SentTree(A, P, K) = view
    BY <2>2 DEF Trees
  <2> QED BY <1>1, <2>1, <2>3 DEF Send, server
<1>2. CASE ~(A = <<>> /\ R = {} /\ D = {})
  BY <1>2 DEF Send
<1> QED BY <1>1, <1>2

-----------------------------------------------------------------------------
(* Steps that send everything.                                             *)

\* The objects with the children k and the added objects A below P show what the
\* session has and what is to be sent.
Coherent(A, P, k) ==
  /\ \A n \in cache :
       Exists(view, n) /\ st[n] # "ghost" =>
         /\ n \notin keys => val[n] = view.val[n]
         /\ k[n] = Below(view, n) \cup {a \in ToSet(A) : P[a] = n}
  /\ \A a \in ToSet(A) : k[a] = {b \in ToSet(A) : P[b] = a}

\* The objects after a step that sends A and removes D.
ShowsSent(A, D, k) ==
  /\ cache' \subseteq Nodes
  /\ \A n \in cache' :
       st'[n] # "ghost" => /\ n \in cache \cup ToSet(A)
                           /\ n \in cache => st[n] # "ghost"
                           /\ val'[n] = val[n]
                           /\ n \in cache \ modified' => kids'[n] = kids[n]
                           /\ Exists(view', n) => kids'[n] = k[n] \ D

\* A step that sends the added objects A below P and removes D; a node whose value
\* the server sets is a ghost and remembered.
Sending(A, P, D, k) ==
  /\ Batch(A, P) /\ \A a \in ToSet(A) : ~Exists(view, a) /\ P[a] \in modified'
  /\ \A m \in keys : st[m] # "ghost"
  /\ D \subseteq Nodes \ {Root} /\ \A d \in D : view.par[d] \in modified'
  /\ Coherent(A, P, k) /\ ShowsSent(A, D, k)
  /\ view'.par = AfterCommands(A, P, keys, D).par
  /\ \A n \in Nodes : \/ view'.val[n] = AfterCommands(A, P, keys, D).val[n]
                      \/ st'[n] = "ghost" /\ n \in modified'
  /\ modified \cup registered \subseteq modified' /\ created \cup ToSet(A) \subseteq created'

LEMMA SentPlain ==
  ASSUME PlainInv, CarefulInv', Sent,
         saved' = view', UNCHANGED <<committed, before>>,
         phase' # "voted", failed' = "no", phase # "voted",
         NEW A, NEW P, NEW D, NEW k, Sending(A, P, D, k)
  PROVE  PlainInv'
<1> USE DEF Sending
<1> DEFINE t == AfterCommands(A, P, keys, D)  N == ToSet(A)
<1>1. TypeOK /\ Rooted(view) /\ keys \subseteq registered
  BY DEF PlainInv, CarefulInv, Inv, RootStays, TypeOK
<1>2. \A n \in Nodes : Exists(view', n) <=> Exists(t, n)
  BY DEF Exists
<1>3. \A n \in Nodes : Below(view', n) = Below(t, n)
  BY DEF Below
<1>4. ASSUME NEW n \in Nodes, Exists(view', n)
      PROVE  /\ Below(view', n) = (Below(view, n) \cup {a \in N : P[a] = n}) \ D
             /\ t.val[n] = IF n \in N \cup keys THEN val[n] ELSE view.val[n]
             /\ n \in N \/ Exists(view, n)
  <2>1. Exists(t, n) /\ \A a \in N : ~Exists(view, a)
    BY <1>2, <1>4
  <2>2. /\ Below(t, n) = (Below(view, n) \cup {a \in N : P[a] = n}) \ D
        /\ t.val[n] = IF n \in N \cup keys THEN val[n] ELSE view.val[n]
        /\ n \in N \/ Exists(view, n)
    BY <1>1, <2>1, BelowAfter
  <2> QED BY <2>2, <1>3
<1>5. /\ added' = <<>> /\ ToSet(added') = {} /\ registered' = {} /\ keys' = {}
      /\ N \subseteq Nodes /\ committed' = committed
  BY ToSetFacts DEF Sent, Batch
<1> HIDE DEF t
<1>6. \A n \in Nodes : \/ view'.val[n] = t.val[n]
                       \/ st'[n] = "ghost" /\ n \in modified'
  BY DEF t
<1>7. Alone'
  BY DEF PlainInv, Alone
<1>8. CacheCoherent'
  <2> SUFFICES ASSUME NEW n \in cache', Exists(view', n), st'[n] # "ghost"
               PROVE  val'[n] = view'.val[n] /\ kids'[n] = Below(view', n)
    BY <1>5 DEF CacheCoherent
  <2>1. /\ n \in Nodes /\ n \in cache \cup N /\ (n \in cache => st[n] # "ghost")
        /\ val'[n] = val[n] /\ kids'[n] = k[n] \ D
    BY DEF ShowsSent
  <2>2. /\ Below(view', n) = (Below(view, n) \cup {a \in N : P[a] = n}) \ D
        /\ t.val[n] = IF n \in N \cup keys THEN val[n] ELSE view.val[n]
        /\ n \in N \/ Exists(view, n)
    BY <2>1, <1>4
  <2>3. CASE n \in N
    <3>1. Below(view, n) = {}
      BY <2>3, <1>1, <1>5, NothingBelow DEF TypeOK
    <3> QED BY <2>1, <2>2, <2>3, <3>1, <1>6 DEF Coherent
  <2>4. CASE n \notin N
    BY <2>1, <2>2, <2>4, <1>6 DEF Coherent
  <2> QED BY <2>3, <2>4
<1>9. AddedCoherent'
  BY <1>5 DEF AddedCoherent
<1>10. ChangesRemembered'
  <2> SUFFICES ASSUME NEW n \in Nodes, Exists(view', n)
               PROVE  /\ ~Exists(committed, n) => n \in created'
                      /\ Exists(committed, n)
                         /\ (\/ view'.val[n] # committed.val[n]
                             \/ Below(view', n) # Below(committed, n))
                           => n \in modified' \cup created'
    BY <1>5 DEF ChangesRemembered, Exists, Below
  <2>1. CASE n \in N
    BY <2>1
  <2>2. CASE n \notin N
    <3>1. Exists(view, n) /\ (n \notin keys => t.val[n] = view.val[n])
      BY <2>2, <1>4
    <3>2. n \in modified' \/ Below(view', n) = Below(view, n)
      <4>1. n \notin modified' => /\ {a \in N : P[a] = n} = {}
                                  /\ D \cap Below(view, n) = {}
        BY DEF Below
      <4>2. Below(view', n) = (Below(view, n) \cup {a \in N : P[a] = n}) \ D
        BY <1>4
      <4> QED BY <4>1, <4>2
    <3>3. n \in modified' \/ view'.val[n] = view.val[n]
      BY <3>1, <1>1, <1>6
    <3>4. /\ ~Exists(committed, n) => n \in created
          /\ Exists(committed, n)
             /\ (view.val[n] # committed.val[n] \/ Below(view, n) # Below(committed, n))
               => n \in modified \cup registered \cup created
      BY <3>1 DEF PlainInv, ChangesRemembered
    <3> QED BY <3>2, <3>3, <3>4
  <2> QED BY <2>1, <2>2
<1>11. AbortRestores'
  <2> SUFFICES ASSUME NEW n \in cache'
               PROVE  /\ Exists(view', n) /\ ~Exists(committed, n) => n \in created'
                      /\ Exists(committed, n) /\ st'[n] # "ghost"
                         /\ (val'[n] # committed.val[n] \/ kids'[n] # Below(committed, n))
                           => n \in modified' \cup created'
    BY <1>5 DEF AbortRestores, Exists, Below
  <2>1. n \in Nodes
    BY DEF ShowsSent
  <2>2. Exists(view', n) /\ ~Exists(committed, n) => n \in created'
    BY <2>1, <1>5, <1>10 DEF ChangesRemembered, Exists
  <2>3. ASSUME Exists(committed, n), st'[n] # "ghost", n \notin modified' \cup created'
        PROVE  val'[n] = committed.val[n] /\ kids'[n] = Below(committed, n)
    <3>1. n \in cache /\ st[n] # "ghost" /\ val'[n] = val[n] /\ kids'[n] = kids[n]
      BY <2>3 DEF ShowsSent
    <3> QED BY <2>3, <3>1 DEF PlainInv, AbortRestores
  <2> QED BY <2>2, <2>3
<1> QED BY <1>7, <1>8, <1>9, <1>10, <1>11 DEF PlainInv

\* What an operation finds.
LEMMA PlainFacts ==
  ASSUME PlainInv, Using
  PROVE  /\ Inv /\ TypeOK /\ Rooted(view) /\ ~Broken /\ view = saved /\ failed = "no"
         /\ Batch(added, par) /\ ToSet(added) \subseteq Nodes /\ ToSet(added) \cap cache = {}
         /\ \A a \in ToSet(added) : ~Exists(view, a) /\ par[a] \in modified
         /\ \A a \in ToSet(added) : par[a] \in ToSet(added) \/ Exists(view, par[a])
         /\ Coherent(added, par, kids)
         /\ keys \subseteq registered /\ registered \subseteq cache /\ created \subseteq cache
         /\ cache \subseteq Nodes /\ commands = {}
         /\ \A n \in registered : st[n] = "changed"
         /\ \A n \in keys : st[n] # "ghost"
<1>1. /\ CarefulInv /\ Inv /\ TypeOK /\ Rooted(view) /\ ~Broken /\ view = saved /\ failed = "no"
  BY DEF PlainInv, CarefulInv, Inv, RootStays, Alone
<1>2. /\ Batch(added, par) /\ ToSet(added) \subseteq Nodes /\ ToSet(added) \cap cache = {}
      /\ (joined \/ ToSet(added) = {}) /\ commands = {}
  BY <1>1, AddedBatch, ToSetFacts
<1>3. /\ \A a \in ToSet(added) : ~Exists(view, a) /\ par[a] \in modified
      /\ \A a \in ToSet(added) : par[a] \in ToSet(added) \/ Exists(view, par[a])
  BY <1>1, <1>2 DEF PlainInv, AddedCoherent, Inv, AddedApart
<1>4. Coherent(added, par, kids)
  BY <1>1 DEF PlainInv, CacheCoherent, AddedCoherent, Coherent
<1> QED BY <1>1, <1>2, <1>3, <1>4 DEF CarefulInv, TypeOK

\* A flush makes no ghost's state.
LEMMA FlushedStates ==
  ASSUME PlainInv, Using, NEW A, ToSet(A) \cap cache = {},
         NEW R, \A n \in R : st[n] # "ghost"
  PROVE  \A n \in cache : StAfter(st, A, R)[n] # "ghost" => st[n] # "ghost"
BY PlainFacts DEF StAfter

\* A flush of the registered R, with the nodes D removed, of which the objects X
\* leave the cache, and the parents M remembered.
Flush(R, D, X, s, k, M) ==
  /\ registered \subseteq R /\ \A n \in R : st[n] # "ghost"
  /\ D \subseteq Nodes \ {Root} /\ \A d \in D : view.par[d] \in modified'
  /\ Send(added, par, R, keys, D) /\ Remember(R, M, added)
  /\ SetObjects((cache \cup ToSet(added)) \ X, {}, s, val, k)
  /\ \A n \in Nodes : s[n] # "ghost" =>
       /\ StAfter(st, added, R)[n] # "ghost"
       /\ n \in cache \ modified' => k[n] = kids[n]
       /\ Exists(view', n) => k[n] = kids[n] \ D

LEMMA FlushedPlain ==
  ASSUME PlainInv, CarefulInv', Using, Sent, failed' = "no",
         phase' # "voted", before' = before,
         NEW R, NEW D, NEW X, NEW s, NEW k, NEW M, Flush(R, D, X, s, k, M)
  PROVE  PlainInv'
<1> USE DEF Flush
<1>1. /\ TypeOK /\ Rooted(view) /\ view = saved /\ keys \subseteq registered
      /\ Batch(added, par) /\ ToSet(added) \subseteq Nodes /\ ToSet(added) \cap cache = {}
      /\ \A a \in ToSet(added) : ~Exists(view, a) /\ par[a] \in modified
      /\ Coherent(added, par, kids) /\ cache \subseteq Nodes
      /\ \A m \in keys : st[m] # "ghost"
  BY PlainFacts
<1>2. view' = AfterCommands(added, par, keys, D) /\ saved' = view' /\ committed' = committed
  BY <1>1, SendIsCommands
<1>3. /\ modified \cup registered \subseteq modified' /\ created \cup ToSet(added) \subseteq created'
      /\ phase # "voted"
  BY DEF Remember, Using
<1>4. ShowsSent(added, D, kids)
  <2>1. \A n \in cache : StAfter(st, added, R)[n] # "ghost" => st[n] # "ghost"
    BY <1>1, FlushedStates
  <2> DEFINE C == (cache \cup ToSet(added)) \ X
  <2>2. C \subseteq cache \cup ToSet(added) /\ C \subseteq Nodes
    BY <1>1
  <2>3. SetObjects(C, {}, s, val, k)
    OBVIOUS
  <2> HIDE DEF C
  <2>4. /\ cache' = C
        /\ \A n \in Nodes : st'[n] # "ghost" => /\ n \in C /\ s[n] # "ghost"
                                                /\ val'[n] = val[n] /\ kids'[n] = k[n]
    BY <2>3 DEF SetObjects
  <2> QED BY <2>1, <2>2, <2>4 DEF ShowsSent
<1>5. \A a \in ToSet(added) : ~Exists(view, a) /\ par[a] \in modified'
  BY <1>1, <1>3
<1>6. Sending(added, par, D, kids)
  BY <1>1, <1>2, <1>3, <1>4, <1>5 DEF Sending
<1> QED BY <1>2, <1>3, <1>6, SentPlain

\* The new object n below p is one more to be sent.
LEMMA QueuedCoherent ==
  ASSUME PlainInv, Using, NEW p \in Nodes, NEW n \in Nodes, Live(p), Loaded(p), Fresh(n)
  PROVE  Coherent(Queued(n), [par EXCEPT ![n] = p], [kids EXCEPT ![p] = @ \cup {n}])
<1> DEFINE P == [par EXCEPT ![n] = p]
           k == [kids EXCEPT ![p] = @ \cup {n}]
           N == ToSet(added)
<1>1. /\ TypeOK /\ Inv /\ ~Broken /\ Coherent(added, par, kids)
      /\ N \subseteq Nodes /\ cache \subseteq Nodes /\ N \cap cache = {}
      /\ \A a \in N : par[a] \in N \/ Exists(view, par[a])
  BY PlainFacts
<1>2. /\ ToSet(Queued(n)) = N \cup {n} /\ n # p /\ n \notin cache \cup N
      /\ ~Exists(view, n)
  BY <1>1, QueuedFacts
<1>3. /\ P[n] = p /\ \A m \in Nodes \ {n} : P[m] = par[m]
      /\ k[p] = kids[p] \cup {n} /\ \A m \in Nodes \ {p} : k[m] = kids[m]
  BY <1>1 DEF TypeOK
<1>4. kids[n] = {}
  BY <1>1, <1>2 DEF Inv, StatesKept
<1> HIDE DEF P, k, N
<1>5. \A m \in Nodes : {a \in N \cup {n} : P[a] = m}
                         = {a \in N : par[a] = m} \cup (IF m = p THEN {n} ELSE {})
  BY <1>1, <1>2, <1>3
<1>6. \A m \in cache :
        Exists(view, m) /\ st[m] # "ghost" =>
          /\ m \notin keys => val[m] = view.val[m]
          /\ k[m] = Below(view, m) \cup {a \in N \cup {n} : P[a] = m}
  BY <1>1, <1>3, <1>5 DEF Coherent, N
<1>7. ASSUME NEW m \in N \cup {n} PROVE k[m] = {a \in N \cup {n} : P[a] = m}
  <2>1. CASE m = n
    BY <2>1, <1>1, <1>2, <1>3, <1>4, <1>5
  <2>2. CASE m # n
    BY <2>2, <1>1, <1>3, <1>5 DEF Coherent, N
  <2> QED BY <2>1, <2>2
<1> QED BY <1>2, <1>6, <1>7 DEF Coherent, P, k

-----------------------------------------------------------------------------
(* The operations.                                                         *)

LEMMA SavepointPlain ==
  ASSUME Plain, PlainInv, CarefulInv', Savepoint \/ CommitOk
  PROVE  PlainInv'
<1> DEFINE s == StAfter(st, added, registered)  C == cache \cup ToSet(added)
<1>1. "refuse" \notin Scope
  BY DEF Plain
<1>2. /\ Using /\ Send(added, par, registered, keys, {}) /\ Sent /\ Remember(registered, {}, added)
      /\ SetObjects(C, {}, s, val, kids)
      /\ phase' # "voted" /\ failed' = failed /\ before' = before
  <2>1. CASE Savepoint
    <3>1. /\ Using /\ ~Broken /\ Inv /\ commands = {}
      BY <2>1, PlainFacts DEF Savepoint
    <3>2. CASE Refused(added, par, registered, keys, commands)
      BY <3>1, <3>2, <1>1 DEF Refused
    <3>3. CASE /\ Send(added, par, registered, keys, commands) /\ SetObjects(C, {}, s, val, kids)
               /\ Remember(registered, {}, added) /\ Sent /\ Join
      <4>1. Join => phase' = phase /\ failed' = failed /\ before' = before
        BY DEF Join
      <4> QED BY <3>1, <3>3, <4>1, JoinFacts DEF Using
    <3> QED BY <2>1, <3>2, <3>3 DEF Savepoint
  <2>2. CASE CommitOk
    <3>1. TypeOK /\ commands = {}
      BY <2>2, PlainFacts DEF CommitOk
    <3> QED BY <2>2, <3>1 DEF CommitOk, TypeOK
  <2> QED BY <2>1, <2>2
<1>3. /\ failed = "no" /\ \A n \in registered : st[n] # "ghost"
  BY <1>2, PlainFacts
<1>4. /\ {} \subseteq Nodes \ {Root} /\ \A d \in {} : view.par[d] \in modified'
      /\ registered \subseteq registered /\ C \ {} = C
      /\ \A n \in Nodes : kids[n] \ {} = kids[n]
  OBVIOUS
<1>5. SetObjects(C \ {}, {}, s, val, kids)
  BY <1>2, <1>4
<1>6. \A n \in Nodes : s[n] # "ghost" => /\ StAfter(st, added, registered)[n] # "ghost"
                                         /\ n \in cache \ modified' => kids[n] = kids[n]
                                         /\ Exists(view', n) => kids[n] = kids[n] \ {}
  BY <1>4
<1>7. Flush(registered, {}, {}, s, kids, {})
  BY <1>2, <1>3, <1>4, <1>5, <1>6 DEF Flush
<1> QED BY <1>2, <1>3, <1>7, FlushedPlain

\* A child that has an object is in the tree below its parent.
LEMMA ChildFacts ==
  ASSUME PlainInv, Using, NEW p \in Nodes, Live(p), Loaded(p), NEW n \in kids[p] \cap cache
  PROVE  p \in cache /\ view.par[n] = p /\ n \in Nodes \ {Root}
<1>1. /\ Coherent(added, par, kids) /\ ToSet(added) \cap cache = {}
  BY PlainFacts
<1>2. p \notin ToSet(added)
  BY <1>1 DEF Coherent
<1>3. p \in cache /\ Exists(view, p) /\ st[p] # "ghost"
  BY <1>2 DEF Live, Loaded
<1>4. n \in Below(view, p)
  BY <1>1, <1>3 DEF Coherent
<1> QED BY <1>3, <1>4 DEF Below

\* When nodes below p go, no other node that stays loses a child.
LEMMA OthersKeep ==
  ASSUME PlainInv, Using, NEW N, N \subseteq cache \ {Root}, NEW p, \A d \in N : view.par[d] = p,
         Send(added, par, registered, keys, N),
         NEW q \in Nodes, q # p, StAfter(st, added, registered)[q] # "ghost", Exists(view', q)
  PROVE  kids[q] \cap N = {}
<1>1. /\ TypeOK /\ Inv /\ Rooted(view) /\ view = saved /\ keys \subseteq registered
      /\ Batch(added, par) /\ ToSet(added) \cap cache = {}
      /\ \A a \in ToSet(added) : ~Exists(view, a)
      /\ Coherent(added, par, kids) /\ cache \subseteq Nodes /\ registered \subseteq cache
      /\ \A n \in registered : st[n] = "changed"
      /\ \A n \in keys : st[n] # "ghost"
  BY PlainFacts
<1>2. view' = AfterCommands(added, par, keys, N)
  BY <1>1, SendIsCommands
<1>3. q \in ToSet(added) \/ Exists(view, q)
  BY <1>1, <1>2, BelowAfter
<1>4. CASE q \in ToSet(added)
  BY <1>1, <1>4 DEF Coherent
<1>5. CASE q \notin ToSet(added)
  <2>1. st[q] # "ghost" /\ q \in cache
    BY <1>1, <1>5 DEF StAfter, Inv, StatesKept
  <2>2. kids[q] = Below(view, q) \cup {a \in ToSet(added) : par[a] = q}
    BY <1>1, <1>3, <1>5, <2>1 DEF Coherent
  <2> QED BY <1>1, <2>2 DEF Below
<1> QED BY <1>4, <1>5

LEMMA DeleteNodePlain ==
  ASSUME Plain, PlainInv, CarefulInv', NEW p \in Nodes, NEW n \in Nodes, DeleteNode(p, n)
  PROVE  PlainInv'
<1> DEFINE s == StAfter(st, added, registered)
           k == [kids EXCEPT ![p] = @ \ {n}]
<1>1. /\ Using /\ Live(p) /\ Loaded(p) /\ n \in kids[p] \cap cache
      /\ Send(added, par, registered, keys, {n}) /\ Remember(registered, {p}, added)
      /\ SetObjects((cache \cup ToSet(added)) \ {n}, {}, s, val, k) /\ Sent /\ Join
  <2>1. Using /\ ~Broken /\ commands = {} /\ "refuse" \notin Scope
    BY PlainFacts DEF DeleteNode, Plain
  <2>2. ~DeleteRefused(p, n)
    BY <2>1 DEF DeleteRefused, Refused
  <2> QED BY <2>1, <2>2 DEF DeleteNode
<1>2. view.par[n] = p /\ n \in Nodes \ {Root}
  BY <1>1, ChildFacts
<1>3. p \in modified' /\ failed' = "no" /\ phase' # "voted" /\ before' = before
  BY <1>1 DEF Remember, Join, Using
<1>4. /\ \A m \in registered : st[m] # "ghost"
      /\ kids \in [Nodes -> SUBSET Nodes]
  BY <1>1, PlainFacts DEF TypeOK
<1>5. ASSUME NEW q \in Nodes, s[q] # "ghost"
      PROVE  /\ q \in cache \ modified' => k[q] = kids[q]
             /\ Exists(view', q) => k[q] = kids[q] \ {n}
  <2>1. CASE q = p
    BY <2>1, <1>3, <1>4
  <2>2. CASE q # p
    <3>1. k[q] = kids[q]
      BY <2>2, <1>4
    <3>2. {n} \subseteq cache \ {Root} /\ \A d \in {n} : view.par[d] = p
      BY <1>1, <1>2
    <3>3. Exists(view', q) => kids[q] \cap {n} = {}
      BY <1>1, <1>5, <2>2, <3>2, OthersKeep
    <3> QED BY <3>1, <3>3
  <2> QED BY <2>1, <2>2
<1>6. Flush(registered, {n}, {n}, s, k, {p})
  BY <1>1, <1>2, <1>3, <1>4, <1>5 DEF Flush
<1> QED BY <1>1, <1>3, <1>6, FlushedPlain

LEMMA ClearPlain ==
  ASSUME Plain, PlainInv, CarefulInv', NEW p \in Nodes, Clear(p)
  PROVE  PlainInv'
<1> DEFINE s == StAfter(st, added, registered)
           k == [kids EXCEPT ![p] = {}]
           N == kids[p]
<1>1. /\ Using /\ Live(p) /\ Loaded(p) /\ N \subseteq cache
      /\ Send(added, par, registered, keys, N) /\ Remember(registered, {p}, added)
      /\ SetObjects((cache \cup ToSet(added)) \ N, {}, s, val, k) /\ Sent /\ Join
  <2>1. Using /\ commands = {}
    BY PlainFacts DEF Clear, Clearing
  <2> QED BY <2>1 DEF Clear, Clearing
<1>2. \A n \in N : view.par[n] = p /\ n \in Nodes \ {Root}
  BY <1>1, ChildFacts
<1>3. p \in modified' /\ failed' = "no" /\ phase' # "voted" /\ before' = before
  BY <1>1 DEF Remember, Join, Using
<1>4. /\ \A m \in registered : st[m] # "ghost"
      /\ kids \in [Nodes -> SUBSET Nodes]
  BY <1>1, PlainFacts DEF TypeOK
<1>5. ASSUME NEW q \in Nodes, s[q] # "ghost"
      PROVE  /\ q \in cache \ modified' => k[q] = kids[q]
             /\ Exists(view', q) => k[q] = kids[q] \ N
  <2>1. CASE q = p
    BY <2>1, <1>3, <1>4
  <2>2. CASE q # p
    <3>1. k[q] = kids[q]
      BY <2>2, <1>4
    <3>2. N \subseteq cache \ {Root} /\ \A d \in N : view.par[d] = p
      BY <1>1, <1>2
    <3>3. Exists(view', q) => kids[q] \cap N = {}
      BY <1>1, <1>5, <2>2, <3>2, OthersKeep
    <3> QED BY <3>1, <3>3
  <2> QED BY <2>1, <2>2
<1>6. Flush(registered, N, N, s, k, {p})
  BY <1>1, <1>2, <1>3, <1>4, <1>5 DEF Flush
<1> QED BY <1>1, <1>3, <1>6, FlushedPlain

\* A version goes: its history, which is told, becomes a ghost.
LEMMA RemoveFrozenPlain ==
  ASSUME Plain, PlainInv, CarefulInv', NEW f \in Nodes, RemoveFrozen(f)
  PROVE  PlainInv'
<1> DEFINE version == view.par[f]
           history == view.par[version]
           a == StAfter(st, added, registered)
           s == [a EXCEPT ![version] = "ghost", ![history] = "ghost"]
<1>1. /\ Using /\ version # Root /\ version \in cache
      /\ Send(added, par, registered, keys, {version}) /\ Remember(registered, {history}, added)
      /\ SetObjects((cache \cup ToSet(added)) \ {f}, {}, s, val, kids) /\ Sent /\ Join
  <2>1. Using /\ ~Broken /\ commands = {} /\ "refuse" \notin Scope
    BY PlainFacts DEF RemoveFrozen, Plain
  <2>2. \A D : ~Refused(added, par, registered, keys, D)
    BY <2>1 DEF Refused
  <2> QED BY <2>1, <2>2 DEF RemoveFrozen
<1>2. /\ \A m \in registered : st[m] # "ghost"
      /\ cache \subseteq Nodes
  BY <1>1, PlainFacts
<1>3. history \in modified' /\ failed' = "no" /\ phase' # "voted" /\ before' = before
  BY <1>1 DEF Remember, Join, Using
<1>4. \A q \in Nodes : s[q] # "ghost" => a[q] # "ghost" /\ q # history
  BY DEF StAfter
<1> HIDE DEF version, s, history
<1>5. ASSUME NEW q \in Nodes, s[q] # "ghost", Exists(view', q)
      PROVE  kids[q] = kids[q] \ {version}
  <2>1. {version} \subseteq cache \ {Root} /\ \A d \in {version} : view.par[d] = history
    BY <1>1 DEF history
  <2>2. kids[q] \cap {version} = {}
    BY <1>1, <1>4, <1>5, <2>1, OthersKeep
  <2> QED BY <2>2
<1>6. /\ {version} \subseteq Nodes \ {Root} /\ \A d \in {version} : view.par[d] \in modified'
  BY <1>1, <1>2, <1>3 DEF history
<1>7. Flush(registered, {version}, {f}, s, kids, {history})
  BY <1>1, <1>2, <1>4, <1>5, <1>6 DEF Flush
<1> QED BY <1>1, <1>3, <1>7, FlushedPlain

LEMMA ReorderChildrenPlain ==
  ASSUME Plain, PlainInv, CarefulInv', NEW n \in Nodes, ReorderChildren(n)
  PROVE  PlainInv'
<1> DEFINE R == registered \cup Registering(n)
           s == StAfter(st, added, R)  C == cache \cup ToSet(added)
<1>1. /\ Using /\ Send(added, par, R, keys, {}) /\ Remember(R, {}, added)
      /\ SetObjects(C, {}, s, val, kids) /\ Sent /\ Join
  <2>1. Using /\ ~Broken /\ commands = {} /\ "refuse" \notin Scope
    BY PlainFacts DEF ReorderChildren, Plain
  <2>2. ~Refused(added, par, R, keys, commands)
    BY <2>1 DEF Refused
  <2> QED BY <2>1, <2>2 DEF ReorderChildren
<1>2. \A m \in R : st[m] # "ghost"
  BY <1>1, PlainFacts DEF Registering
<1>3. failed' = "no" /\ phase' # "voted" /\ before' = before
  BY <1>1 DEF Join, Using
<1>4. /\ {} \subseteq Nodes \ {Root} /\ \A d \in {} : view.par[d] \in modified'
      /\ registered \subseteq R /\ C \ {} = C
      /\ \A m \in Nodes : kids[m] \ {} = kids[m]
  OBVIOUS
<1>5. SetObjects(C \ {}, {}, s, val, kids)
  BY <1>1, <1>4
<1>6. Flush(R, {}, {}, s, kids, {})
  BY <1>1, <1>2, <1>4, <1>5 DEF Flush
<1> HIDE DEF R, s
<1> QED BY <1>1, <1>3, <1>6, FlushedPlain

\* The new child is sent at once, and its object is a ghost.
LEMMA AddChildPlain ==
  ASSUME Plain, PlainInv, CarefulInv', NEW p \in Nodes, NEW n \in Nodes, AddChild(p, n)
  PROVE  PlainInv'
<1> DEFINE A == Queued(n)
           P == [par EXCEPT ![n] = p]
           R == registered \cup Registering(p)
           s == [StAfter(st, A, R) EXCEPT ![n] = "ghost"]
           k == [kids EXCEPT ![p] = @ \cup {n}]
           C == cache \cup ToSet(A)
<1>1. /\ Using /\ Live(p) /\ Loaded(p) /\ Fresh(n) /\ Sent /\ Join
      /\ SetObjects(C, {}, s, val, k) /\ Remember(R, {p}, A)
      /\ Send(A, P, R, keys, {})
  <2>1. Using /\ commands = {}
    BY PlainFacts DEF AddChild
  <2> QED BY <2>1 DEF AddChild
<1>2. /\ Inv /\ TypeOK /\ ~Broken /\ ToSet(added) \subseteq Nodes /\ ToSet(added) \cap cache = {}
      /\ \A a \in ToSet(added) : ~Exists(view, a) /\ par[a] \in modified
      /\ cache \subseteq Nodes /\ \A m \in registered : st[m] # "ghost"
      /\ \A m \in keys : st[m] # "ghost"
  BY <1>1, PlainFacts
<1>3. /\ Queue(A, P) /\ ToSet(A) = ToSet(added) \cup {n} /\ n # p
      /\ n \notin cache \cup ToSet(added) /\ ~Exists(view, n)
  BY <1>1, <1>2, QueuedFacts
<1>q. /\ Accepted(A, P, R \cup {}) /\ view' = AfterCommands(A, P, keys, {})
      /\ saved' = view' /\ committed' = committed
  <2>1. A # <<>>
    BY <1>3, ToSetFacts
  <2> HIDE DEF A, P, R
  <2> QED BY <1>1, <2>1 DEF Send, Passes
<1>b. Batch(A, P)
  BY <1>3, <1>q, AcceptedBatch
<1>4. Coherent(A, P, k)
  BY <1>1, QueuedCoherent
<1>5. /\ modified \cup registered \cup {p} \subseteq modified'
      /\ created \cup ToSet(A) \subseteq created'
      /\ failed' = "no" /\ phase' # "voted" /\ phase # "voted" /\ before' = before
  BY <1>1 DEF Remember, Join, Using
<1>6. \A a \in ToSet(A) : ~Exists(view, a) /\ P[a] \in modified'
  BY <1>2, <1>3, <1>5 DEF TypeOK
<1>7. /\ \A m \in cache : s[m] # "ghost" => st[m] # "ghost"
      /\ \A m \in Nodes : s[m] # "ghost" => m # n
  BY <1>1, <1>2, <1>3 DEF StAfter, Registering
<1>8. \A m \in cache \ modified' : k[m] = kids[m]
  BY <1>2, <1>5 DEF TypeOK
<1> HIDE DEF A, P, R, s, k
<1>9. ShowsSent(A, {}, k)
  <2>1. C \subseteq Nodes
    BY <1>2, <1>3
  <2>2. /\ cache' = C
        /\ \A m \in Nodes : st'[m] # "ghost" => /\ s[m] # "ghost"
                                                /\ val'[m] = val[m] /\ kids'[m] = k[m]
    BY <1>1 DEF SetObjects
  <2> QED BY <2>1, <2>2, <1>7, <1>8 DEF ShowsSent
<1>10. {} \subseteq Nodes \ {Root} /\ \A d \in {} : view.par[d] \in modified'
  OBVIOUS
<1>11. /\ view'.par = AfterCommands(A, P, keys, {}).par
       /\ \A m \in Nodes : view'.val[m] = AfterCommands(A, P, keys, {}).val[m]
       /\ UNCHANGED <<committed, before>>
  BY <1>q, <1>5
<1>12. Sending(A, P, {}, k)
  BY <1>2, <1>b, <1>4, <1>5, <1>6, <1>9, <1>10, <1>11 DEF Sending
<1> QED BY <1>1, <1>5, <1>q, <1>12, SentPlain

\* A version of the node is made: the node becomes a ghost and is remembered.
LEMMA CheckpointPlain ==
  ASSUME Plain, PlainInv, CarefulInv', NEW n \in Nodes, NEW v \in Vals, Checkpoint(n, v)
  PROVE  PlainInv'
<1> DEFINE C == cache \cup ToSet(added) \cup {n}
           gone == {n} \cup ({} \cap C)
           s == [m \in Nodes |-> IF m \in gone THEN "ghost"
                                 ELSE StAfter(st, added, registered)[m]]
           t == AfterCommands(added, par, keys, {})
<1>1. /\ Using /\ Live(n) /\ Sent /\ Join
      /\ view' = [Flushed EXCEPT !.val[n] = v] /\ saved' = [Persisted EXCEPT !.val[n] = v]
      /\ SetObjects(C, {}, s, val, kids) /\ Remember(registered, gone, added)
      /\ committed' = committed
  BY DEF Checkpoint, InWorkspace, ChangedInBackend, Flushing
<1>2. /\ Inv /\ TypeOK /\ ~Broken /\ ToSet(added) \subseteq Nodes /\ ToSet(added) \cap cache = {}
      /\ \A a \in ToSet(added) : ~Exists(view, a) /\ par[a] \in modified
      /\ cache \subseteq Nodes /\ \A m \in registered : st[m] # "ghost"
      /\ Batch(added, par) /\ Coherent(added, par, kids) /\ view = saved /\ Rooted(view)
      /\ keys \subseteq registered /\ commands = {}
      /\ \A m \in keys : st[m] # "ghost"
  BY <1>1, PlainFacts
<1>3. n \in cache \cup ToSet(added) /\ gone = {n} /\ C = cache \cup ToSet(added)
  BY <1>1 DEF Live
<1>4. Flushed = t /\ Persisted = t
  <2>1. CASE Pending
    BY <2>1, <1>2 DEF Flushed, Persisted
  <2>2. CASE ~Pending
    <3>1. added = <<>> /\ registered = {}
      BY <2>2 DEF Pending
    <3>2. /\ t = SentTree(added, par, keys) /\ ToSet(added) = {} /\ Written(added, keys) = {}
      BY <1>2, <3>1, NothingRemoved, ToSetFacts DEF Written
    <3>3. /\ view \in Trees /\ t \in Trees
          /\ \A m \in Nodes : t.par[m] = view.par[m] /\ t.val[m] = view.val[m]
      BY <1>2, <3>2, SentTreeFacts DEF TypeOK
    <3>4. t = view
      BY <3>3 DEF Trees
    <3> QED BY <2>2, <3>4, <1>2 DEF Flushed, Persisted
  <2> QED BY <2>1, <2>2
<1>5. t \in Trees
  <2>1. {} \subseteq Nodes \ {Root}
    OBVIOUS
  <2> QED BY <1>2, <2>1, AfterCommandsFacts
<1>6. /\ modified \cup registered \cup {n} \subseteq modified'
      /\ created \cup ToSet(added) \subseteq created'
      /\ failed' = "no" /\ phase' # "voted" /\ phase # "voted"
      /\ UNCHANGED <<committed, before>>
  BY <1>1, <1>3 DEF Remember, Join, Using
<1>7. /\ \A m \in cache : s[m] # "ghost" => st[m] # "ghost"
      /\ s[n] = "ghost"
  BY <1>2, <1>3 DEF StAfter
<1> HIDE DEF s, gone, C
<1>8. /\ cache' = C
      /\ \A m \in Nodes : st'[m] # "ghost" => /\ m \in C /\ s[m] # "ghost"
                                              /\ val'[m] = val[m] /\ kids'[m] = kids[m]
  BY <1>1 DEF SetObjects
<1>9. /\ view'.par = t.par /\ saved' = view'
      /\ \A m \in Nodes : \/ view'.val[m] = t.val[m]
                          \/ st'[m] = "ghost" /\ m \in modified'
  <2> HIDE DEF t
  <2>1. view' = [t EXCEPT !.val[n] = v] /\ saved' = view'
    BY <1>1, <1>4
  <2>2. view'.par = t.par /\ \A m \in Nodes : m # n => view'.val[m] = t.val[m]
    BY <2>1, <1>5 DEF Trees
  <2>3. st'[n] = "ghost" /\ n \in modified'
    BY <1>6, <1>7, <1>8
  <2> QED BY <2>1, <2>2, <2>3
<1>10. ShowsSent(added, {}, kids)
  <2>1. \A m \in Nodes : kids[m] \ {} = kids[m]
    OBVIOUS
  <2> QED BY <2>1, <1>2, <1>3, <1>7, <1>8 DEF ShowsSent
<1>11. {} \subseteq Nodes \ {Root} /\ \A d \in {} : view.par[d] \in modified'
  OBVIOUS
<1>12. \A a \in ToSet(added) : ~Exists(view, a) /\ par[a] \in modified'
  BY <1>2, <1>6
<1>13. Sending(added, par, {}, kids)
  BY <1>2, <1>6, <1>9, <1>10, <1>11, <1>12 DEF Sending
<1> QED BY <1>1, <1>6, <1>9, <1>13, SentPlain

\* A step that leaves the session alone: what changes in an object is remembered.
LEMMA LocalPlain ==
  ASSUME PlainInv, CarefulInv', Using, UNCHANGED <<phase, failed, before, server>>,
         CacheCoherent', AddedCoherent',
         modified \subseteq modified', registered \subseteq registered', created' = created,
         \A n \in cache' :
           st'[n] # "ghost" =>
             \/ n \in cache /\ st[n] # "ghost" /\ val'[n] = val[n] /\ kids'[n] = kids[n]
             \/ Exists(view, n) /\ val'[n] = view.val[n] /\ kids'[n] = Below(view, n)
             \/ n \in modified' \cup registered'
  PROVE  PlainInv'
<1> USE DEF server
<1>1. Alone'
  BY DEF PlainInv, Alone
<1>2. ChangesRemembered'
  BY DEF PlainInv, ChangesRemembered, Exists, Below
<1>3. AbortRestores'
  <2> SUFFICES ASSUME NEW n \in cache'
               PROVE  /\ Exists(view, n) /\ ~Exists(committed, n) => n \in created
                      /\ Exists(committed, n) /\ st'[n] # "ghost"
                         /\ (val'[n] # committed.val[n] \/ kids'[n] # Below(committed, n))
                           => n \in modified' \cup registered' \cup created
    BY DEF AbortRestores, Exists, Below
  <2>1. n \in Nodes
    BY DEF CarefulInv, Inv, TypeOK
  <2> QED BY <2>1 DEF PlainInv, ChangesRemembered, AbortRestores
<1> QED BY <1>1, <1>2, <1>3 DEF PlainInv

LEMMA LoadPlain ==
  ASSUME Plain, PlainInv, CarefulInv', NEW n \in Nodes, Load(n)
  PROVE  PlainInv'
<1> DEFINE C == cache \cup Below(view, n) \cup {view.par[n]}
           A == ToSet(added)
           s == [st EXCEPT ![n] = "uptodate"]
           v == [val EXCEPT ![n] = view.val[n]]
           k == [kids EXCEPT ![n] = Below(view, n)]
<1>1. /\ Using /\ n \in cache /\ Exists(view, n) /\ st[n] = "ghost"
      /\ SetObjects(C, A, s, v, k) /\ UNCHANGED <<unsent, undo, txn, server>>
  BY DEF Load
<1>2. /\ TypeOK /\ Inv /\ failed = "no" /\ Rooted(view) /\ A \subseteq Nodes /\ cache \subseteq Nodes
      /\ A \cap cache = {} /\ \A a \in A : ~Exists(view, a)
      /\ Coherent(added, par, kids)
  BY <1>1, PlainFacts
<1>3. C \subseteq Nodes /\ C \cap A = {}
  <2>1. \A m \in Below(view, n) : m \in Nodes /\ Exists(view, m)
    BY <1>2, ScopeAssumption DEF Below, Exists
  <2>2. view.par[n] \in Nodes /\ Exists(view, view.par[n])
    BY <1>1, <1>2 DEF Exists, Rooted, TypeOK, Trees
  <2> QED BY <1>2, <2>1, <2>2
<1>4. \A m \in Nodes : st[m] # "ghost" => m \in cache \cup A
  BY <1>2 DEF Inv, StatesKept
<1>5. /\ cache \subseteq C /\ s[n] = "uptodate" /\ v[n] = view.val[n] /\ k[n] = Below(view, n)
      /\ \A m \in Nodes \ {n} : s[m] = st[m] /\ v[m] = val[m] /\ k[m] = kids[m]
  BY <1>1, <1>2 DEF TypeOK
<1> HIDE DEF C, s, v, k
<1>6. /\ cache' = C
      /\ \A m \in Nodes : /\ m \in C \cup A => st'[m] = s[m]
                          /\ st'[m] # "ghost" => /\ m \in C \cup A /\ st'[m] = s[m]
                                                 /\ val'[m] = v[m] /\ kids'[m] = k[m]
  BY <1>1 DEF SetObjects
<1>7. /\ UNCHANGED <<added, par, registered, keys, modified, created, phase, failed, before>>
      /\ UNCHANGED <<view, saved, committed, server>>
  BY <1>1 DEF unsent, undo, txn, server
<1>8. \A a \in A : st[par[a]] = "changed" /\ par[a] # n /\ par[a] \in cache \cup A
  BY <1>1, <1>2, <1>4 DEF PlainInv, AddedCoherent, Inv, AddedApart
<1>9. CacheCoherent'
  <2> SUFFICES ASSUME NEW m \in cache', Exists(view, m), st'[m] # "ghost"
               PROVE  /\ m \notin keys => val'[m] = view.val[m]
                      /\ kids'[m] = Below(view, m) \cup {a \in A : par[a] = m}
    BY <1>7 DEF CacheCoherent, Exists, Below
  <2>1. CASE m = n
    BY <2>1, <1>3, <1>5, <1>6, <1>8
  <2>2. CASE m # n
    <3>1. m \in Nodes /\ m \in cache /\ st[m] # "ghost" /\ val'[m] = val[m] /\ kids'[m] = kids[m]
      BY <2>2, <1>3, <1>4, <1>5, <1>6
    <3> QED BY <1>2, <3>1 DEF Coherent, A
  <2> QED BY <2>1, <2>2
<1>10. AddedCoherent'
  <2> SUFFICES ASSUME NEW a \in A
               PROVE  /\ kids'[a] = {b \in A : par[b] = a}
                      /\ st'[par[a]] = "changed" /\ par[a] \in modified
    BY <1>7 DEF AddedCoherent
  <2>1. /\ kids[a] = {b \in A : par[b] = a} /\ par[a] \in modified
        /\ st[a] # "ghost" /\ a # n /\ par[a] \in Nodes
    BY <1>1, <1>2, <1>8 DEF PlainInv, AddedCoherent, CarefulInv, Broken, Inv, AddedApart, EndsSent, A, ToSet
  <2>2. kids'[a] = kids[a]
    BY <2>1, <1>2, <1>5, <1>6
  <2>3. st'[par[a]] = st[par[a]]
    BY <2>1, <1>5, <1>6, <1>8
  <2> QED BY <2>1, <2>2, <2>3, <1>8
<1>11. \A m \in cache' :
         st'[m] # "ghost" =>
           \/ m \in cache /\ st[m] # "ghost" /\ val'[m] = val[m] /\ kids'[m] = kids[m]
           \/ Exists(view, m) /\ val'[m] = view.val[m] /\ kids'[m] = Below(view, m)
           \/ m \in modified' \cup registered'
  BY <1>1, <1>3, <1>4, <1>5, <1>6
<1> QED BY <1>1, <1>7, <1>9, <1>10, <1>11, LocalPlain

LEMMA DeactivatePlain ==
  ASSUME Plain, PlainInv, CarefulInv', NEW n \in Nodes, Deactivate(n)
  PROVE  PlainInv'
<1> DEFINE A == ToSet(added)
           s == [st EXCEPT ![n] = "ghost"]
<1>1. /\ Using /\ n \in cache /\ st[n] = "uptodate"
      /\ SetObjects(cache, A, s, val, kids) /\ UNCHANGED <<unsent, undo, txn, server>>
  BY DEF Deactivate
<1>2. /\ TypeOK /\ Inv /\ failed = "no" /\ A \subseteq Nodes /\ cache \subseteq Nodes
      /\ A \cap cache = {} /\ Coherent(added, par, kids)
  BY <1>1, PlainFacts
<1>3. \A m \in Nodes : /\ st[m] # "ghost" => m \in cache \cup A
                       /\ s[m] = IF m = n THEN "ghost" ELSE st[m]
  BY <1>2 DEF Inv, StatesKept, TypeOK
<1> HIDE DEF s
<1>4. /\ cache' = cache
      /\ \A m \in Nodes : /\ m \in cache \cup A => st'[m] = s[m]
                          /\ st'[m] # "ghost" => /\ m \in cache \cup A /\ st'[m] = s[m]
                                                 /\ val'[m] = val[m] /\ kids'[m] = kids[m]
  BY <1>1 DEF SetObjects
<1>5. /\ UNCHANGED <<added, par, registered, keys, modified, created, phase, failed, before>>
      /\ UNCHANGED <<view, saved, committed, server>>
  BY <1>1 DEF unsent, undo, txn, server
<1>6. \A a \in A : st[par[a]] = "changed" /\ par[a] \in Nodes
  BY <1>2 DEF PlainInv, AddedCoherent, Inv, AddedApart
<1>7. \A m \in cache :
        st'[m] # "ghost" => st[m] # "ghost" /\ val'[m] = val[m] /\ kids'[m] = kids[m]
  BY <1>2, <1>3, <1>4
<1>8. CacheCoherent'
  BY <1>2, <1>4, <1>5, <1>7 DEF Coherent, CacheCoherent, Exists, Below
<1>9. AddedCoherent'
  <2> SUFFICES ASSUME NEW a \in A
               PROVE  /\ kids'[a] = {b \in A : par[b] = a}
                      /\ st'[par[a]] = "changed" /\ par[a] \in modified
    BY <1>5 DEF AddedCoherent
  <2>1. /\ kids[a] = {b \in A : par[b] = a} /\ par[a] \in modified
        /\ st[a] # "ghost" /\ a # n
    BY <1>1, <1>2 DEF PlainInv, AddedCoherent, CarefulInv, Broken, Inv, AddedApart, EndsSent, A, ToSet
  <2>2. kids'[a] = kids[a]
    BY <2>1, <1>2, <1>3, <1>4
  <2>3. st'[par[a]] = st[par[a]]
    BY <1>1, <1>3, <1>4, <1>6
  <2> QED BY <2>1, <2>2, <2>3, <1>6
<1>10. \A m \in cache' :
         st'[m] # "ghost" =>
           \/ m \in cache /\ st[m] # "ghost" /\ val'[m] = val[m] /\ kids'[m] = kids[m]
           \/ Exists(view, m) /\ val'[m] = view.val[m] /\ kids'[m] = Below(view, m)
           \/ m \in modified' \cup registered'
  BY <1>4, <1>7
<1> QED BY <1>1, <1>5, <1>8, <1>9, <1>10, LocalPlain

LEMMA SetPropertyPlain ==
  ASSUME Plain, PlainInv, CarefulInv', NEW n \in Nodes, NEW w \in Vals, SetProperty(n, w)
  PROVE  PlainInv'
<1> DEFINE A == ToSet(added)
<1>1. /\ Using /\ n \in cache \cup A /\ st[n] # "ghost" /\ val' = [val EXCEPT ![n] = w]
      /\ UNCHANGED <<cache, kids, par, added, undo, server, phase, failed, before>>
      /\ registered \subseteq registered' /\ keys \subseteq keys'
      /\ (st' = st /\ n \in A) \/ (st' = [st EXCEPT ![n] = "changed"] /\ n \in keys')
  BY DEF SetProperty, Loaded, Join, txn
<1>2. /\ TypeOK /\ Inv /\ failed = "no" /\ A \subseteq Nodes /\ cache \subseteq Nodes
      /\ A \cap cache = {} /\ Coherent(added, par, kids)
  BY <1>1, PlainFacts
<1>3. UNCHANGED <<modified, created, view, saved, committed>>
  BY <1>1 DEF undo, server
<1>4. /\ \A m \in Nodes \ {n} : val'[m] = val[m]
      /\ \A m \in Nodes : st'[m] # "ghost" => st[m] # "ghost"
      /\ \A m \in Nodes : st[m] = "changed" => st'[m] = "changed"
      /\ n \in cache => n \in keys'
  BY <1>1, <1>2 DEF TypeOK
<1>5. CacheCoherent'
  <2> SUFFICES ASSUME NEW m \in cache, Exists(view, m), st'[m] # "ghost"
               PROVE  /\ m \notin keys' => val'[m] = view.val[m]
                      /\ kids[m] = Below(view, m) \cup {a \in A : par[a] = m}
    BY <1>1, <1>3 DEF CacheCoherent, Exists, Below
  <2>1. st[m] # "ghost" /\ m \in Nodes
    BY <1>2, <1>4
  <2> QED BY <1>1, <1>2, <1>4, <2>1 DEF Coherent
<1>6. AddedCoherent'
  <2>1. \A a \in A : par[a] \in Nodes
    BY <1>2 DEF Inv, AddedApart
  <2> QED BY <1>1, <1>3, <1>4, <2>1 DEF PlainInv, AddedCoherent
<1>7. keys' \subseteq registered'
  BY DEF CarefulInv, Inv, TypeOK
<1>8. \A m \in cache' :
         st'[m] # "ghost" =>
           \/ m \in cache /\ st[m] # "ghost" /\ val'[m] = val[m] /\ kids'[m] = kids[m]
           \/ Exists(view, m) /\ val'[m] = view.val[m] /\ kids'[m] = Below(view, m)
           \/ m \in modified' \cup registered'
  BY <1>1, <1>2, <1>4, <1>7
<1> QED BY <1>1, <1>3, <1>5, <1>6, <1>8, LocalPlain

LEMMA AddPropertyPlain ==
  ASSUME Plain, PlainInv, CarefulInv', NEW p \in Nodes, NEW n \in Nodes, AddProperty(p, n)
  PROVE  PlainInv'
<1> DEFINE A == ToSet(added)
           P == [par EXCEPT ![n] = p]
           k == [kids EXCEPT ![p] = @ \cup {n}]
<1>1. /\ Using /\ Live(p) /\ Loaded(p) /\ Fresh(n)
      /\ added' = Queued(n) /\ par' = P
      /\ st' = [st EXCEPT ![n] = "uptodate", ![p] = "changed"]
      /\ kids' = k
      /\ registered \subseteq registered' /\ modified' = modified \cup {p}
      /\ UNCHANGED <<cache, val, keys, created, server, phase, failed, before>>
  BY DEF AddProperty, Join
<1>2. /\ TypeOK /\ Inv /\ ~Broken /\ failed = "no" /\ A \subseteq Nodes /\ cache \subseteq Nodes
      /\ A \cap cache = {}
  BY <1>1, PlainFacts
<1>3. /\ ToSet(Queued(n)) = A \cup {n} /\ n # p /\ n \notin cache \cup A
  BY <1>1, <1>2, QueuedFacts
<1>4. Coherent(Queued(n), P, k)
  BY <1>1, QueuedCoherent
<1>5. /\ st'[n] = "uptodate" /\ st'[p] = "changed" /\ st[n] = "ghost" /\ st[p] # "ghost"
      /\ P[n] = p /\ \A m \in Nodes \ {n} : P[m] = par[m]
      /\ \A m \in Nodes \ {n, p} : st'[m] = st[m]
      /\ \A m \in Nodes \ {p} : k[m] = kids[m]
  BY <1>1, <1>2, <1>3 DEF TypeOK, Inv, StatesKept, Loaded
<1> HIDE DEF P, k
<1>6. UNCHANGED <<view, saved, committed>>
  BY <1>1 DEF server
<1>7. CacheCoherent'
  <2> SUFFICES ASSUME NEW m \in cache, Exists(view, m), st'[m] # "ghost"
               PROVE  /\ m \notin keys => val[m] = view.val[m]
                      /\ k[m] = Below(view, m) \cup {a \in ToSet(Queued(n)) : P[a] = m}
    BY <1>1, <1>6 DEF CacheCoherent, Exists, Below
  <2>1. st[m] # "ghost"
    BY <1>2, <1>3, <1>5
  <2> QED BY <2>1, <1>4, Zenon DEF Coherent
<1>8. AddedCoherent'
  <2> SUFFICES ASSUME NEW a \in A \cup {n}
               PROVE  /\ k[a] = {b \in ToSet(Queued(n)) : P[b] = a}
                      /\ st'[P[a]] = "changed" /\ P[a] \in modified \cup {p}
    BY <1>1, <1>3 DEF AddedCoherent
  <2>1. k[a] = {b \in ToSet(Queued(n)) : P[b] = a}
    BY <1>3, <1>4 DEF Coherent
  <2>2. CASE a = n
    BY <2>1, <2>2, <1>5
  <2>3. CASE a # n
    <3>1. /\ a \in A /\ par[a] \in Nodes /\ st[par[a]] = "changed" /\ par[a] \in modified
      BY <2>3, <1>2 DEF PlainInv, AddedCoherent, Inv, AddedApart
    <3>2. P[a] = par[a] /\ par[a] # n
      BY <2>3, <3>1, <1>2, <1>5
    <3> QED BY <2>1, <3>1, <3>2, <1>5
  <2> QED BY <2>2, <2>3
<1>9. \A m \in cache' :
         st'[m] # "ghost" =>
           \/ m \in cache /\ st[m] # "ghost" /\ val'[m] = val[m] /\ kids'[m] = kids[m]
           \/ Exists(view, m) /\ val'[m] = view.val[m] /\ kids'[m] = Below(view, m)
           \/ m \in modified' \cup registered'
  BY <1>1, <1>2, <1>3, <1>5
<1> QED BY <1>1, <1>6, <1>7, <1>8, <1>9, LocalPlain

-----------------------------------------------------------------------------
(* The transaction manager.                                                *)

\* What holds of the connection when the manager calls it.
LEMMA ManagedFacts ==
  ASSUME PlainInv
  PROVE  /\ TypeOK /\ EndsSent /\ NothingHalfDone
         /\ view = saved /\ failed = "no" /\ (phase # "voted" => committed = before)
         /\ created \subseteq cache /\ cache \subseteq Nodes /\ committed \in Trees
         /\ CacheCoherent /\ AbortRestores
BY DEF PlainInv, CarefulInv, Inv, Alone, TypeOK

\* Nothing is to be sent and nothing to be undone: the repository has what the
\* session has, and so have the objects.
LEMMA SettledPlain ==
  ASSUME CarefulInv', added' = <<>>, keys' = {}, failed' = "no",
         view' = saved', committed' = view', phase' # "voted" => committed' = before',
         \A n \in cache' : Exists(view', n) /\ st'[n] # "ghost" =>
                             val'[n] = view'.val[n] /\ kids'[n] = Below(view', n)
  PROVE  PlainInv'
<1>1. ToSet(added') = {}
  BY ToSetFacts
<1>2. Alone' /\ AddedCoherent' /\ ChangesRemembered'
  BY <1>1 DEF Alone, AddedCoherent, ChangesRemembered, Exists, Below
<1>3. CacheCoherent' /\ AbortRestores'
  BY <1>1 DEF CacheCoherent, AbortRestores, Exists, Below
<1> QED BY <1>2, <1>3 DEF PlainInv

LEMMA VotePlain == PlainInv /\ CarefulInv' /\ Vote => PlainInv'
<1> SUFFICES ASSUME PlainInv, CarefulInv', Vote PROVE PlainInv'
  OBVIOUS
<1> USE DEF Vote, objects, unsent, undo
<1>1. /\ added = <<>> /\ ToSet(added) = {} /\ keys = {} /\ view = saved /\ failed = "no"
      /\ CacheCoherent
  BY ManagedFacts, ToSetFacts DEF EndsSent, TypeOK
<1>2. Alone' /\ AddedCoherent' /\ CacheCoherent'
  BY <1>1 DEF Alone, AddedCoherent, CacheCoherent, Exists, Below
<1>3. ChangesRemembered'
  BY <1>1 DEF ChangesRemembered, Exists, Below
<1>4. AbortRestores'
  BY <1>1 DEF CacheCoherent, AbortRestores, Exists, Below
<1> QED BY <1>2, <1>3, <1>4 DEF PlainInv

LEMMA FinishPlain == PlainInv /\ CarefulInv' /\ Finish => PlainInv'
<1> SUFFICES ASSUME PlainInv, CarefulInv', Finish PROVE PlainInv'
  OBVIOUS
<1> USE DEF Finish, Cleanup, Sent, objects, server
<1>1. /\ added = <<>> /\ ToSet(added) = {} /\ keys = {} /\ failed = "no"
      /\ view = saved /\ committed = view /\ CacheCoherent
  BY ManagedFacts, ToSetFacts DEF EndsSent, TypeOK
<1>2. \A n \in cache' : Exists(view', n) /\ st'[n] # "ghost" =>
                          val'[n] = view'.val[n] /\ kids'[n] = Below(view', n)
  BY <1>1 DEF CacheCoherent, Exists, Below
<1> QED BY <1>1, <1>2, SettledPlain

LEMMA EndUnjoinedPlain == PlainInv /\ CarefulInv' /\ EndUnjoined => PlainInv'
<1> SUFFICES ASSUME PlainInv, CarefulInv', EndUnjoined PROVE PlainInv'
  OBVIOUS
<1> USE DEF EndUnjoined, objects, unsent, undo, server
<1>1. Alone' /\ AddedCoherent'
  BY DEF PlainInv, Alone, AddedCoherent
<1>2. CacheCoherent'
  <2>1. failed = "no"
    BY DEF PlainInv, Alone
  <2> QED BY <2>1 DEF PlainInv, CacheCoherent, Exists, Below
<1>3. ChangesRemembered'
  BY DEF PlainInv, ChangesRemembered, Exists, Below
<1>4. AbortRestores'
  BY DEF PlainInv, AbortRestores, Exists, Below
<1> QED BY <1>1, <1>2, <1>3, <1>4 DEF PlainInv

\* A session that has saved all it shows goes back to the committed tree.
LEMMA OverlayIsCommitted ==
  ASSUME view = saved, committed \in Trees
  PROVE  Overlay = committed
<1> DEFINE pick(new, old, base) == [n \in Nodes |-> IF new[n] # old[n] THEN new[n] ELSE base[n]]
           t == [par |-> pick(view.par, saved.par, committed.par),
                 val |-> pick(view.val, saved.val, committed.val)]
<1>1. pick(view.par, saved.par, committed.par) = committed.par
  BY DEF Trees
<1>2. pick(view.val, saved.val, committed.val) = committed.val
  BY DEF Trees
<1>3. t = [par |-> committed.par, val |-> committed.val]
  BY <1>1, <1>2
<1>4. committed = [par |-> committed.par, val |-> committed.val]
  BY DEF Trees
<1>5. Overlay = IF IsTree(t) THEN t ELSE committed
  BY DEF Overlay
<1> QED BY <1>3, <1>4, <1>5

LEMMA AbortPlain ==
  ASSUME Plain, PlainInv, CarefulInv', Abort
  PROVE  PlainInv'
<1> DEFINE ghosts == [n \in Nodes |-> IF n \in cache \cap (modified \cup registered)
                                      THEN "ghost" ELSE st[n]]
           orphaned == [n \in Nodes |-> IF n \in ToSet(added) THEN "orphan" ELSE ghosts[n]]
<1>1. /\ view = saved /\ created \subseteq cache /\ cache \subseteq Nodes
      /\ committed \in Trees /\ AbortRestores
  BY ManagedFacts
<1>2. "forget" \notin Scope
  BY DEF Plain
<1>3. /\ view' = Overlay /\ saved' = committed /\ committed' = committed
      /\ failed' = "no" /\ phase' = "active" /\ before' = committed
      /\ \E lost \in {{}} :
           IF created \subseteq cache \ lost
           THEN SetObjects(cache \ (created \cup lost), {}, ghosts, val, kids) /\ Cleanup
           ELSE /\ \E gone \in SUBSET (created \cap cache) :
                     SetObjects(cache \ (gone \cup lost), ToSet(added), orphaned, val, kids)
                /\ UNCHANGED <<unsent, undo, needsToJoin>>
  BY <1>2, Zenon DEF Abort, Aborting, ServerRollback
<1>4. /\ cache \ {} = cache /\ created \cup {} = created
  OBVIOUS
<1>5. SetObjects(cache \ created, {}, ghosts, val, kids) /\ Cleanup
  BY <1>1, <1>3, <1>4
<1>6. view' = committed
  BY <1>1, <1>3, OverlayIsCommitted
<1>7. \A n \in cache' : Exists(view', n) /\ st'[n] # "ghost" =>
                          val'[n] = view'.val[n] /\ kids'[n] = Below(view', n)
  <2> SUFFICES ASSUME NEW n \in cache', Exists(committed, n), st'[n] # "ghost"
               PROVE  val'[n] = committed.val[n] /\ kids'[n] = Below(committed, n)
    BY <1>6
  <2>1. /\ n \in cache \ created /\ ghosts[n] # "ghost"
        /\ val'[n] = val[n] /\ kids'[n] = kids[n]
    BY <1>1, <1>5 DEF SetObjects
  <2>2. n \notin modified \cup registered /\ st[n] # "ghost"
    BY <1>1, <2>1
  <2> QED BY <1>1, <2>1, <2>2 DEF AbortRestores
<1> QED BY <1>3, <1>5, <1>6, <1>7, SettledPlain DEF Cleanup, Sent

-----------------------------------------------------------------------------
(* The theorems.                                                           *)

LEMMA InitPlain == Init => PlainInv
<1> SUFFICES ASSUME Init PROVE PlainInv
  OBVIOUS
<1>1. CarefulInv
  BY InitInv DEF Init, CarefulInv, Broken
<1>2. ToSet(added) = {}
  BY ToSetFacts DEF Init
<1>3. Alone /\ AddedCoherent /\ ChangesRemembered
  BY <1>2 DEF Init, Alone, AddedCoherent, ChangesRemembered
<1>4. CacheCoherent /\ AbortRestores
  BY ScopeAssumption DEF Init, CacheCoherent, AbortRestores
<1> QED BY <1>1, <1>3, <1>4 DEF PlainInv

LEMMA NextPlain == Plain /\ PlainInv /\ [Next]_vars => PlainInv'
<1> SUFFICES ASSUME Plain, PlainInv, [Next]_vars PROVE PlainInv'
  OBVIOUS
<1>1. CarefulInv'
  BY PlainIsCareful, NextCareful DEF PlainInv
<1>2. CASE UNCHANGED vars
  <2> USE <1>2 DEF vars, objects, unsent, undo, txn, server
  <2>1. Alone' /\ AddedCoherent'
    BY DEF PlainInv, Alone, AddedCoherent
  <2>2. CacheCoherent' /\ ChangesRemembered' /\ AbortRestores'
    BY DEF PlainInv, CacheCoherent, ChangesRemembered, AbortRestores, Exists, Below
  <2> QED BY <1>1, <2>1, <2>2 DEF PlainInv
<1>3. Scope \cap {"restore", "copy", "move", "forget", "undo", "refuse", "lost", "veto", "others"} = {}
  BY DEF Plain
<1>4. ASSUME NEW n \in Nodes PROVE ~Collect(n) /\ ~ClearRefused(n)
  <2>1. Using => ~Broken
    BY PlainFacts
  <2> QED BY <1>3, <2>1 DEF Collect, ClearRefused, Clearing
<1>5. ASSUME NEW n \in Nodes, NEW v \in Vals PROVE ~OtherCommit(n, v) /\ ~Restore(n, v)
  <2>1. "others" \notin Scope /\ "restore" \notin Scope
    BY <1>3
  <2> QED BY <2>1, Zenon DEF OtherCommit, Restore
<1>6. ASSUME NEW n \in Nodes, NEW p \in Nodes
      PROVE  ~DeleteAdded(p, n) /\ ~Move(n, p) /\ ~Copy(n, p)
  <2>1. "undo" \notin Scope /\ "move" \notin Scope /\ "copy" \notin Scope
    BY <1>3
  <2> QED BY <2>1, Zenon DEF DeleteAdded, Move, Copy
<1>7. ASSUME NEW n \in Nodes,
             \/ Load(n) \/ Deactivate(n) \/ Clear(n) \/ ReorderChildren(n) \/ RemoveFrozen(n)
      PROVE  PlainInv'
  BY <1>1, <1>7, LoadPlain, DeactivatePlain, ClearPlain, ReorderChildrenPlain, RemoveFrozenPlain
<1>8. ASSUME NEW n \in Nodes, NEW v \in Vals, SetProperty(n, v) \/ Checkpoint(n, v)
      PROVE  PlainInv'
  BY <1>1, <1>8, SetPropertyPlain, CheckpointPlain
<1>9. ASSUME NEW n \in Nodes, NEW p \in Nodes,
             AddProperty(p, n) \/ AddChild(p, n) \/ DeleteNode(p, n)
      PROVE  PlainInv'
  BY <1>1, <1>9, AddPropertyPlain, AddChildPlain, DeleteNodePlain
<1>10. ~AbortRaises
  BY <1>3 DEF AbortRaises
<1>11. CASE Savepoint \/ CommitOk \/ Vote \/ Finish \/ EndUnjoined \/ Abort
  BY <1>1, <1>11, SavepointPlain, VotePlain, FinishPlain, EndUnjoinedPlain, AbortPlain
<1> QED BY <1>2, <1>4, <1>5, <1>6, <1>7, <1>8, <1>9, <1>10, <1>11 DEF Next

\* The invariant that an application of the plain kind keeps: objects, changes
\* not yet sent, session and repository fit together after every operation of
\* the connection (setstate, register, savepoint, commit, abort).
THEOREM PlainInvariance ==
  ASSUME Plain PROVE Spec => []PlainInv
<1>1. Init => PlainInv
  BY InitPlain
<1>2. PlainInv /\ [Next]_vars => PlainInv'
  BY NextPlain
<1> QED BY <1>1, <1>2, PTL DEF Spec

\* What the application reads from an object is what the session has, but for
\* changes that the next savepoint sends (_loadNodeState, _saveCommands).
THEOREM CacheShowsTheSession ==
  ASSUME Plain PROVE Spec => []CacheCoherent
<1>1. PlainInv => CacheCoherent
  BY DEF PlainInv
<1> QED BY <1>1, PlainInvariance, PTL

\* Whenever an abort comes, the objects that it makes ghosts or takes out of the
\* cache are all those that do not show what is committed (abort, _modified,
\* _created).
THEOREM AbortCanRestore ==
  ASSUME Plain PROVE Spec => []AbortRestores
<1>1. PlainInv => AbortRestores
  BY DEF PlainInv
<1> QED BY <1>1, PlainInvariance, PTL

\* tpc_finish leaves nothing of the session uncommitted.
THEOREM CommitLeavesNothing ==
  ASSUME Plain PROVE Spec => CommitTakesAll
<1>1. PlainInv /\ [Next]_vars => [Finish => committed' = view']_vars
  <2>1. ASSUME PlainInv, Finish PROVE committed' = view'
    BY <2>1, ManagedFacts DEF Finish, EndsSent, server
  <2> QED BY <2>1
<1> QED BY <1>1, PlainInvariance, PTL DEF Spec, CommitTakesAll

\* abort leaves the repository as the transaction found it.
THEOREM AbortUndoesAll ==
  ASSUME Plain PROVE Spec => AbortUndoes
<1>1. PlainInv /\ [Next]_vars => [Abort => committed' = before]_vars
  <2>1. ASSUME PlainInv, Abort PROVE committed' = before
    <3>1. "veto" \notin Scope
      BY DEF Plain
    <3>2. phase # "voted" /\ committed' = committed
      BY <2>1, <3>1, Zenon DEF Abort, Aborting
    <3> QED BY <2>1, <3>2, ManagedFacts
  <2> QED BY <2>1
<1> QED BY <1>1, PlainInvariance, PTL DEF Spec, AbortUndoes

=============================================================================
