-------------------------- MODULE CapsuleConnection --------------------------
(***************************************************************************)
(* One Zope connection (connection.py): the cache of persistent objects,   *)
(* the changes not yet sent, and how a transaction carries them to the JCR *)
(* session that serves the connection.                                     *)
(*                                                                         *)
(* A node and the persistent object that stands for it have the same name. *)
(* A complex property and a child are both a node below its parent, and a  *)
(* node has one simple property.  The session, the persistence machinery   *)
(* and the transaction manager are external.  The application is one       *)
(* thread; it works on nodes that are in the tree, and aborts after an     *)
(* exception, as the Zope publisher does.  The abort may raise as well: the *)
(* manager drops the connection, which does not join another transaction,  *)
(* and the application goes on using it.                                   *)
(***************************************************************************)
EXTENDS Naturals, Sequences, FiniteSets, SequencesExt, Functions

CONSTANTS
  Nodes, Root, NoNode,
  InitNodes,   \* the nodes below Root at the start
  Vals,        \* values of a node's simple property
  Scope        \* which of Scopes this instance explores

Scopes == {"set",      \* the application sets properties
           "reorder",  \* it reorders the children of a node
           "version",  \* it makes versions of nodes and removes them
           "restore",  \* it restores them
           "copy",     \* it copies nodes
           "move",     \* it moves nodes
           "forget",   \* it drops its references to objects it does not use
           "undo",     \* it removes nodes created in the same transaction
           "refuse",   \* the server refuses a batch of commands
           "lost",     \* it does not confirm a rollback
           "veto",     \* another resource manager votes no
           "others"}   \* other sessions commit changes

ASSUME ScopeAssumption == /\ Root \in Nodes /\ NoNode \notin Nodes
                          /\ InitNodes \subseteq Nodes \ {Root} /\ Vals # {}
                          /\ Scope \subseteq Scopes

VARIABLES
  cache,        \* _cache: nodes that have an object with a final oid
  st,           \* _p_changed of each object: None, False, True
  val, kids,    \* the state of an object: its property, the nodes below it
  par,          \* __parent__ of an added object
  added,        \* _added_order: objects with a temporary oid
  registered,   \* domain of _registered
  keys,         \* nodes of _registered whose property is recorded as changed
  commands,     \* nodes to remove that _commands still has
  modified,     \* _modified
  created,      \* _created
  needsToJoin,  \* _needs_to_join
  joined,       \* the transaction manager has this connection as a resource
  phase,        \* of the transaction: "active", "prepared", "voted"
  failed,       \* how an operation of this transaction raised, or "no"
  view,         \* what the session shows: saved, and its unsaved changes
  saved,        \* saved inside the session's transaction
  committed,    \* committed in the repository
  before        \* committed when this transaction began

objects == <<cache, st, val, kids>>
unsent  == <<added, par, registered, keys, commands>>
undo    == <<modified, created>>
txn     == <<needsToJoin, joined, phase, failed, before>>
server  == <<view, saved, committed>>
vars    == <<objects, unsent, undo, txn, server>>

\* An orphan is an added object whose _p_jar and _p_oid an abort has deleted.
States == {"ghost", "uptodate", "changed", "orphan"}
Trees  == [par : [Nodes -> Nodes \cup {NoNode}], val : [Nodes -> Vals]]
Initially == CHOOSE v \in Vals : TRUE

TypeOK ==
  /\ cache \subseteq Nodes
  /\ st \in [Nodes -> States]
  /\ val \in [Nodes -> Vals] /\ kids \in [Nodes -> SUBSET Nodes]
  /\ par \in [Nodes -> Nodes \cup {NoNode}]
  /\ added \in Seq(Nodes) /\ IsInjective(added)
  /\ registered \subseteq Nodes /\ keys \subseteq registered
  /\ commands \subseteq Nodes
  /\ modified \subseteq Nodes /\ created \subseteq Nodes
  /\ needsToJoin \in BOOLEAN /\ joined \in BOOLEAN
  /\ phase \in {"active", "prepared", "voted"}
  /\ failed \in {"no", "refused", "KeyError"}
  /\ view \in Trees /\ saved \in Trees /\ committed \in Trees /\ before \in Trees

-----------------------------------------------------------------------------
(* The tree a JCR session shows.                                           *)

Exists(t, n) == t.par[n] # NoNode
Below(t, n)  == {k \in Nodes \ {Root} : t.par[k] = n}

\* n and what is under it: the least set with n in it and, with a node, all that
\* is below the node.
SubTree(t, n) ==
  {m \in Nodes : \A S \in SUBSET Nodes :
                   n \in S /\ (\A k \in S : Below(t, k) \subseteq S) => m \in S}

IsTree(t) == {n \in Nodes : Exists(t, n)} \subseteq SubTree(t, Root)

Without(t, N) == [t EXCEPT !.par = [n \in Nodes |-> IF n \in N THEN NoNode ELSE @[n]]]

\* After a rollback the session shows the committed tree under the changes it
\* has not saved, or that tree alone if the two do not fit together.
Overlay ==
  LET pick(new, old, base) == [n \in Nodes |-> IF new[n] # old[n] THEN new[n] ELSE base[n]]
      t == [par |-> pick(view.par, saved.par, committed.par),
            val |-> pick(view.val, saved.val, committed.val)]
  IN IF IsTree(t) THEN t ELSE committed

InitTree == [par |-> [n \in Nodes |-> IF n \in InitNodes \cup {Root} THEN Root ELSE NoNode],
             val |-> [n \in Nodes |-> Initially]]

Init ==
  /\ cache = {Root} /\ st = [n \in Nodes |-> "ghost"]
  /\ val = [n \in Nodes |-> Initially] /\ kids = [n \in Nodes |-> {}]
  /\ par = [n \in Nodes |-> NoNode]
  /\ added = <<>> /\ registered = {} /\ keys = {} /\ commands = {}
  /\ modified = {} /\ created = {}
  /\ needsToJoin = TRUE /\ joined = FALSE /\ phase = "active" /\ failed = "no"
  /\ view = InitTree /\ saved = InitTree /\ committed = InitTree /\ before = InitTree

-----------------------------------------------------------------------------
(* The persistence machinery: ghosts, loading, the object cache.           *)

Orphans   == {a \in ToSet(added) : st[a] = "orphan"}
Loaded(n) == n \in cache \cup ToSet(added) /\ st[n] \notin {"ghost", "orphan"}

\* The cache becomes C, with the added objects A next to it; a ghost has no
\* state, and neither has an object that is in neither.
SetObjects(C, A, s, v, k) ==
  LET loaded(n) == n \in C \cup A /\ s[n] # "ghost"
  IN /\ cache' = C
     /\ st' = [n \in Nodes |-> IF loaded(n) THEN s[n] ELSE "ghost"]
     /\ val' = [n \in Nodes |-> IF loaded(n) THEN v[n] ELSE Initially]
     /\ kids' = [n \in Nodes |-> IF loaded(n) THEN k[n] ELSE {}]

\* Objects that a loaded object refers to, as its child or its parent.
Referenced(s) ==
  UNION {kids[p] \cup {view.par[p], par[p]} :
           p \in {q \in cache \cup ToSet(added) : s[q] # "ghost"}}

\* The application uses the connection.
Using  == phase = "active" /\ failed = "no"
Live(n) == /\ n \in (cache \cup ToSet(added)) \ Orphans
           /\ n \in cache => Exists(view, n)

\* An abort has raised: the connection is in no transaction and joins none.
Broken == ~needsToJoin /\ ~joined

\* setstate: _loadNodeState gets the nodes below and the parent into the cache.
Load(n) ==
  /\ Using /\ n \in cache /\ Exists(view, n) /\ st[n] = "ghost"
  /\ SetObjects(cache \cup Below(view, n) \cup {view.par[n]}, ToSet(added),
                [st EXCEPT ![n] = "uptodate"], [val EXCEPT ![n] = view.val[n]],
                [kids EXCEPT ![n] = Below(view, n)])
  /\ UNCHANGED <<unsent, undo, txn, server>>

\* cacheGC: incrgc turns unchanged objects back into ghosts.
Deactivate(n) ==
  /\ Using /\ n \in cache /\ st[n] = "uptodate"
  /\ SetObjects(cache, ToSet(added), [st EXCEPT ![n] = "ghost"], val, kids)
  /\ UNCHANGED <<unsent, undo, txn, server>>

\* A ghost nobody refers to leaves the cache.
Collect(n) ==
  /\ Using /\ "forget" \in Scope
  /\ n \in cache \ {Root} /\ st[n] = "ghost" /\ n \notin Referenced(st)
  /\ cache' = cache \ {n}
  /\ UNCHANGED <<st, val, kids, unsent, undo, txn, server>>

-----------------------------------------------------------------------------
(* Recording changes.                                                      *)

\* _maybeJoin
Join == /\ needsToJoin' = FALSE
        /\ joined' = (joined \/ needsToJoin)
        /\ UNCHANGED <<phase, failed, before>>

\* Mutant: the object's change does not reach register.
RegisteringNothing(n) == {}

\* register: what markChanged(n) adds to _registered when n becomes changed.
Registering(n) == IF n \notin ToSet(added) /\ st[n] = "uptodate" THEN {n} ELSE {}

\* What register asserts.  ChangedIsRegistered says that the assertion does not
\* fail before an abort has raised; the calls where it then fails are left out.
Registrable(n) == st[n] = "uptodate" => n \notin registered

\* setProperty with a simple value, other than the one there is.
SetProperty(n, v) ==
  /\ "set" \in Scope
  /\ Using /\ Live(n) /\ Loaded(n) /\ Registrable(n) /\ v # val[n]
  /\ val' = [val EXCEPT ![n] = v]
  /\ IF n \in ToSet(added)
     THEN UNCHANGED <<st, registered, keys, txn>>
     ELSE /\ st' = [st EXCEPT ![n] = "changed"]
          /\ registered' = registered \cup Registering(n)
          /\ keys' = keys \cup {n}
          /\ IF Registering(n) = {} THEN UNCHANGED txn ELSE Join
  /\ UNCHANGED <<cache, kids, par, added, commands, undo, server>>

\* A name for a new node: used by no tree and no list of the connection.
Fresh(n) ==
  /\ n \notin cache \cup ToSet(added) \cup registered \cup modified \cup created
  /\ \A t \in {view, saved, committed} : ~Exists(t, n)

-----------------------------------------------------------------------------
(* savepoint(): _saveCommands, sendCommands, then the bookkeeping.  The     *)
(* operators take what the calling operation has already changed: the added *)
(* objects A with parents P, the registered R with changed keys K, the     *)
(* states s, and the nodes D that the 'remove' commands name.               *)

\* The session after the commands: adds in order, modifies, then removes.  What a
\* ghost of K shows is loaded from the session.
AfterCommands(A, P, K, D) ==
  LET written == ToSet(A) \cup {k \in K : st[k] # "ghost"}
      sent == [par |-> [n \in Nodes |-> IF n \in ToSet(A) THEN P[n] ELSE view.par[n]],
               val |-> [n \in Nodes |-> IF n \in written THEN val[n] ELSE view.val[n]]]
  IN Without(sent, UNION {SubTree(sent, n) : n \in D})

\* processMultipleCommands finds what the commands name: it has the parents of
\* the new nodes A, no such nodes yet, and the nodes N to modify and to remove.
Accepted(A, P, N) ==
  /\ \A i \in DOMAIN A :
       /\ ~Exists(view, A[i])
       /\ Exists(view, P[A[i]]) \/ P[A[i]] \in {A[j] : j \in 1..(i - 1)}
  /\ \A n \in N : n \in ToSet(A) \/ Exists(view, n)

\* The bookkeeping goes through: the objects of A and R can be put in the cache,
\* which takes none without _p_jar, and found there.
Bookkept(R) == Orphans = {} /\ R \subseteq cache

\* savepoint does not raise.
Passes(A, P, R, D) == Bookkept(R) /\ Accepted(A, P, R \cup D)

\* Mutant: the session saves outside of a transaction.
SendAutocommitting(A, P, R, K, D) ==
  IF A = <<>> /\ R = {} /\ D = {}
  THEN UNCHANGED server
  ELSE /\ view' = AfterCommands(A, P, K, D)
       /\ saved' = view'
       /\ committed' = view'

\* With no command sendCommands sends nothing, and the server saves nothing.
Send(A, P, R, K, D) ==
  IF A = <<>> /\ R = {} /\ D = {}
  THEN UNCHANGED server
  ELSE /\ Passes(A, P, R, D)
       /\ view' = AfterCommands(A, P, K, D)
       /\ saved' = view'
       /\ UNCHANGED committed

\* Mutant: savepoint resets _p_changed of the added objects only.
StAfterAdded(s, A, R) ==
  [n \in Nodes |-> IF n \in ToSet(A) THEN "uptodate" ELSE s[n]]

\* Objects after savepoint: the added and registered ones are up to date, but for
\* the ghosts, which _p_changed = False leaves ghosts.
StAfter(s, A, R) ==
  [n \in Nodes |-> IF n \in ToSet(A) \cup {m \in R : s[m] # "ghost"} THEN "uptodate" ELSE s[n]]

\* _cleanup_savepoint
Sent == /\ added' = <<>> /\ par' = [n \in Nodes |-> NoNode]
        /\ registered' = {} /\ keys' = {} /\ commands' = {}

\* Mutant: savepoint clears _registered without adding it to _modified.
RememberParents(R, M, A) == /\ modified' = modified \cup M
                            /\ created' = created \cup ToSet(A)

\* What an abort will have to undo: the registered R, the parents M, the added A.
Remember(R, M, A) == /\ modified' = modified \cup R \cup M
                     /\ created' = created \cup ToSet(A)

\* savepoint raises, and nothing is cleaned up: the server stops at any of the
\* commands or at the save, or, after an abort that raised, has saved them all
\* when the bookkeeping fails.  (What that has done by then is left out.)
Refused(A, P, R, K, D) ==
  /\ A # <<>> \/ R # {} \/ D # {}
  /\ "refuse" \in Scope \/ Broken
  /\ failed' = "refused"
  /\ needsToJoin' = FALSE /\ joined' = (joined \/ needsToJoin)
  /\ \E i \in 0..Len(A), L \in SUBSET K, N \in SUBSET D :
       /\ i < Len(A) => L = {}
       /\ i < Len(A) \/ L # K => N = {}
       /\ Accepted(SubSeq(A, 1, i), P, L \cup N)
       /\ view' = AfterCommands(SubSeq(A, 1, i), P, L, N)
       /\ \/ saved' = saved
          \/ saved' = view' /\ ~Bookkept(R) /\ i = Len(A) /\ L = K /\ N = D
  /\ commands' = D
  /\ UNCHANGED <<phase, before, committed>>

Savepoint ==
  /\ Using
  /\ \/ /\ Send(added, par, registered, keys, commands)
        /\ SetObjects(cache \cup ToSet(added), {}, StAfter(st, added, registered), val, kids)
        /\ Remember(registered, {}, added)
        /\ Sent /\ Join
     \/ /\ Refused(added, par, registered, keys, commands)
        /\ UNCHANGED <<objects, added, par, registered, keys, undo>>

-----------------------------------------------------------------------------
(* Adding.                                                                 *)

\* Mutant: the latest oid is sent first.
QueuedFirst(n) == <<n>> \o added

\* _addNode: the new oid goes to the end of _added_order.
Queued(n) == Append(added, n)

\* setProperty with a complex value, newValue: _addNode leaves the new object
\* to the next savepoint.
AddProperty(p, n) ==
  /\ Using /\ Live(p) /\ Loaded(p) /\ Registrable(p) /\ Fresh(n)
  /\ added' = Queued(n)
  /\ par' = [par EXCEPT ![n] = p]
  /\ st' = [st EXCEPT ![n] = "uptodate", ![p] = "changed"]
  /\ kids' = [kids EXCEPT ![p] = @ \cup {n}]
  /\ registered' = registered \cup Registering(p)
  /\ modified' = modified \cup {p}
  /\ Join
  /\ UNCHANGED <<cache, val, keys, commands, created, server>>

\* ContainerBase.addChild: createChild, savepoint, and the child is a ghost.
\* When the savepoint raises, the state is that of AddProperty and a Savepoint
\* that raises.
AddChild(p, n) ==
  /\ Using /\ Live(p) /\ Loaded(p) /\ Registrable(p) /\ Fresh(n)
  /\ LET A == Queued(n)
         P == [par EXCEPT ![n] = p]
         R == registered \cup Registering(p)
     IN /\ Send(A, P, R, keys, commands)
        /\ SetObjects(cache \cup ToSet(A), {}, [StAfter(st, A, R) EXCEPT ![n] = "ghost"],
                      val, [kids EXCEPT ![p] = @ \cup {n}])
        /\ Remember(R, {p}, A)
  /\ Sent /\ Join

-----------------------------------------------------------------------------
(* Removing.                                                               *)

\* deleteNode when the savepoint raises: the command stays in _commands.
DeleteRefused(p, n) ==
  /\ Refused(added, par, registered, keys, commands \cup {n})
  /\ modified' = modified \cup {p}
  /\ UNCHANGED <<objects, added, par, registered, keys, created>>

\* removeChild, setProperty(None), a list item removed: deleteNode of an object
\* in the cache.  What was under it stays in the cache.
DeleteNode(p, n) ==
  /\ Using /\ Live(p) /\ Loaded(p) /\ n \in kids[p] \cap cache
  /\ n \in created => "undo" \in Scope
  /\ \/ /\ Send(added, par, registered, keys, commands \cup {n})
        /\ SetObjects((cache \cup ToSet(added)) \ {n}, {}, StAfter(st, added, registered),
                      val, [kids EXCEPT ![p] = @ \ {n}])
        /\ Remember(registered, {p}, added)
        /\ Sent /\ Join
     \/ DeleteRefused(p, n)

\* deleteNode of an added object: its temporary oid, read before the savepoint,
\* is not a key of _cache after it, and 'del' raises KeyError.
DeleteAdded(p, n) ==
  /\ Using /\ Live(p) /\ Loaded(p) /\ n \in kids[p] \cap ToSet(added)
  /\ "undo" \in Scope
  /\ \/ /\ Send(added, par, registered, keys, commands \cup {n})
        /\ SetObjects(cache \cup ToSet(added), {}, StAfter(st, added, registered),
                      val, [kids EXCEPT ![p] = @ \ {n}])
        /\ Remember(registered, {p}, added)
        /\ Sent
        /\ failed' = "KeyError"
        /\ needsToJoin' = FALSE /\ joined' = (joined \/ needsToJoin)
        /\ UNCHANGED <<phase, before>>
     \/ n \notin Orphans /\ DeleteRefused(p, n)

\* ContainerBase.clear: a deleteNode, with its savepoint, for every child; the
\* container forgets its children when all of them are gone.
Clearing(p) ==
  /\ Using /\ Live(p) /\ Loaded(p)
  /\ Cardinality(kids[p]) > 1 /\ kids[p] \subseteq cache
  /\ kids[p] \cap created # {} => "undo" \in Scope

Clear(p) ==
  /\ Clearing(p)
  /\ Send(added, par, registered, keys, commands \cup kids[p])
  /\ SetObjects((cache \cup ToSet(added)) \ kids[p], {}, StAfter(st, added, registered),
                val, [kids EXCEPT ![p] = {}])
  /\ Remember(registered, {p}, added)
  /\ Sent /\ Join

\* The children N are removed, and the command for n is refused.
ClearRefused(p) ==
  /\ Clearing(p)
  /\ "refuse" \in Scope \/ Broken
  /\ \E N \in SUBSET kids[p] \ {{}} : \E n \in kids[p] \ N :
       /\ Passes(added, par, registered, commands \cup N)
       /\ saved' = AfterCommands(added, par, keys, commands \cup N)
       /\ view' \in {saved', AfterCommands(added, par, keys, commands \cup N \cup {n})}
       /\ SetObjects((cache \cup ToSet(added)) \ N, {}, StAfter(st, added, registered), val, kids)
       /\ commands' = {n}
  /\ Remember(registered, {p}, added)
  /\ added' = <<>> /\ par' = [n \in Nodes |-> NoNode] /\ registered' = {} /\ keys' = {}
  /\ failed' = "refused"
  /\ needsToJoin' = FALSE /\ joined' = (joined \/ needsToJoin)
  /\ UNCHANGED <<phase, before, committed>>

-----------------------------------------------------------------------------
(* Commands of their own: a savepoint first, then a call of the controller.  *)

Pending   == added # <<>> \/ registered # {} \/ commands # {}
Flushed   == IF Pending THEN AfterCommands(added, par, keys, commands) ELSE view
Persisted == IF Pending THEN Flushed ELSE saved

\* The savepoint passes, and the server then finds the nodes N.
Flushing(N) == /\ Using
               /\ Pending => Passes(added, par, registered, commands)
               /\ \A n \in N : Live(n) /\ Exists(Flushed, n)

\* Mutant: the objects keep their state.
ChangedInBackendLoaded(n, N) ==
  LET here == cache \cup ToSet(added) \cup {n}
  IN /\ SetObjects(here, {}, StAfter(st, added, registered), val, kids)
     /\ Remember(registered, {n} \cup (N \cap here), added)

\* changedInBackend of n, and of the nodes N as far as they are in the cache:
\* they become ghosts and are remembered for an abort.
ChangedInBackend(n, N) ==
  LET here == cache \cup ToSet(added) \cup {n}
      gone == {n} \cup (N \cap here)
  IN /\ SetObjects(here, {},
                   [m \in Nodes |-> IF m \in gone THEN "ghost"
                                    ELSE StAfter(st, added, registered)[m]],
                   val, kids)
     /\ Remember(registered, gone, added)

\* reorderChildren, to another order, of a node that is not new: the object is
\* registered without a changed property.  The order itself is in Reorder.
ReorderChildren(n) ==
  /\ Using /\ "reorder" \in Scope
  /\ n \in cache /\ Live(n) /\ Loaded(n) /\ Registrable(n) /\ Cardinality(kids[n]) > 1
  /\ LET R == registered \cup Registering(n)
     IN \/ /\ Send(added, par, R, keys, commands)
           /\ SetObjects(cache \cup ToSet(added), {}, StAfter(st, added, R), val, kids)
           /\ Remember(R, {}, added)
           /\ Sent /\ Join
        \/ /\ Refused(added, par, R, keys, commands)
           /\ registered' = R
           /\ st' = [st EXCEPT ![n] = "changed"]
           /\ UNCHANGED <<cache, val, kids, added, par, keys, undo>>

\* move: session.move saves nothing; the object has another parent, and both
\* parents have other children.
Move(n, d) ==
  /\ "move" \in Scope
  /\ n # Root /\ Flushing({n, d})
  /\ d \notin SubTree(Flushed, n) \cup {Flushed.par[n]}
  /\ view' = [Flushed EXCEPT !.par[n] = d]
  /\ saved' = Persisted
  /\ ChangedInBackend(Flushed.par[n], {n, d})
  /\ Sent /\ Join
  /\ UNCHANGED committed

\* What the workspace does to the persisted tree, the session shows as well.
InWorkspace(flushed, persisted) ==
  /\ Flushed.par = Persisted.par   \* a move that is not saved is in the way
  /\ view' = flushed /\ saved' = persisted
  /\ Sent /\ Join
  /\ UNCHANGED committed

\* copy: workspace.copy makes new nodes, which the connection does not know yet.
Copy(n, d) ==
  /\ "copy" \in Scope
  /\ n # Root /\ Flushing({n, d})
  /\ \E f \in [SubTree(Flushed, n) -> {m \in Nodes : Fresh(m)}] :
       /\ IsInjective(f)
       /\ LET Copied(t) ==
                LET from(m) == CHOOSE k \in DOMAIN f : f[k] = m
                    new     == Range(f)
                IN [par |-> [m \in Nodes |-> IF m = f[n] THEN d
                                             ELSE IF m \in new THEN f[t.par[from(m)]]
                                             ELSE t.par[m]],
                    val |-> [m \in Nodes |-> t.val[IF m \in new THEN from(m) ELSE m]]]
          IN InWorkspace(Copied(Flushed), Copied(Persisted))
  /\ ChangedInBackend(d, {})

\* checkpoint: checkin and checkout change properties of the node, here to v; its
\* version history is not among Nodes.
Checkpoint(n, v) ==
  /\ "version" \in Scope
  /\ n # Root /\ Flushing({n})
  /\ InWorkspace([Flushed EXCEPT !.val[n] = v], [Persisted EXCEPT !.val[n] = v])
  /\ ChangedInBackend(n, {})

\* removeFrozen of what a version holds: the server removes the version, of
\* which the history is told; the object of the version is made a ghost.
RemoveFrozen(f) ==
  LET version == view.par[f]  history == view.par[version]
      s == StAfter(st, added, registered)
  IN /\ Using /\ "version" \in Scope
     /\ Live(f) /\ f # Root /\ version # Root
     /\ \A n \in {f, version} : n \in cache \ created /\ Loaded(n)
     /\ \/ /\ Send(added, par, registered, keys, commands \cup {version})
           /\ SetObjects((cache \cup ToSet(added)) \ {f}, {},
                         [s EXCEPT ![version] = "ghost", ![history] = "ghost"], val, kids)
           /\ Remember(registered, {history}, added)
           /\ Sent /\ Join
        \/ /\ Refused(added, par, registered, keys, commands \cup {version})
           /\ UNCHANGED <<objects, added, par, registered, keys, undo>>

\* restore: the node and what is below it get the values of the version, here v,
\* and what the version does not have goes; the server tells what is there.
Restore(n, v) ==
  /\ "restore" \in Scope
  /\ n # Root /\ Flushing({n})
  /\ \E N \in SUBSET Below(Flushed, n) :
       LET gone == UNION {SubTree(Flushed, k) : k \in N}
           Restored(t) == [Without(t, gone) EXCEPT
                             !.val = [m \in Nodes |-> IF m \in SubTree(t, n) \ gone THEN v ELSE @[m]]]
       IN InWorkspace(Restored(Flushed), Restored(Persisted)) /\ ChangedInBackend(n, SubTree(Flushed, n) \ gone)

-----------------------------------------------------------------------------
(* The transaction manager.                                                *)

\* Mutant: the connection does not note that it has left the transaction.
CleanupJoined == /\ modified' = {} /\ created' = {}
                 /\ UNCHANGED needsToJoin
                 /\ Sent

\* _tpc_cleanup
Cleanup == /\ modified' = {} /\ created' = {}
           /\ needsToJoin' = TRUE
           /\ Sent

\* commit: savepoint, then prepare.  When either is refused the manager aborts:
\* a Savepoint that raises, or this step, and Abort.
CommitOk ==
  /\ Using /\ joined
  /\ Send(added, par, registered, keys, commands)
  /\ SetObjects(cache \cup ToSet(added), {}, StAfter(st, added, registered), val, kids)
  /\ Remember(registered, {}, added)
  /\ Sent
  /\ phase' = "prepared"
  /\ UNCHANGED <<needsToJoin, joined, failed, before>>

\* Mutant: tpc_vote leaves the commit to nobody.
VoteOnly ==
  /\ phase = "prepared"
  /\ phase' = "voted"
  /\ UNCHANGED <<objects, unsent, undo, needsToJoin, joined, failed, before, server>>

\* tpc_vote: the server commits.
Vote ==
  /\ phase = "prepared"
  /\ committed' = saved
  /\ phase' = "voted"
  /\ UNCHANGED <<objects, unsent, undo, needsToJoin, joined, failed, before, view, saved>>

\* tpc_finish, and the next transaction begins.
Finish ==
  /\ phase = "voted"
  /\ Cleanup
  /\ joined' = FALSE /\ phase' = "active" /\ before' = committed
  /\ UNCHANGED <<objects, failed, server>>

\* A transaction this connection is not in ends, after an exception or without
\* one; nothing is called.
EndUnjoined ==
  /\ ~joined
  /\ before' = committed /\ failed' = "no"
  /\ UNCHANGED <<objects, unsent, undo, needsToJoin, joined, phase, server>>

\* Mutant: the connection forgets to tell the server.
ServerKeepsGoing == UNCHANGED <<view, saved>>

\* controller.abort
ServerRollback == view' = Overlay /\ saved' = committed

\* The manager has called abort or tpc_abort: the application aborts, an operation
\* raised, prepare or commit was refused (both leave the server rolled back), or
\* another resource manager voted no.  It is done with the connection, even when
\* the call raises.
Aborting ==
  /\ joined
  /\ phase = "voted" => "veto" \in Scope
  /\ joined' = FALSE /\ phase' = "active" /\ failed' = "no" /\ before' = committed
  /\ UNCHANGED committed

Abort ==
  /\ Aborting
  /\ ServerRollback
  /\ LET ghosts == [n \in Nodes |-> IF n \in cache \cap (modified \cup registered)
                                    THEN "ghost" ELSE st[n]]
         unheld == {n \in cache \ {Root} : /\ ghosts[n] = "ghost"
                                           /\ n \notin Referenced(ghosts)}
     IN \E lost \in IF "forget" \in Scope THEN SUBSET unheld ELSE {{}} :
          IF created \subseteq cache \ lost
          THEN /\ SetObjects(cache \ (created \cup lost), {}, ghosts, val, kids)
               /\ Cleanup
          ELSE \* self._cache[oid] raises KeyError
               /\ \E gone \in SUBSET (created \cap cache) :
                    SetObjects(cache \ (gone \cup lost), ToSet(added),
                               [n \in Nodes |-> IF n \in ToSet(added) THEN "orphan" ELSE ghosts[n]],
                               val, kids)
               /\ UNCHANGED <<unsent, undo, needsToJoin>>

\* controller.abort raises ConflictError or IOError: whether or not the server has
\* rolled back, the connection has invalidated and cleaned up nothing.
AbortRaises ==
  /\ "lost" \in Scope
  /\ Aborting
  /\ ServerRollback \/ UNCHANGED <<view, saved>>
  /\ UNCHANGED <<objects, unsent, undo, needsToJoin>>

\* Another session commits a change of a node's property.
OtherCommit(n, v) ==
  /\ "others" \in Scope /\ phase # "prepared"
  /\ Exists(committed, n) /\ v # committed.val[n]
  /\ committed' = [committed EXCEPT !.val[n] = v]
  /\ saved' = IF saved.val[n] = committed.val[n] THEN [saved EXCEPT !.val[n] = v] ELSE saved
  /\ view' = IF view.val[n] = committed.val[n] THEN [view EXCEPT !.val[n] = v] ELSE view
  /\ UNCHANGED <<objects, unsent, undo, txn>>

Next ==
  \/ \E n \in Nodes :
       \/ Load(n) \/ Deactivate(n) \/ Collect(n)
       \/ \E v \in Vals : SetProperty(n, v) \/ OtherCommit(n, v)
       \/ \E p \in Nodes : \/ AddProperty(p, n) \/ AddChild(p, n)
                           \/ DeleteNode(p, n) \/ DeleteAdded(p, n)
                           \/ Move(n, p) \/ Copy(n, p)
       \/ Clear(n) \/ ClearRefused(n) \/ ReorderChildren(n) \/ RemoveFrozen(n)
       \/ \E v \in Vals : Checkpoint(n, v) \/ Restore(n, v)
  \/ Savepoint \/ CommitOk \/ Vote \/ Finish \/ EndUnjoined \/ Abort \/ AbortRaises

Spec == Init /\ [][Next]_vars

-----------------------------------------------------------------------------
(* Properties.                                                             *)

\* Every change not yet sent belongs to a transaction that will call this
\* connection: the manager never ends a transaction and leaves one behind
\* (_maybeJoin, register, _tpc_cleanup).
PendingJoined == registered # {} \/ added # <<>> => joined

\* What an object shows is what the session has, and what is not in the session
\* is recorded to be sent: a changed property in keys, a new node in added.
CacheCoherent ==
  failed # "refused" =>
    \A n \in cache :
      Exists(view, n) /\ st[n] # "ghost" =>
        /\ n \notin keys => val[n] = view.val[n]
        /\ kids[n] = Below(view, n) \cup {a \in ToSet(added) : par[a] = n}

\* An abort can bring the cache back to what is committed: every object of a
\* node that will be there again, or that was made since, and shows something
\* else is among those abort makes ghosts or deletes.
AbortRestores ==
  \A n \in cache :
    /\ Exists(view, n) /\ ~Exists(committed, n) => n \in created
    /\ Exists(committed, n) /\ st[n] # "ghost"
       /\ (val[n] # committed.val[n] \/ kids[n] # Below(committed, n))
         => n \in modified \cup registered \cup created

\* An object is in state changed exactly when its oid is registered: neither the
\* assertion in register nor the lookup in registerPropertyChange can fail.
ChangedIsRegistered ==
  \A n \in cache : st[n] = "changed" <=> n \in registered

\* A batch adds parents before what is below them, so that the server knows the
\* token of every temporary parent (_added_order, processMultipleCommands).
ParentsFirst ==
  joined => \A i \in DOMAIN added :
              par[added[i]] \in cache \cup {added[j] : j \in 1..(i - 1)}

\* A connection that waits for its next transaction has left nothing saved that is
\* not committed.  (One whose abort has raised waits for none: what it sends from
\* then on is saved in no transaction of the manager's.)
NothingHalfDone == needsToJoin => saved = committed

\* A transaction that commits leaves nothing of the session uncommitted
\* (commit, tpc_vote, tpc_finish).
CommitTakesAll == [][Finish => committed' = view']_vars

\* A transaction that aborts changes nothing in the repository.
AbortUndoes == [][Abort => committed' = before]_vars

\* No operation of the application ends in a KeyError of the connection's own.
NoKeyError == failed # "KeyError"

-----------------------------------------------------------------------------
(* Why they hold: inductive invariants.                                    *)

\* A tree has what its nodes are below.
Rooted(t) == /\ t.par[Root] = Root
             /\ \A n \in Nodes : Exists(t, n) => Exists(t, t.par[n])

RootStays ==
  /\ \A t \in {view, saved, committed} : Rooted(t)
  /\ Root \notin ToSet(added) \cup commands
  /\ \A n \in Nodes : Root \notin kids[n]

\* Only the objects of the connection have a state, and only one that has been
\* registered or added can be in state changed.
StatesKept ==
  \A n \in Nodes : /\ st[n] = "ghost" => kids[n] = {}
                   /\ st[n] # "ghost" => n \in cache \cup ToSet(added)
                   /\ st[n] = "changed" => n \in registered \cup ToSet(added)

\* A connection that has still to join has nothing to send, and one whose
\* transaction is about to end has sent all.
EndsSent ==
  /\ needsToJoin => ~joined
  /\ phase # "active" => joined /\ failed = "no"
  /\ needsToJoin \/ phase # "active" => added = <<>> /\ registered = {}
  /\ needsToJoin \/ (joined /\ failed = "no") => commands = {}
  /\ phase = "voted" => saved = committed

\* Every added object has a parent.  As long as no operation has raised, the object
\* is in no tree, and its parent is in one or is added, too.
AddedApart ==
  \A a \in ToSet(added) :
    /\ par[a] \in Nodes
    /\ joined => a \notin cache /\ st[a] \in {"uptodate", "changed"}
    /\ joined /\ failed = "no" => /\ ~Exists(view, a)
                                  /\ par[a] \in ToSet(added) \/ Exists(view, par[a])

\* What holds whatever the application does.
Inv == /\ TypeOK /\ RootStays /\ StatesKept /\ EndsSent /\ AddedApart
       /\ ParentsFirst /\ NothingHalfDone

\* An application that removes no node it has just created, and holds its
\* objects, always finds what it created in the cache: no abort raises.
Careful == Scope \cap {"undo", "forget", "lost"} = {}

CarefulInv ==
  /\ Inv /\ ~Broken
  /\ created \subseteq cache
  /\ registered \subseteq cache /\ \A n \in registered : st[n] = "changed"

\* What an application does that neither moves, copies nor restores nodes, when
\* the server refuses nothing and nobody else commits.
Plain == Scope \subseteq {"set", "reorder", "version"}

\* Outside of a commit the session shows what it has saved, and the repository
\* is as the transaction found it.
Alone == /\ failed = "no" /\ view = saved
         /\ phase # "voted" => committed = before

\* An added object has the added objects below it, and its parent is remembered.
AddedCoherent ==
  \A a \in ToSet(added) : /\ kids[a] = {b \in ToSet(added) : par[b] = a}
                          /\ st[par[a]] = "changed" /\ par[a] \in modified

\* Where the session shows something else than the repository, the node is one
\* that an abort makes a ghost or deletes.
ChangesRemembered ==
  \A n \in Nodes :
    /\ Exists(view, n) /\ ~Exists(committed, n) => n \in created
    /\ Exists(view, n) /\ Exists(committed, n)
       /\ (view.val[n] # committed.val[n] \/ Below(view, n) # Below(committed, n))
         => n \in modified \cup registered \cup created

PlainInv == /\ CarefulInv /\ Alone
            /\ CacheCoherent /\ AddedCoherent
            /\ ChangesRemembered /\ AbortRestores
=============================================================================
