----------------------------- MODULE FakeServer ------------------------------
(***************************************************************************)
(* The server the tests of the package run against (tests/fakeserver.py).  *)
(* A session works on a copy of the store; prepare merges what it changed  *)
(* into the store, three ways, node by node from the root, and the store   *)
(* may be half merged when it finds a conflict.                            *)
(*                                                                         *)
(* A storage is a function from uuids to nodes.  The name of a child is    *)
(* kept with the node only: nothing renames a node.  uuids are numbers.    *)
(***************************************************************************)
EXTENDS Naturals, Sequences, SequencesExt, FiniteSets, Functions

CONSTANTS
  Sessions,    \* the controllers that are logged in
  Names,       \* of children
  Keys, Values,\* of properties
  Store,       \* what earlier transactions have left
  Nobody,      \* not a session
  MaxUUID,     \* bound on the uuids
  MaxCommands, \* bound on the commands of each session
  MaxPrepares  \* bound on the prepares

VARIABLES
  real,     \* real_storage
  initial,  \* initial_storage of each session
  storage,  \* storage of each session
  next,     \* _next_uuid of the real storage
  commands, \* how many commands each session has sent
  outcome,  \* of the last call of each session: "ok", "conflict", "error"
  merging,  \* the session whose prepare is running, or Nobody
  todo,     \* the nodes that _merge has still to visit
  theirs,   \* the store when the prepare that is running began
  prepares  \* how many prepares there were

session == <<initial, storage, commands, outcome>>
merger  == <<merging, todo, theirs, prepares>>
vars    == <<real, next, session, merger>>

Root == 0
\* FakeJCRNode, without its type.
IsNode(n) == n = [name |-> n.name, parent |-> n.parent, children |-> n.children, props |-> n.props]

\* f[k] = v in Python.
With(f, k, v) == [j \in DOMAIN f \cup {k} |-> IF j = k THEN v ELSE f[j]]
NameOf(s, l)  == [i \in DOMAIN l |-> s[l[i]].name]
Children(s, u) == s[u].children

Init ==
  /\ real = Store /\ next = Cardinality(DOMAIN Store)
  /\ initial = [c \in Sessions |-> Store] /\ storage = [c \in Sessions |-> Store]
  /\ commands = [c \in Sessions |-> 0] /\ outcome = [c \in Sessions |-> "ok"]
  /\ merging = Nobody /\ todo = <<>> /\ theirs = <<>> /\ prepares = 0

-----------------------------------------------------------------------------
(* sendCommands, a command at a time, on the session's own copy.  What the  *)
(* connection sends fits what it has read of that copy.                    *)

MayCommand(c) ==
  /\ merging = Nobody
  /\ outcome[c] = "ok" /\ commands[c] < MaxCommands[c]

Command(c, s) ==
  /\ storage' = [storage EXCEPT ![c] = s]
  /\ commands' = [commands EXCEPT ![c] = @ + 1]
  /\ UNCHANGED <<real, initial, outcome, merger>>

\* addChild: the parent may be below a node that was removed, it is still there.
AddChild(c, p, name) ==
  /\ MayCommand(c) /\ next < MaxUUID
  /\ p \in DOMAIN storage[c]
  /\ name \notin ToSet(NameOf(storage[c], Children(storage[c], p)))
  /\ next' = next + 1
  /\ LET node == [name |-> name, parent |-> p, children |-> <<>>, props |-> <<>>]
     IN Command(c, With([storage[c] EXCEPT ![p].children = Append(@, next)], next, node))

\* modifyProperties: to a value, or to None, which deletes.
ModifyProperties(c, u, k, v) ==
  /\ MayCommand(c) /\ u \in DOMAIN storage[c]
  /\ Command(c, [storage[c] EXCEPT ![u].props = With(@, k, v)])
  /\ UNCHANGED next

DeleteProperty(c, u, k) ==
  /\ MayCommand(c) /\ u \in DOMAIN storage[c]
  /\ k \in DOMAIN storage[c][u].props
  /\ Command(c, [storage[c] EXCEPT ![u].props = Restrict(@, DOMAIN @ \ {k})])
  /\ UNCHANGED next

\* The list l without u, which is in it once at most.
Without(l, u) == IF u \in ToSet(l) THEN RemoveAt(l, CHOOSE i \in DOMAIN l : l[i] = u) ELSE l

\* removeNode: what is below the node stays in the data.
RemoveNode(c, u) ==
  /\ MayCommand(c) /\ u \in DOMAIN storage[c] \ {Root}
  /\ LET p == storage[c][u].parent
         s == Restrict(storage[c], DOMAIN storage[c] \ {u})
     IN IF p \in DOMAIN s
        THEN Command(c, [s EXCEPT ![p].children = Without(@, u)])
        ELSE \* KeyError, after the node is gone
             /\ storage' = [storage EXCEPT ![c] = s]
             /\ outcome' = [outcome EXCEPT ![c] = "error"]
             /\ UNCHANGED <<real, initial, commands, merger>>
  /\ UNCHANGED next

\* reorderChildren, of one move: that it is forward is asserted.
ReorderChildren(c, u, i, j) ==
  /\ MayCommand(c) /\ u \in DOMAIN storage[c]
  /\ i \in DOMAIN Children(storage[c], u) /\ j < i
  /\ LET l == Children(storage[c], u)
     IN Command(c, [storage[c] EXCEPT ![u].children = InsertAt(RemoveAt(l, i), j, l[i])])
  /\ UNCHANGED next

-----------------------------------------------------------------------------
(* prepare.                                                                *)

\* _begin: fresh copies, also at an abort.
Begin(c) ==
  /\ initial' = [initial EXCEPT ![c] = real] /\ storage' = [storage EXCEPT ![c] = real]
  /\ UNCHANGED commands

Abort(c) ==
  /\ merging = Nobody
  /\ Begin(c) /\ outcome' = [outcome EXCEPT ![c] = "ok"]
  /\ UNCHANGED <<real, next, merger>>

Prepare(c) ==
  /\ merging = Nobody /\ outcome[c] = "ok" /\ prepares < MaxPrepares
  /\ merging' = c /\ todo' = <<Root>> /\ theirs' = real /\ prepares' = prepares + 1
  /\ UNCHANGED <<real, next, session>>

\* The keys whose changes in cur _mergeProperties takes, in three stages, and
\* those it refuses: an add where there is one, a removal of what was changed, a
\* change of what was changed or removed.
Added(ini, cur)   == DOMAIN cur \ DOMAIN ini
Removed(ini, cur) == DOMAIN ini \ DOMAIN cur
Changed(ini, cur) == {k \in DOMAIN ini \cap DOMAIN cur : ini[k] # cur[k]}
Differs(new, ini, k) == k \notin DOMAIN new \/ new[k] # ini[k]

Stages(ini, cur) == <<Added(ini, cur), Removed(ini, cur), Changed(ini, cur)>>

\* Mutant: a change wins over the change of another.
ConflictsChangeWins(ini, cur, new) ==
  <<Added(ini, cur) \cap DOMAIN new,
    {k \in Removed(ini, cur) \cap DOMAIN new : Differs(new, ini, k)},
    Changed(ini, cur) \ DOMAIN new>>

Conflicts(ini, cur, new) ==
  <<Added(ini, cur) \cap DOMAIN new,
    {k \in Removed(ini, cur) \cap DOMAIN new : Differs(new, ini, k)},
    {k \in Changed(ini, cur) : Differs(new, ini, k)}>>

\* new with the changes that cur makes to the keys ks.
TakeKeys(new, cur, ks) ==
  [k \in (DOMAIN new \ ks) \cup (ks \cap DOMAIN cur) |-> IF k \in ks THEN cur[k] ELSE new[k]]

\* The keys that can have been taken when the merge stops: the stages before the
\* first one with a conflict, and some of that one, in whatever order.
Takeable(ini, cur, new) ==
  LET before(i) == UNION {Stages(ini, cur)[j] : j \in 1..(i - 1)}
      bad(i)    == Conflicts(ini, cur, new)[i]
      first     == {i \in 1..3 : bad(i) # {} /\ \A j \in 1..(i - 1) : bad(j) = {}}
  IN IF first = {} THEN {before(4)}
     ELSE {before(i) \cup ks : i \in first, ks \in SUBSET UNION {Stages(ini, cur)[j] \ bad(j) : j \in first}}

\* The nodes us and what is below them: the least set with us in it and, with a
\* node, its children.
Below(s, us) ==
  LET closed == {S \in SUBSET (us \cup DOMAIN s) :
                   us \subseteq S /\ \A u \in S \cap DOMAIN s : ToSet(Children(s, u)) \subseteq S}
  IN {u \in us \cup DOMAIN s : \A S \in closed : u \in S}

\* _moveUUID: the nodes us and what is below them, the store keeping its own.
MoveUUIDs(src, us, dst) ==
  [u \in DOMAIN dst \cup Below(src, us) |-> IF u \in DOMAIN dst THEN dst[u] ELSE src[u]]

\* Mutant: two added children may have the same name.
DisjointAny(cur, added, new, others) == TRUE

Disjoint(cur, added, new, others) ==
  ToSet(NameOf(cur, added)) \cap ToSet(NameOf(new, others)) = {}

\* _mergeChildren, as the list the node gets; the others are refused.
Appends(ini, l) == IsPrefix(ini, l)
Rest(ini, l)    == SubSeq(l, Len(ini) + 1, Len(l))
BothAppend(cur, new, ini, lcur, lnew) ==
  /\ Appends(ini, lcur) /\ Appends(ini, lnew)
  /\ Disjoint(cur, Rest(ini, lcur), new, Rest(ini, lnew))
Mergeable(cur, new, ini, lcur, lnew) ==
  ini \in {lcur, lnew} \/ BothAppend(cur, new, ini, lcur, lnew)
MergeChildren(ini, lcur, lnew) ==
  CASE ini = lcur -> lnew
    [] ini = lnew -> lcur
    [] OTHER      -> lnew \o Rest(ini, lcur)

\* Mutant: the merge goes on with the children the node had.
ToVisitInitial(s, c, ini) == SelectSeq(ini, LAMBDA x : x \in DOMAIN initial[c])

\* The children to go on with: those that existed before.
ToVisit(s, c, ini) == SelectSeq(s, LAMBDA x : x \in DOMAIN initial[c])

\* The end of a prepare that raises: the transaction will be aborted.
Raise(error) ==
  /\ outcome' = [outcome EXCEPT ![merging] = error]
  /\ merging' = Nobody /\ todo' = <<>> /\ theirs' = <<>>
  /\ UNCHANGED <<next, initial, storage, commands, prepares>>

\* _merge of a node.
MergeNode ==
  /\ merging # Nobody /\ todo # <<>>
  /\ LET c   == merging
         u   == Head(todo)
         ini == initial[c]
         cur == storage[c]
     IN IF \E s \in {ini, cur, real} : u \notin DOMAIN s
        THEN Raise("error") /\ UNCHANGED real       \* KeyError
        ELSE
        \E ks \in Takeable(ini[u].props, cur[u].props, real[u].props) :
          LET props == TakeKeys(real[u].props, cur[u].props, ks)
              new   == [real EXCEPT ![u].props = props]
              l     == MergeChildren(Children(ini, u), Children(cur, u), Children(real, u))
              moved == ToSet(l) \ ToSet(Children(real, u))
          IN IF \/ \E i \in 1..3 : Conflicts(ini[u].props, cur[u].props, real[u].props)[i] # {}
                \/ ~Mergeable(cur, real, Children(ini, u), Children(cur, u), Children(real, u))
             THEN Raise("conflict") /\ real' = new
             ELSE IF Below(cur, moved) \cap DOMAIN real # {}
             THEN Raise("error") /\ real' = new     \* ValueError
             ELSE /\ real' = MoveUUIDs(cur, moved, [new EXCEPT ![u].children = l])
                  /\ todo' = ToVisit(l, c, Children(ini, u)) \o Tail(todo)
                  /\ UNCHANGED <<next, session, merging, theirs, prepares>>

\* The merge is done: prepare ends with a _begin, and commit has nothing to do.
Merged ==
  /\ merging # Nobody /\ todo = <<>>
  /\ Begin(merging) /\ merging' = Nobody /\ theirs' = <<>>
  /\ UNCHANGED <<real, next, outcome, todo, prepares>>

SendCommands(c) ==
  \/ \E p \in 0..MaxUUID, name \in Names : AddChild(c, p, name)
  \/ \E u \in 0..MaxUUID, k \in Keys : (\E v \in Values : ModifyProperties(c, u, k, v)) \/ DeleteProperty(c, u, k)
  \/ \E u \in 0..MaxUUID : RemoveNode(c, u)
  \/ \E u \in 0..MaxUUID, i, j \in 1..MaxUUID : ReorderChildren(c, u, i, j)

Next ==
  \/ \E c \in Sessions : SendCommands(c) \/ Prepare(c) \/ Abort(c)
  \/ MergeNode \/ Merged

Spec == Init /\ [][Next]_vars

-----------------------------------------------------------------------------
(* Properties.                                                             *)

Tree(s) == Below(s, {Root})
Among(l, us) == SelectSeq(l, LAMBDA x : x \in us)

\* A merge that ends well is a three-way merge of every node that was there
\* before: a property has the value the session gave it if it changed it, and then
\* nobody else gave it another, and the store's otherwise; the children are the
\* store's without those the session removed and with those it added, in the
\* order of whoever changed it (Merger).
MergeIsThreeWay ==
  merging # Nobody /\ todo = <<>> =>
    LET ini == initial[merging]
        cur == storage[merging]
        kept(a, b, k) == /\ k \in DOMAIN a <=> k \in DOMAIN b
                         /\ k \in DOMAIN a => a[k] = b[k]
    IN \A u \in Tree(real) \cap DOMAIN ini :
         /\ \A k \in Keys :
              IF kept(ini[u].props, cur[u].props, k)
              THEN kept(real[u].props, theirs[u].props, k)
              ELSE /\ kept(real[u].props, cur[u].props, k)
                   /\ \/ kept(theirs[u].props, ini[u].props, k)
                      \/ k \notin DOMAIN cur[u].props \cup DOMAIN theirs[u].props
         /\ ToSet(Children(real, u)) =
              (ToSet(Children(theirs, u)) \ (ToSet(Children(ini, u)) \ ToSet(Children(cur, u))))
                \cup (ToSet(Children(cur, u)) \ ToSet(Children(ini, u)))
         /\ \A s \in {cur, theirs} :
              \/ Children(s, u) = Children(ini, u)
              \/ Among(Children(real, u), ToSet(Children(s, u))) = Children(s, u)

\* The children of a node exist, know their parent and have different names, and
\* the root is the child of none: what is below the root is a tree.
IsTree(s) ==
  /\ Root \in DOMAIN s
  /\ \A u \in DOMAIN s :
       /\ Children(s, u) \in Seq(DOMAIN s \ {Root})
       /\ \A i \in DOMAIN Children(s, u) : s[Children(s, u)[i]].parent = u
       /\ IsInjective(NameOf(s, Children(s, u)))

\* The store, and every session's copy of it, is a tree, even after a merge that
\* stopped half-way, and so is what stays in the data when a node is removed.
StoreIsATree == \A s \in {real} \cup Range(storage) : IsTree(s)

\* A prepare fails with a ConflictError only: it never meets a node that one of
\* the three storages lacks, or moves a node to where it is already
\* (_merge, _moveUUID).
OnlyConflicts == [][merging # Nobody => outcome'[merging] # "error"]_vars
=============================================================================
