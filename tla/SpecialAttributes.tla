-------------------------- MODULE SpecialAttributes --------------------------
(***************************************************************************)
(* The local roles and the permissions of a document, which Zope keeps in  *)
(* attributes and the repository in two properties, ecm:localroles and     *)
(* ecm:security (ObjectBase of impl.py).  The text of a property is the    *)
(* set of its entries, kind:who=what or who=what; the connection sets and  *)
(* saves the properties (setProperty of connection.py), and the            *)
(* persistence machinery makes the document a ghost and loads it.          *)
(***************************************************************************)
EXTENDS Naturals

CONSTANTS
  Who,      \* users, groups and permissions
  Odd,      \* those of them with an "=" in their name
  Roles,
  Fields,   \* which of the two properties the document's schema has
  Careful,  \* the application assigns names without "=", of attributes whose
            \* property the schema has, to objects that it has read
  MaxSets   \* bound on what the application sets

VARIABLES
  st,         \* "ghost", "uptodate", "changed"
  attrs,      \* the special attributes in __dict__, as entries of each property
  props,      \* _props, of the two properties: entries, {} if there is none
  saved,      \* what the session has
  committed,  \* what is committed
  modified,   \* the document is in _modified
  wanted,     \* what the attributes are, as the application has set them
  failed,     \* an operation of this transaction raised
  sets        \* how much the application has set

vars == <<st, attrs, props, saved, committed, modified, wanted, failed, sets>>

Properties == {"localroles", "security"}
KindsOf == [localroles |-> {"user", "group"}, security |-> {"list", "tuple"}]
Entry(k, w, rs) == [kind |-> k, who |-> w, what |-> rs]
Nothing == [p \in Properties |-> {}]

Init ==
  /\ st = "ghost" /\ attrs = Nothing /\ props = Nothing
  /\ saved = Nothing /\ committed = Nothing /\ wanted = Nothing
  /\ modified = FALSE /\ failed = FALSE /\ sets = 0

-----------------------------------------------------------------------------
(* Between attributes and text.  The roles of an entry are sorted, so a set. *)

\* Mutant: a map is all there is of the property.
ToPropOne(p, as) == {[e EXCEPT !.what = @ \ {""}] : e \in {f \in as : f.kind # "group"}}

\* _map_localroles_to_prop, _map_security_to_prop
ToProp(p, as) == {[e EXCEPT !.what = @ \ {""}] : e \in as}

\* _map_prop_to_localroles, _map_prop_to_security: "".split(",") has one part.
ToAttrs(p, text) == {[e EXCEPT !.what = IF @ = {} THEN {""} ELSE @] : e \in text}

\* An entry is cut at its "=", of which there has to be one: else ValueError.
Legal(text) == \A e \in text : e.who \notin Odd
AllLegal(texts) == \A p \in Properties : Legal(texts[p])

\* setstate: every special property is mapped to its attributes.
Loaded == [p \in Properties |-> ToAttrs(p, saved[p])]

Using == ~failed
Bounded == sets < MaxSets /\ sets' = sets + 1
Raise == failed' = TRUE

-----------------------------------------------------------------------------
(* Persistence.                                                            *)

\* The application reads an attribute of a ghost.
Load ==
  /\ Using /\ st = "ghost"
  /\ IF AllLegal(saved)
     THEN /\ st' = "uptodate" /\ attrs' = Loaded /\ props' = saved
          /\ UNCHANGED failed
     ELSE Raise /\ UNCHANGED <<st, attrs, props>>
  /\ UNCHANGED <<saved, committed, modified, wanted, sets>>

Deactivate ==
  /\ Using /\ st = "uptodate"
  /\ st' = "ghost" /\ attrs' = Nothing /\ props' = Nothing
  /\ UNCHANGED <<saved, committed, modified, wanted, failed, sets>>

-----------------------------------------------------------------------------
(* The application sets attributes and properties.                         *)

\* Connection.setProperty of a text that may be None: nothing is recorded when
\* the property has it already, and one that is new has to be in the schema.
Set(p, text) ==
  IF text = props[p] THEN UNCHANGED props /\ st' = IF st = "ghost" THEN "uptodate" ELSE st
  ELSE props' = [props EXCEPT ![p] = text] /\ st' = "changed"
HasField(p, text) == text # {} /\ props[p] = {} => p \in Fields

\* What is assigned: a map of users or of groups, which takes the place of all
\* entries of that kind, or a permission; None and del leave none of the old.
Maps(k) == LET entries == {Entry(k, w, rs) : w \in Who, rs \in SUBSET Roles}
           IN {as \in SUBSET entries : \A a, b \in as : a.who = b.who => a = b}
Permission(w) == {{}} \cup {{Entry(k, w, rs)} : k \in {"list", "tuple"}, rs \in SUBSET Roles}
Assignments ==
  [prop : {"localroles"}, old : {{"user"} \X Who}, new : Maps("user")]
    \cup [prop : {"localroles"}, old : {{"group"} \X Who}, new : Maps("group")]
    \cup UNION {[prop : {"security"}, old : {{"list", "tuple"} \X {w}}, new : Permission(w)] : w \in Who}

Assigned(as, a) == {e \in as : <<e.kind, e.who>> \notin a.old} \cup a.new
Allowed(a) == Careful => Legal(a.new) /\ a.prop \in Fields

\* __setattr__ and __delattr__ of an object that is loaded: the attribute first,
\* then the property, which is not read back.
Assign(a) ==
  /\ Using /\ st # "ghost" /\ Bounded /\ Allowed(a)
  /\ attrs' = [attrs EXCEPT ![a.prop] = Assigned(@, a)]
  /\ wanted' = [wanted EXCEPT ![a.prop] = Assigned(@, a)]
  /\ LET text == ToProp(a.prop, attrs'[a.prop])
     IN IF HasField(a.prop, text)
        THEN Set(a.prop, text) /\ UNCHANGED failed
        ELSE Raise /\ UNCHANGED <<st, props>>   \* KeyError
  /\ UNCHANGED <<saved, committed, modified>>

\* __setattr__ of a ghost: reading the other roles, or the old property, loads
\* the document, whose state takes the place of what was assigned.
AssignGhost(a) ==
  /\ ~Careful
  /\ Using /\ st = "ghost" /\ Bounded
  /\ AllLegal(saved) /\ a.prop \in Fields
  /\ attrs' = Loaded
  /\ wanted' = [wanted EXCEPT ![a.prop] = Assigned(@, a)]
  /\ LET text == ToProp(a.prop, IF a.prop = "localroles" THEN Loaded[a.prop] ELSE a.new)
     IN /\ props' = [saved EXCEPT ![a.prop] = text]
        /\ st' = IF text = saved[a.prop] THEN "uptodate" ELSE "changed"
  /\ UNCHANGED <<saved, committed, modified, failed>>

\* Mutant: what the text does not have stays in the attributes.
MappedKept(p, text) == attrs[p] \cup ToAttrs(p, text)

\* The attributes a text is mapped to, in place of the old ones.
Mapped(p, text) == ToAttrs(p, text)

\* ObjectBase.setProperty of one of the two, with a text of the application's:
\* what is not legal raises when the property has it already.
SetProperty(p, text) ==
  /\ Using /\ st # "ghost" /\ Bounded /\ HasField(p, text)
  /\ Set(p, text)
  /\ IF Legal(text)
     THEN /\ attrs' = [attrs EXCEPT ![p] = Mapped(p, text)]
          /\ wanted' = [wanted EXCEPT ![p] = ToAttrs(p, text)]
          /\ UNCHANGED failed
     ELSE Raise /\ UNCHANGED <<attrs, wanted>>
  /\ UNCHANGED <<saved, committed, modified>>

-----------------------------------------------------------------------------
(* The transaction, as CapsuleConnection has it for every object.          *)

Savepoint ==
  /\ Using /\ st = "changed"
  /\ saved' = props /\ st' = "uptodate" /\ modified' = TRUE
  /\ UNCHANGED <<attrs, props, committed, wanted, failed, sets>>

Commit ==
  /\ Using /\ st # "changed"
  /\ committed' = saved /\ modified' = FALSE
  /\ UNCHANGED <<st, attrs, props, saved, wanted, failed, sets>>

\* A document that was not registered is not invalidated.
Abort ==
  /\ saved' = committed /\ modified' = FALSE /\ failed' = FALSE
  /\ wanted' = [p \in Properties |-> ToAttrs(p, committed[p])]
  /\ IF st = "changed" \/ modified
     THEN st' = "ghost" /\ attrs' = Nothing /\ props' = Nothing
     ELSE UNCHANGED <<st, attrs, props>>
  /\ UNCHANGED <<committed, sets>>

Texts(p) == IF p = "localroles" THEN Maps("user") ELSE UNION {Permission(w) : w \in Who}

Next ==
  \/ Load \/ Deactivate
  \/ \E a \in Assignments : Assign(a) \/ AssignGhost(a)
  \/ \E p \in Properties : \E text \in Texts(p) : SetProperty(p, text)
  \/ Savepoint \/ Commit \/ Abort

Spec == Init /\ [][Next]_vars

-----------------------------------------------------------------------------
(* Properties.                                                             *)

Plain(es)  == {[e EXCEPT !.what = @ \ {""}] : e \in es}
Same(x, y) == \A p \in Properties : Plain(x[p]) = Plain(y[p])

\* The attributes of a loaded document and the property it stores them in say the
\* same, whichever of the two was set, and also after an abort (__setattr__,
\* setProperty, the maps of _setattr_special_properties).
AttributesAgree ==
  st # "ghost" /\ ~failed => Same(attrs, props)

\* A loaded document shows what the application has assigned to it, before and
\* after it was saved and read again (__setattr__, _loadNodeState).
AssignedIsKept ==
  st # "ghost" /\ ~failed => Same(attrs, wanted)

-----------------------------------------------------------------------------
(* Why they hold of a careful application: an inductive invariant.         *)

Entries == [kind : UNION {KindsOf[p] : p \in Properties}, who : Who, what : SUBSET (Roles \cup {""})]
Texted  == [Properties -> SUBSET Entries]

TypeOK ==
  /\ st \in {"ghost", "uptodate", "changed"}
  /\ attrs \in Texted /\ props \in Texted /\ wanted \in Texted
  /\ saved \in Texted /\ committed \in Texted
  /\ modified \in BOOLEAN /\ failed \in BOOLEAN /\ sets \in Nat

\* What is saved can be loaded, and what is shown can be saved.
Loadable ==
  /\ AllLegal(saved) /\ AllLegal(committed)
  /\ st # "ghost" /\ ~failed => AllLegal(attrs) /\ AllLegal(props)

\* An operation raises after it has changed the document, which abort undoes.
FailedIsUndone == failed => st = "changed"

\* What is not recorded for savepoint or for abort was not changed.
Untouched ==
  /\ st = "uptodate" => props = saved
  /\ ~modified => saved = committed

\* A ghost will show what was assigned when it is loaded.
GhostKeeps == st = "ghost" => Same(wanted, saved)

IInv ==
  /\ TypeOK
  /\ Loadable /\ FailedIsUndone /\ Untouched /\ GhostKeeps
  /\ AttributesAgree /\ AssignedIsKept
=============================================================================
