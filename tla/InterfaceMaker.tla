---------------------------- MODULE InterfaceMaker ----------------------------
(***************************************************************************)
(* InterfaceMaker of cnd.py: addData parses a text (CNDParser), takes the  *)
(* definitions in, sorts all the types there are (TopologicalSort), makes  *)
(* an interface for every new one, and fills the interfaces in two passes  *)
(* in the order of a dictionary.  A load that fails on the way stops where *)
(* it is.  Later loads build on earlier ones, failed ones included.        *)
(***************************************************************************)
EXTENDS CNDParser, FiniteSets, Functions

CONSTANTS
  Loads,       \* sequences of texts that are loaded, and of RENEW
  Types,       \* the names of node types in them
  Mixins,      \* the names that begin with 'mix:'
  Tops,        \* types that have no definition (_tops)
  Excluded,    \* types whose fields are not made (_excluded_type_names)
  Predefined,  \* type name -> predefined interface
  PredefinedInterfaces  \* the predefined interfaces

VARIABLES
  queue, given,      \* the texts to come, the one that is loaded
  knownNamespaces,   \* _namespaces
  infos,             \* _infos
  interfaces,        \* _interfaces: name -> interface
  ifaces,            \* the interfaces themselves, those of earlier makers too
  typeNames,         \* the new types, in the order of the dictionary
  work,              \* what is left of the loop that runs
  phase, error,      \* where addData is, and why it raised
  loaded, renewed,   \* history: types of the loads that succeeded; another maker
  graph, todo, stack, ancestors, traversed, outcome   \* topologicalSort

sortVars == <<graph, todo, stack, ancestors, traversed, outcome>>
known    == <<knownNamespaces, infos, interfaces, ifaces>>
history  == <<loaded, renewed>>
vars     == <<parserVars, sortVars, known, history, queue, given, typeNames, work, phase, error>>

Sorter == INSTANCE TopologicalSort

RENEW == [tokens |-> <<>>]
Nothing == [x \in {} |-> ""]

\* The lexer yields tokens, and EOF when the text is at its end (lexerGen).
Tokens == {EOF} \cup [kind : {"char", "name", "string"}, value : STRING]
ASSUME LoadsAssumption ==
  \A q \in Loads :
    /\ q \in Seq(ToSet(q))
    /\ \A t \in ToSet(q) : \/ t = RENEW
                           \/ /\ t.tokens \in Seq(Tokens) /\ t.tokens # <<>>
                              /\ Last(t.tokens) = EOF
Builtin == [Interface  |-> [bases |-> <<>>, setitem |-> FALSE, types |-> <<>>, attrs |-> Nothing],
            IContainer |-> [bases |-> <<"Interface">>, setitem |-> TRUE, types |-> <<>>, attrs |-> Nothing]]

\* __init__
Init ==
  /\ queue \in Loads /\ given = Nothing
  /\ text = <<EOF>> /\ read = 0 /\ unread = <<>> /\ at = "parsed"
  /\ type = NoItem /\ item = NoItem /\ list = NoList /\ namespaces = Nothing /\ schemas = Nothing
  /\ graph = Nothing /\ todo = {} /\ stack = <<>> /\ ancestors = {}
  /\ traversed = <<>> /\ outcome = "sorted"
  /\ knownNamespaces = Nothing /\ infos = Nothing
  /\ interfaces = [t \in DOMAIN Predefined |-> Predefined[t]]
  /\ ifaces = Builtin @@ PredefinedInterfaces
  /\ typeNames = <<>> /\ work = <<>> /\ phase = "done" /\ error = ""
  /\ loaded = {} /\ renewed = FALSE

-----------------------------------------------------------------------------
(* zope.interface                                                          *)

\* An interface and those it inherits from, in the order of a depth-first walk.
Flat(i) ==
  LET flat[j \in DOMAIN ifaces] ==
        <<j>> \o FlattenSeq([k \in DOMAIN ifaces[j].bases |-> flat[ifaces[j].bases[k]]])
  IN flat[i]

Extends(i, j) == i # j /\ j \in ToSet(Flat(i))
AllNames(i)   == UNION {DOMAIN ifaces[j].attrs : j \in ToSet(Flat(i))}

\* The interface whose __setitem__ i has: the first of its resolution order,
\* in which an interface stands where the walk comes to it last.
Owners(i) == {j \in ToSet(Flat(i)) : ifaces[j].setitem}
SetItem(i) ==
  LET last(j) == SelectLastInSeq(Flat(i), LAMBDA x : x = j)
  IN CHOOSE j \in Owners(i) : \A k \in Owners(i) : last(j) <= last(k)

-----------------------------------------------------------------------------
(* addData                                                                 *)

Load ==
  /\ phase = "done" /\ queue # <<>> /\ Head(queue) # RENEW
  /\ queue' = Tail(queue) /\ given' = Head(queue)
  /\ Parse(Head(queue).tokens)
  /\ phase' = "parse" /\ error' = ""
  /\ UNCHANGED <<sortVars, known, history, typeNames, work>>

\* The schema manager is dropped and another one made: what it put into the
\* predefined interfaces stays there.
Renew ==
  /\ phase = "done" /\ queue # <<>> /\ Head(queue) = RENEW
  /\ queue' = Tail(queue) /\ renewed' = TRUE /\ loaded' = {}
  /\ knownNamespaces' = Nothing /\ infos' = Nothing
  /\ interfaces' = [t \in DOMAIN Predefined |-> Predefined[t]]
  /\ ifaces' = Restrict(ifaces, DOMAIN Builtin \cup DOMAIN PredefinedInterfaces)
  /\ UNCHANGED <<parserVars, sortVars, given, typeNames, work, phase, error>>

Parsing ==
  /\ phase = "parse" /\ ParserStep
  /\ UNCHANGED <<sortVars, known, history, queue, given, typeNames, work, phase, error>>

\* An exception leaves everything as it is.
Raise(why) ==
  /\ phase' = "done" /\ error' = why /\ work' = <<>>
  /\ UNCHANGED <<parserVars, sortVars, known, history, queue, given, typeNames>>

Refused == CASE at = "error" -> "syntax"
             [] \E ns \in DOMAIN namespaces \cap DOMAIN knownNamespaces :
                  namespaces[ns] # knownNamespaces[ns] -> "namespace"
             [] DOMAIN schemas \cap DOMAIN infos # {} -> "redefined"
             [] OTHER -> ""

Refuse == phase = "parse" /\ at \in {"parsed", "error"} /\ Refused # "" /\ Raise(Refused)

\* The definitions are taken in; _makeInterfaces has the types sorted.
TakeIn ==
  LET all == schemas @@ infos
  IN /\ phase = "parse" /\ at \in {"parsed", "error"} /\ Refused = ""
     /\ knownNamespaces' = namespaces @@ knownNamespaces
     /\ infos' = all
     /\ graph' = [t \in Tops \cup DOMAIN all |->
                    IF t \in Tops THEN {} ELSE ToSet(all[t].supertypes)]
     /\ todo' = Tops \cup DOMAIN all
     /\ stack' = <<>> /\ ancestors' = {} /\ traversed' = <<>> /\ outcome' = "running"
     /\ phase' = "sort" /\ typeNames' = <<>>
     /\ UNCHANGED <<parserVars, history, interfaces, ifaces, queue, given, work, error>>

Sorting ==
  /\ phase = "sort" /\ Sorter!Next
  /\ UNCHANGED <<parserVars, known, history, queue, given, typeNames, work, phase, error>>

SortRaises == phase = "sort" /\ outcome \in {"missing", "loop"} /\ Raise(outcome)

Sorted ==
  /\ phase = "sort" /\ outcome = "sorted"
  /\ phase' = "make"
  /\ LET new == SelectSeq(traversed, LAMBDA t : t \in DOMAIN schemas)
     IN work' = [k \in DOMAIN new |-> [type |-> new[k], item |-> NoItem]]
  /\ traversed' = <<>>
  /\ UNCHANGED <<parserVars, graph, todo, stack, ancestors, outcome, known, history,
                 queue, given, typeNames, error>>

-----------------------------------------------------------------------------
(* _makeInterfaces                                                         *)

Star(t) == \E n \in ToSet(infos[t].nodes) : n.name = "*"

\* nt:base and the mixins are no bases of an interface.
Real(t) == t # "nt:base" /\ t \notin Mixins
Bases(t) == SelectSeq(infos[t].supertypes, Real)

Working(here) ==
  /\ phase = here /\ work # <<>> /\ work' = Tail(work)
  /\ UNCHANGED <<parserVars, sortVars, history, queue, given, typeNames, phase, error,
                 knownNamespaces, infos>>

UsePredefined ==
  LET t == Head(work).type
  IN /\ Working("make") /\ t \in DOMAIN Predefined
     /\ interfaces' = t :> Predefined[t] @@ Predefined[t] :> Predefined[t] @@ interfaces
     /\ UNCHANGED ifaces

\* Mutant: a container gets no other bases.
MadeBaseless(t, bases) ==
  [bases |-> IF Star(t) THEN <<"IContainer">> ELSE IF bases = <<>> THEN <<"Interface">> ELSE bases,
   setitem |-> Star(t), types |-> <<>>, attrs |-> Nothing]

\* An interface without fields; that of a container has a __setitem__.
Made(t, bases) ==
  [bases |-> IF Star(t) THEN Append(bases, "IContainer") ELSE IF bases = <<>> THEN <<"Interface">> ELSE bases,
   setitem |-> Star(t), types |-> <<>>, attrs |-> Nothing]

MakeInterface ==
  LET t == Head(work).type
  IN /\ Working("make") /\ t \notin DOMAIN Predefined
     /\ ToSet(Bases(t)) \subseteq DOMAIN interfaces
     /\ ifaces' = t :> Made(t, [k \in DOMAIN Bases(t) |-> interfaces[Bases(t)[k]]]) @@ ifaces
     /\ interfaces' = t :> t @@ interfaces

\* A supertype that an earlier, failed load left without an interface.
MakeRaises ==
  /\ phase = "make" /\ work # <<>> /\ Head(work).type \notin DOMAIN Predefined
  /\ ~(ToSet(Bases(Head(work).type)) \subseteq DOMAIN interfaces)
  /\ Raise("no interface")

-----------------------------------------------------------------------------
(* _buildSchemas                                                           *)

\* What a loop over the types and, for each, over some of its items does.
Items(names, of) ==
  FlattenSeq([k \in DOMAIN names |->
                IF names[k] \in Excluded THEN <<>>
                ELSE [j \in DOMAIN of[names[k]] |-> [type |-> names[k], item |-> of[names[k]][j]]]])

\* The types of the load.
New == DOMAIN schemas

IsStar(n)      == n.name = "*"
IsSingle(n)    == n.name # "*"
Containees(t)  == SelectSeq(infos[t].nodes, IsStar)
Fields(t)      == infos[t].properties \o SelectSeq(infos[t].nodes, IsSingle)

EnterPass(before, pass) ==
  /\ phase = before /\ work = <<>> /\ phase' = pass
  /\ UNCHANGED <<parserVars, sortVars, known, history, queue, given, error>>

FirstPass ==
  /\ EnterPass("make", "contain")
  /\ \E names \in SetToSeqs(DOMAIN schemas) :
       typeNames' = names /\ work' = Items(names, [t \in New |-> Containees(t)])

SecondPass ==
  /\ EnterPass("contain", "fill")
  /\ work' = Items(typeNames, [t \in New |-> Fields(t)]) /\ UNCHANGED typeNames

IsMultiple(x) == "multiple" \in x.options.flags
Required(n)   == IF n.required_types = <<>> THEN "Interface" ELSE interfaces[n.required_types[1]]

\* The checks that both passes make of a node's required types.
RequiredFault(n) == CASE Len(n.required_types) > 1 -> "many required types"
                      [] Len(n.required_types) = 1 /\ n.required_types[1] \notin DOMAIN interfaces -> "unknown type"
                      [] OTHER -> ""

ContainFault(t, n) == CASE IsMultiple(n) -> "multiple *"
                        [] RequiredFault(n) # "" -> RequiredFault(n)
                        [] Owners(interfaces[t]) = {} -> "no container"
                        [] OTHER -> ""

\* Mutant: every '+ *' makes a precondition of its own.
AcceptedLast(types, n) == <<Required(n)>>

\* What a precondition accepts after another '+ * (T)'.
Accepted(types, n) == Append(types, Required(n))

Contain ==
  LET t == Head(work).type  n == Head(work).item
  IN /\ Working("contain") /\ ContainFault(t, n) = ""
     /\ ifaces' = [ifaces EXCEPT ![SetItem(interfaces[t])].types = Accepted(@, n)]
     /\ UNCHANGED interfaces

ContainRaises ==
  /\ phase = "contain" /\ work # <<>>
  /\ LET fault == ContainFault(Head(work).type, Head(work).item)
     IN fault # "" /\ Raise(fault)

IsProperty(x) == "type_name" \in DOMAIN x
IsList(i)     == Extends(i, "IContainer")

\* Mutant: two types of a list are none too many.
ListFaultNone(i) == CASE AllNames(i) # {} -> "container with properties"
                      [] ifaces[SetItem(i)].types = <<>> -> "no precondition"
                      [] OTHER -> ""

\* A single node that is a container is a list, which has no properties and
\* holds objects of one type.
ListFault(i) == CASE AllNames(i) # {} -> "container with properties"
                  [] ifaces[SetItem(i)].types = <<>> -> "no precondition"
                  [] Len(ifaces[SetItem(i)].types) > 1 -> "many types"
                  [] OTHER -> ""

\* type_makers and multiple_type_makers have no 'path'.
FillFault(x) ==
  IF IsProperty(x)
  THEN CASE x.name = "*" -> "* property" [] x.type_name = "path" -> "no maker" [] OTHER -> ""
  ELSE CASE IsMultiple(x) -> "siblings"
         [] RequiredFault(x) # "" -> RequiredFault(x)
         [] IsList(Required(x)) -> ListFault(Required(x))
         [] OTHER -> ""

Field(x) == IF IsProperty(x) THEN <<"property", x.type_name, IsMultiple(x)>>
            ELSE <<IF IsList(Required(x)) THEN "list" ELSE "object", Required(x)>>

\* A property or a single node becomes a field.
Fill ==
  LET t == Head(work).type  x == Head(work).item
  IN /\ Working("fill") /\ FillFault(x) = ""
     /\ ifaces' = [ifaces EXCEPT ![interfaces[t]].attrs = x.name :> Field(x) @@ @]
     /\ UNCHANGED interfaces

FillRaises ==
  /\ phase = "fill" /\ work # <<>>
  /\ LET fault == FillFault(Head(work).item) IN fault # "" /\ Raise(fault)

Finish ==
  /\ phase = "fill" /\ work = <<>>
  /\ phase' = "done" /\ loaded' = loaded \cup DOMAIN schemas
  /\ UNCHANGED <<parserVars, sortVars, known, renewed, queue, given, typeNames, work, error>>

Next ==
  \/ Load \/ Renew \/ Parsing \/ Refuse \/ TakeIn
  \/ Sorting \/ SortRaises \/ Sorted
  \/ UsePredefined \/ MakeInterface \/ MakeRaises
  \/ FirstPass \/ Contain \/ ContainRaises
  \/ SecondPass \/ Fill \/ FillRaises \/ Finish

\* Sequential code.
Spec == Init /\ [][Next]_vars /\ WF_vars(Next)

-----------------------------------------------------------------------------
(* Properties.                                                             *)

\* Reading a text gives the definitions it was written from, whatever options,
\* lists and namespaces are where; a text that is none is refused (Parser).
ParsedAsWritten ==
  phase = "parse" =>
    /\ at = "parsed" => [namespaces |-> namespaces, schemas |-> schemas] = given.means
    /\ at = "error"  => given.means = Nothing

\* The sort gives every type once, after all it inherits from, so that
\* _makeInterfaces finds the bases of an interface.
SortedIsOrdered == phase = "sort" => Sorter!SortedIsOrdered

\* The types of which t has an interface's share: itself and its real
\* supertypes over any number of definitions.
Lineage(t) ==
  LET up[i \in 0..Cardinality(Types)] ==
        IF i = 0 THEN {t}
        ELSE up[i - 1] \cup UNION {ToSet(Bases(s)) : s \in up[i - 1] \cap DOMAIN infos}
  IN up[Cardinality(Types)] \cap DOMAIN infos

\* The fields and containers a type should have by its definition alone.
DeclaredNames(t) ==
  UNION {{x.name : x \in ToSet(Fields(s))} : s \in Lineage(t) \ Excluded}
IsContainer(t) == \E s \in Lineage(t) : Star(s)
Ordinary(t)    == Lineage(t) \cap DOMAIN Predefined = {}

\* Whatever was loaded before or after, in whatever order, with failures in
\* between: a type that was loaded has the fields its definition and those of
\* its supertypes give it, accepts what it says it contains, and nothing else.
AsDeclared ==
  phase = "done" =>
    \A t \in loaded :
      Ordinary(t) /\ Lineage(t) \subseteq loaded =>
        LET i == interfaces[t]
        IN /\ AllNames(i) = DeclaredNames(t)
           /\ IsList(i) <=> IsContainer(t)
           /\ Star(t) => ifaces[SetItem(i)].types =
                           IF t \in Excluded THEN <<>>
                           ELSE [k \in DOMAIN Containees(t) |-> Required(Containees(t)[k])]
           /\ \A x \in ToSet(Fields(t)) : /\ t \notin Excluded /\ ~IsProperty(x)
                /\ x.required_types # <<>> /\ Ordinary(x.required_types[1]) =>
                  (ifaces[i].attrs[x.name][1] = "list" <=> IsContainer(x.required_types[1]))

\* The faults of the definitions that addData should object to.
NewNodes(Test(_)) == UNION {{n \in ToSet(infos[t].nodes) : Test(n)} : t \in New \ Excluded}
Singles  == NewNodes(IsSingle)
Stars    == NewNodes(IsStar)
ListTypes == {n.required_types[1] : n \in {m \in Singles : /\ Len(m.required_types) = 1
                                                           /\ m.required_types[1] \in DOMAIN infos
                                                           /\ IsContainer(m.required_types[1])}}
Containers(t) == {s \in Lineage(t) : Star(s)}
PropertiesOfNew == UNION {ToSet(infos[t].properties) : t \in New \ Excluded}

Faulty(e) ==
  CASE e = "syntax"     -> given.means = Nothing
    [] e = "namespace"  -> \E ns \in DOMAIN given.means.namespaces \cap DOMAIN knownNamespaces :
                             given.means.namespaces[ns] # knownNamespaces[ns]
    [] e = "redefined"  -> DOMAIN given.means.schemas \cap DOMAIN infos # {}
    [] e = "missing"    -> Sorter!HasMissing
    [] e = "loop"       -> Sorter!HasLoop
    [] e = "no interface" -> \E t \in New :
                               ~(Lineage(t) \ New \subseteq DOMAIN interfaces)
    [] e = "multiple *" -> \E n \in Stars : IsMultiple(n)
    [] e = "siblings"   -> \E n \in Singles : IsMultiple(n)
    [] e = "* property" -> \E p \in PropertiesOfNew : p.name = "*"
    [] e = "no maker"   -> \E p \in PropertiesOfNew : p.type_name = "path"
    [] e = "many required types" -> \E n \in Stars \cup Singles : Len(n.required_types) > 1
    [] e = "unknown type" -> \E n \in Stars \cup Singles :
                               ~(ToSet(n.required_types) \subseteq DOMAIN interfaces)
    [] e = "no container" -> \E t \in New \cap DOMAIN Predefined :
                               Star(t) /\ Owners(Predefined[t]) = {}
    [] e = "container with properties" -> \E t \in ListTypes : DeclaredNames(t) # {}
    [] e = "no precondition" -> \E t \in ListTypes : Containers(t) \cap Excluded # {}
    [] e = "many types" -> \E t \in ListTypes : \E s \in Containers(t) :
                             Len(Containees(s)) > 1 \/ (renewed /\ s \in DOMAIN Predefined)
Faults == {"missing", "loop", "no interface", "multiple *", "siblings", "* property", "no maker",
           "many required types", "unknown type", "no container", "container with properties",
           "no precondition", "many types"}


\* A load that succeeds has no fault but the one ContainersAreBare is about.
FaultsAreFound ==
  phase = "done" /\ error = "" /\ New \subseteq loaded /\ ~renewed =>
    \A e \in Faults \ {"container with properties"} : ~Faulty(e)

\* Fields refer to other interfaces "without having to care about definition
\* order" (_makeInterfaces): a list whose container has properties is refused
\* in every order of the dictionary.
ContainersAreBare ==
  phase = "done" /\ error = "" /\ New \subseteq loaded =>
    ~Faulty("container with properties")

\* Every text is read, sorted and built, or refused, in the end: no loop among
\* the definitions keeps addData busy.
LoadsEnd == <>(queue = <<>> /\ phase = "done")
=============================================================================
