--------------------------- MODULE MCInterfaceMaker ---------------------------
(* Texts for InterfaceMaker, written from definitions: every inheritance of *)
(* three types, every feature of the notation, texts with a fault, texts    *)
(* that are none, and loads after one another.                              *)
EXTENDS InterfaceMaker

\* Definitions. Properties and nodes as the parser should give them.
Prop(n)  == [name |-> n, type_name |-> "string", default_values |-> <<>>,
             options |-> Plain, constraints |-> <<>>]
Node(n, req) == [name |-> n, required_types |-> req, default_type |-> "", options |-> Plain]
Def(supers, props, nodes) == [supertypes |-> supers, options |-> {}, properties |-> props, nodes |-> nodes]
Multi(x) == [x EXCEPT !.options.flags = @ \cup {"multiple"}]
Flagged(x, flags, version) == [x EXCEPT !.options = [flags |-> flags, version |-> version]]

\* Writing them.
Listed(values, token(_)) ==
  FlattenSeq([k \in DOMAIN values |-> (IF k = 1 THEN <<>> ELSE <<Char(",")>>) \o <<token(values[k])>>])
WriteOptions(o) == [k \in 1..Cardinality(o.flags) |-> QName(SetToSeq(o.flags)[k])]
                     \o IF o.version = "copy" THEN <<>> ELSE <<QName(o.version)>>
NameOf(x) == IF x.name = "*" THEN Char("*") ELSE QName(x.name)
WriteProp(p) ==
  <<Char("-"), NameOf(p)>>
    \o (IF p.type_name = "string" THEN <<>> ELSE <<Char("("), QName(p.type_name), Char(")")>>)
    \o (IF p.default_values = <<>> THEN <<>> ELSE <<Char("=")>> \o Listed(p.default_values, String))
    \o WriteOptions(p.options)
    \o (IF p.constraints = <<>> THEN <<>> ELSE <<Char("<")>> \o Listed(p.constraints, String))
WriteNode(n) ==
  <<Char("+"), NameOf(n)>>
    \o (IF n.required_types = <<>> THEN <<>> ELSE <<Char("(")>> \o Listed(n.required_types, QName) \o <<Char(")")>>)
    \o (IF n.default_type = "" THEN <<>> ELSE <<Char("="), QName(n.default_type)>>)
    \o WriteOptions(n.options)
WriteType(t, d) ==
  <<Char("["), QName(t), Char("]")>>
    \o (IF d.supertypes = <<>> THEN <<>> ELSE <<Char(">")>> \o Listed(d.supertypes, QName))
    \o SetToSeq({QName(o) : o \in d.options})
    \o FlattenSeq([k \in DOMAIN d.properties |-> WriteProp(d.properties[k])])
    \o FlattenSeq([k \in DOMAIN d.nodes |-> WriteNode(d.nodes[k])])
WriteNamespaces(ns) ==
  FlattenSeq([k \in 1..Cardinality(DOMAIN ns) |->
    LET n == SetToSeq(DOMAIN ns)[k] IN <<Char("<"), QName(n), Char("="), String(ns[n]), Char(">")>>])

TextOf(ns, defs) ==
  [means  |-> [namespaces |-> ns, schemas |-> defs],
   tokens |-> WriteNamespaces(ns)
                \o FlattenSeq([k \in 1..Cardinality(DOMAIN defs) |->
                     LET t == SetToSeq(DOMAIN defs)[k] IN WriteType(t, defs[t])])
                \o <<EOF>>]
T(defs) == TextOf(Nothing, defs)
Bad(tokens) == [means |-> Nothing, tokens |-> tokens \o <<EOF>>]

\* Every inheritance of three types.
Inheritances ==
  {T([t \in D |-> Def(SetToSeq(up[t]), <<>>, <<>>)]) :
     <<D, up>> \in {<<D, up>> \in (SUBSET {"s", "t", "u"}) \X [{"s", "t", "u"} -> SUBSET {"s", "t", "u"}] :
                      \A x \in {"s", "t", "u"} \ D : up[x] = {}}}

S(props, nodes) == "s" :> Def(<<>>, props, nodes)
AType  == "t" :> Def(<<>>, <<Prop("p")>>, <<>>)
AList  == "u" :> Def(<<>>, <<>>, <<Node("*", <<"t">>)>>)
Notation == {
  TextOf("n1" :> "x" @@ "n2" :> "y",
    "s" :> [Def(<<"t", "nt:base">>, <<Flagged(Prop("p"), {"mandatory", "primary"}, "ignore"),
                    [Multi(Prop("q")) EXCEPT !.type_name = "long", !.default_values = <<"d", "e">>, !.constraints = <<"c">>]>>,
                 <<Node("a", <<"t">>), [Flagged(Node("b", <<>>), {"autocreated"}, "version") EXCEPT !.default_type = "t"]>>)
            EXCEPT !.options = {"mixin", "orderable"}] @@ AType),
  \* aliases, a namespace after a node, a list after an option
  [means |-> [namespaces |-> "n" :> "v", schemas |->
                S(<<>>, <<Flagged([Node("a", <<>>) EXCEPT !.default_type = "s"], {"primary", "multiple"}, "copy")>>)],
   tokens |-> <<Char("["), String("s"), Char("]"), Char("+"), QName("a"), Char("="), String("s"), Char("!"), Char("*"), Char("<"), String("n"), Char("="), String("v"), Char(">"), EOF>>],
  Bad(<<QName("s")>>), Bad(<<Char("["), QName("s")>>), Bad(<<Char("<"), QName("n"), Char(">")>>),
  Bad(<<Char("["), QName("s"), Char("]"), Char(">"), Char(",")>>),
  Bad(<<Char("["), QName("s"), Char("]"), QName("x")>>),
  Bad(<<Char("["), QName("s"), Char("]"), Char("-"), Char("(")>>),
  Bad(<<Char("["), QName("s"), Char("]"), Char("-"), QName("p"), Char("("), QName("x"), Char(")")>>),
  Bad(<<Char("["), QName("s"), Char("]"), Char("-"), QName("p"), QName("x")>>),
  Bad(<<Char("["), QName("s"), Char("]"), Char("-"), QName("p"), Char("="), QName("x")>>),
  Bad(<<Char("["), QName("s"), Char("]"), Char("+"), QName("a"), Char("("), QName("t")>>),
  Bad(<<Char("["), QName("s"), Char("]"), Char("+"), QName("a"), Char("="), Char("=")>>) }

\* Every part of a property and of a node, there or not, before others.
Lists == {<<>>, <<"c">>, <<"c", "d">>}
SomeOptions == {Plain, [flags |-> {"multiple"}, version |-> "abort"], [flags |-> {"protected", "mandatory"}, version |-> "copy"]}
Grammar ==
  {T(S(<<[name |-> "p", type_name |-> ty, default_values |-> ds, options |-> o, constraints |-> cs], Prop("q")>>,
       <<Node("a", <<>>)>>) @@ AType) :
     ty \in {"string", "date"}, ds \in Lists, cs \in Lists, o \in SomeOptions}
  \cup {T(S(<<>>, <<[name |-> "a", required_types |-> rs, default_type |-> d, options |-> o], Node("b", <<>>)>>)) :
     rs \in {<<>>, <<"s">>, <<"s", "s">>}, d \in {"", "s"}, o \in SomeOptions}

\* Texts with one fault or none.
Building == {
  T(S(<<Prop("p"), Multi(Prop("q"))>>, <<Node("a", <<"t">>), Node("l", <<"u">>)>>) @@ AType @@ AList),
  T(S(<<Prop("*")>>, <<>>)),
  T(S(<<[Prop("p") EXCEPT !.type_name = "path"]>>, <<>>)),
  T(S(<<>>, <<Multi(Node("*", <<>>))>>)),
  T(S(<<Prop("p")>>, <<Multi(Node("a", <<>>))>>)),
  T(S(<<>>, <<Node("a", <<"x">>)>>)),
  T(S(<<>>, <<Node("*", <<"x">>)>>)),
  T(S(<<>>, <<Node("a", <<"s", "s">>)>>)),
  T(S(<<>>, <<Node("l", <<"u">>)>>) @@ "u" :> Def(<<>>, <<>>, <<Node("*", <<"s">>), Node("*", <<"u">>)>>)),
  T(S(<<>>, <<Node("l", <<"rep:system">>)>>) @@ "rep:system" :> Def(<<>>, <<Prop("*")>>, <<Multi(Node("*", <<>>))>>)),
  T(S(<<>>, <<Node("l", <<"v">>)>>) @@ AType @@ AList @@ "v" :> Def(<<"u">>, <<>>, <<>>)),
  T("x:doc" :> Def(<<>>, <<Prop("p")>>, <<>>) @@ "x:kids" :> Def(<<>>, <<>>, <<Node("*", <<"x:doc">>)>>)
      @@ S(<<>>, <<Node("l", <<"x:kids">>)>>)),
  T("x:doc" :> Def(<<>>, <<>>, <<Node("*", <<>>)>>)),
  T("mix:m" :> Def(<<"t">>, <<Prop("m")>>, <<>>) @@ AType @@ "s" :> Def(<<"mix:m", "u">>, <<Prop("q")>>, <<>>) @@ AList),
  T("mix:m" :> Def(<<>>, <<Prop("m")>>, <<Node("*", <<>>)>>) @@ "s" :> Def(<<"mix:m">>, <<>>, <<Node("a", <<"mix:m">>)>>)) }

\* A list whose container has a property.
Clash == T(S(<<>>, <<Node("l", <<"u">>)>>) @@ "u" :> Def(<<"v">>, <<>>, <<Node("*", <<>>)>>) @@ "v" :> Def(<<>>, <<Prop("p")>>, <<>>))

\* One after another: what was there, what failed before, another maker.
First  == TextOf("n" :> "x", AType @@ AList)
Later  == {T(S(<<Prop("q")>>, <<Node("l", <<"u">>), Node("a", <<"t">>)>>)),
           T("s" :> Def(<<"t", "nt:base">>, <<>>, <<Node("*", <<"t">>)>>)),
           T("s" :> Def(<<"u">>, <<Prop("q")>>, <<>>)),
           T(AType), TextOf("n" :> "y", S(<<>>, <<>>)) , TextOf("n" :> "x", S(<<>>, <<>>))}
Broken == {T("t" :> Def(<<"v">>, <<>>, <<>>)),                 \* fails in the sort until there is v
           T("t" :> Def(<<>>, <<Prop("p"), Prop("*")>>, <<>>))}  \* fails in the last pass
Mending == {T("v" :> Def(<<>>, <<>>, <<>>)), T("v" :> Def(<<>>, <<>>, <<>>) @@ "s" :> Def(<<"t">>, <<>>, <<>>)),
            T("v" :> Def(<<>>, <<>>, <<>>) @@ S(<<>>, <<Node("a", <<"t">>)>>)), T("s" :> Def(<<"t">>, <<>>, <<>>))}
Predefining == T("x:kids" :> Def(<<>>, <<>>, <<Node("*", <<>>)>>))
Again       == T("x:kids" :> Def(<<>>, <<>>, <<Node("*", <<>>)>>) @@ S(<<>>, <<Node("l", <<"x:kids">>)>>))

MCLoads == {<<t>> : t \in Inheritances \cup Notation \cup Grammar \cup Building \cup {Clash}}
             \cup {<<First, t>> : t \in Later} \cup {<<b, t>> : b \in Broken, t \in Mending}
             \cup {<<Predefining, RENEW, Predefining>>, <<First, RENEW, First>>,
                   <<Again, RENEW, Again>>}   \* refused the second time
MCClash == {<<Clash>>}

MCTypes == {"s", "t", "u", "v", "x", "x:doc", "x:kids", "rep:system", "nt:base", "mix:m"}
MCMixins == {"mix:m"}
MCTops == {"nt:base"}
MCExcluded == {"rep:system"}
MCPredefined == [x \in {"x:doc", "x:kids"} |-> IF x = "x:doc" THEN "IDocument" ELSE "IChildren"]
MCPredefinedInterfaces ==
  [IDocument |-> [bases |-> <<"Interface">>, setitem |-> FALSE, types |-> <<>>, attrs |-> Nothing],
   IChildren |-> [bases |-> <<"IContainer">>, setitem |-> TRUE, types |-> <<>>, attrs |-> Nothing]]
=============================================================================
