------------------------------ MODULE CNDParser ------------------------------
(***************************************************************************)
(* The parser of node type definitions (Parser of cnd.py) over the tokens  *)
(* its lexer yields, with the one stack of tokens that are read again      *)
(* (Lexer.pushBack).  An action reads what one of the parser's methods     *)
(* reads before it decides; the methods that run to the end of a list or   *)
(* of options take an action per round.                                    *)
(***************************************************************************)
EXTENDS Naturals, Sequences, SequencesExt, TLC

VARIABLES
  text,       \* the tokens of the input, the last one EOF
  read,       \* how many the lexer has yielded
  unread,     \* Lexer.stack
  at,         \* the method that is about to read, "parsed" or "error"
  type,       \* the type definition that is being read
  item,       \* its property or node that is being read
  list,       \* the list of getStringList, what it is for, what may be in it
  namespaces, \* results of getData
  schemas

parserVars == <<text, read, unread, at, type, item, list, namespaces, schemas>>

Char(c)    == [kind |-> "char", value |-> c]
QName(v)   == [kind |-> "name", value |-> v]     \* LexerQName, in lower case where
String(v)  == [kind |-> "string", value |-> v]   \* the parser asks for lower()
EOF        == [kind |-> "eof", value |-> ""]
Named      == {"name", "string"}

Empty == [x \in {} |-> ""]
NoItem == [name |-> ""]
NoList == [of |-> "", kinds |-> {}, values |-> <<>>]
Plain == [flags |-> {}, version |-> "copy"]      \* the defaults of getOptions

Parse(tokens) ==
  /\ text' = tokens /\ read' = 0 /\ unread' = <<>> /\ at' = "data"
  /\ type' = NoItem /\ item' = NoItem /\ list' = NoList
  /\ namespaces' = Empty /\ schemas' = Empty

Token    == IF unread # <<>> THEN Last(unread) ELSE text[read + 1]
Ahead(k) == [i \in 1..k |-> IF read + i <= Len(text) THEN text[read + i] ELSE EOF]

\* next() of the lexer.
Take == IF unread # <<>> THEN unread' = Front(unread) /\ UNCHANGED read
                         ELSE read' = read + 1 /\ UNCHANGED unread

\* Mutant: the token stays where it is, and is pushed back as well.
PushBackTwice == /\ unread' = Append(unread, Token)
                 /\ UNCHANGED read

\* next() and pushBack() of the token.
PushBack == IF unread # <<>> THEN UNCHANGED <<read, unread>>
                             ELSE read' = read + 1 /\ unread' = <<Token>>

\* k tokens in a row, none of them read before: the stack is empty.
TakeAll(k) == read' = read + k /\ UNCHANGED unread

Results == <<text, namespaces, schemas>>
Fail == at' = "error" /\ UNCHANGED <<read, unread, type, item, list, namespaces, schemas, text>>

\* One branch of a method: if the token is a t, it is taken, else left.
Optional(t, then, otherwise) ==
  \/ Token = t /\ Take /\ at' = then
  \/ Token # t /\ PushBack /\ at' = otherwise

\* The outer loop of getData.
Data ==
  /\ at = "data"
  /\ \/ Token = EOF /\ at' = "parsed" /\ Take
     \/ Token = Char("<") /\ at' = "namespace" /\ Take
     \/ Token = Char("[") /\ at' = "type" /\ Take
     \/ Token \notin {EOF, Char("<"), Char("[")} /\ at' = "error" /\ Take
  /\ UNCHANGED <<type, item, list, Results>>

Namespace ==
  LET a  == Ahead(4)
      ok == a[1].kind \in Named /\ a[2] = Char("=") /\ a[3].kind = "string" /\ a[4] = Char(">")
  IN /\ at = "namespace"
     /\ \/ /\ ok /\ TakeAll(4)
           /\ namespaces' = a[1].value :> a[3].value @@ namespaces
           /\ at' = "data" /\ UNCHANGED <<type, item, list, text, schemas>>
        \/ ~ok /\ Fail

TypeName ==
  LET a  == Ahead(2)
      ok == a[1].kind \in Named /\ a[2] = Char("]")
  IN /\ at = "type"
     /\ \/ /\ ok /\ TakeAll(2)
           /\ type' = [name |-> a[1].value, supertypes |-> <<>>, options |-> {},
                       properties |-> <<>>, nodes |-> <<>>]
           /\ at' = "supertypes" /\ UNCHANGED <<item, list, Results>>
        \/ ~ok /\ Fail

\* The four lists of getStringList: where each is, and what comes after it.
ListOf(field, kinds) == list' = [of |-> field, kinds |-> kinds, values |-> <<>>]
AfterList == [supertypes |-> "typeOptions", required_types |-> "closing",
              default_values |-> "options", constraints |-> "propertyEnd"]

SuperTypes ==
  /\ at = "supertypes"
  /\ Optional(Char(">"), "list", "typeOptions")
  /\ ListOf("supertypes", Named)
  /\ UNCHANGED <<type, item, Results>>

ListItem ==
  /\ at = "list"
  /\ \/ /\ Token.kind \in list.kinds /\ Take
        /\ list' = [list EXCEPT !.values = Append(@, Token.value)]
        /\ at' = "comma" /\ UNCHANGED <<type, item, Results>>
     \/ Token.kind \notin list.kinds /\ Fail

Comma ==
  /\ at = "comma"
  /\ Optional(Char(","), "list", AfterList[list.of])
  /\ \/ Token = Char(",") /\ UNCHANGED <<type, item>>
     \/ /\ Token # Char(",") /\ list.of = "supertypes"
        /\ type' = [type EXCEPT !.supertypes = list.values] /\ UNCHANGED item
     \/ /\ Token # Char(",") /\ list.of # "supertypes"
        /\ item' = [item EXCEPT ![list.of] = list.values] /\ UNCHANGED type
  /\ UNCHANGED <<list, Results>>

TypeOptionOf == [o |-> "orderable", ord |-> "orderable", orderable |-> "orderable",
                 m |-> "mixin", mix |-> "mixin", mixin |-> "mixin"]

\* A round of getNodeTypeOptions.
TypeOptions ==
  LET isOption == Token.kind = "name" /\ Token.value \in DOMAIN TypeOptionOf
  IN /\ at = "typeOptions"
     /\ \/ /\ isOption /\ Take
           /\ type' = [type EXCEPT !.options = @ \cup {TypeOptionOf[Token.value]}]
           /\ UNCHANGED at
        \/ ~isOption /\ PushBack /\ at' = "members" /\ UNCHANGED type
     /\ UNCHANGED <<item, list, Results>>

TypeDef == [supertypes |-> type.supertypes, options |-> type.options,
            properties |-> type.properties, nodes |-> type.nodes]

\* Mutant: a type that ends the input is not stored.
MembersEndLost ==
  /\ PushBack /\ at' = "data"
  /\ schemas' = IF Token = EOF THEN schemas ELSE type.name :> TypeDef @@ schemas

\* Mutant: the loop is not left.
MembersEndless == PushBack /\ UNCHANGED <<at, schemas>>

\* The end of a type definition: what comes next is for the outer loop.
MembersEnd ==
  /\ PushBack /\ at' = "data"
  /\ schemas' = type.name :> TypeDef @@ schemas

\* A round of the inner loop of getData.
Members ==
  /\ at = "members"
  /\ \/ Token = Char("-") /\ Take /\ at' = "property" /\ UNCHANGED schemas
     \/ Token = Char("+") /\ Take /\ at' = "node" /\ UNCHANGED schemas
     \/ Token \in {EOF, Char("<"), Char("[")} /\ MembersEnd
     \/ /\ Token \notin {EOF, Char("-"), Char("+"), Char("<"), Char("[")}
        /\ Take /\ at' = "error" /\ UNCHANGED schemas
  /\ UNCHANGED <<type, item, list, text, namespaces>>

\* The names of getProperty and of getNode; '*' is one.
ItemName ==
  LET ok == Token = Char("*") \/ Token.kind \in Named
  IN /\ at \in {"property", "node"}
     /\ \/ /\ ok /\ Take /\ UNCHANGED <<type, list, Results>>
           /\ \/ /\ at = "property" /\ at' = "propertyType"
                 /\ item' = [name |-> Token.value, type_name |-> "string",
                             default_values |-> <<>>, options |-> Plain, constraints |-> <<>>]
              \/ /\ at = "node" /\ at' = "required"
                 /\ item' = [name |-> Token.value, required_types |-> <<>>,
                             default_type |-> "", options |-> Plain]
        \/ ~ok /\ Fail

OkTypeNames == {"string", "binary", "long", "double", "boolean", "date", "name",
                "path", "reference", "undefined"}

PropertyType ==
  LET a  == Ahead(3)
      ok == a[2].kind = "name" /\ a[2].value \in OkTypeNames /\ a[3] = Char(")")
  IN /\ at = "propertyType"
     /\ \/ /\ a[1] = Char("(") /\ ok /\ TakeAll(3)
           /\ item' = [item EXCEPT !.type_name = a[2].value]
           /\ at' = "default" /\ UNCHANGED <<type, list, Results>>
        \/ a[1] = Char("(") /\ ~ok /\ Fail
        \/ /\ a[1] # Char("(") /\ PushBack
           /\ at' = "default" /\ UNCHANGED <<type, item, list, Results>>

\* The default values of a property.
Defaults ==
  /\ at = "default"
  /\ Optional(Char("="), "list", "options")
  /\ ListOf("default_values", {"string"})
  /\ UNCHANGED <<type, item, Results>>

RequiredTypes ==
  /\ at = "required"
  /\ Optional(Char("("), "list", "defaultType")
  /\ ListOf("required_types", Named)
  /\ UNCHANGED <<type, item, Results>>

Closing ==
  /\ at = "closing"
  /\ \/ Token = Char(")") /\ Take /\ at' = "defaultType" /\ UNCHANGED <<type, item, list, Results>>
     \/ Token # Char(")") /\ Fail

DefaultType ==
  LET value == IF unread # <<>> THEN text[read + 1] ELSE Ahead(2)[2]
  IN /\ at = "defaultType"
     /\ \/ /\ Token = Char("=") /\ value.kind \in Named
           /\ item' = [item EXCEPT !.default_type = value.value]
           /\ read' = (IF unread # <<>> THEN read + 1 ELSE read + 2) /\ unread' = <<>>
           /\ at' = "options" /\ UNCHANGED <<type, list, Results>>
        \/ Token = Char("=") /\ value.kind \notin Named /\ Fail
        \/ /\ Token # Char("=") /\ PushBack
           /\ at' = "options" /\ UNCHANGED <<type, item, list, Results>>

OkVersion == {"copy", "version", "initialize", "compute", "ignore", "abort"}
OptionAliases ==
  "!" :> "primary" @@ "*" :> "multiple" @@
  [primary |-> "primary", pri |-> "primary",
   autocreated |-> "autocreated", aut |-> "autocreated", a |-> "autocreated",
   mandatory |-> "mandatory", man |-> "mandatory", m |-> "mandatory",
   multiple |-> "multiple", mul |-> "multiple", protected |-> "protected"]

\* A round of getOptions.
Options ==
  LET isOption == Token.kind = "name" \/ Token \in {Char("!"), Char("*")}
      value == Token.value
  IN /\ at = "options"
     /\ \/ /\ isOption /\ value \in OkVersion /\ Take
           /\ item' = [item EXCEPT !.options.version = value]
           /\ UNCHANGED <<at, type, list, Results>>
        \/ /\ isOption /\ value \in DOMAIN OptionAliases /\ Take
           /\ item' = [item EXCEPT !.options.flags = @ \cup {OptionAliases[value]}]
           /\ UNCHANGED <<at, type, list, Results>>
        \/ isOption /\ value \notin OkVersion \cup DOMAIN OptionAliases /\ Fail
        \/ /\ ~isOption /\ PushBack
           /\ at' = IF "constraints" \in DOMAIN item THEN "constraint" ELSE "nodeEnd"
           /\ UNCHANGED <<item, type, list, Results>>

Constraints ==
  /\ at = "constraint"
  /\ Optional(Char("<"), "list", "propertyEnd")
  /\ ListOf("constraints", {"string"})
  /\ UNCHANGED <<type, item, Results>>

\* The return of getProperty or of getNode.
ItemEnd ==
  /\ \/ /\ at = "propertyEnd"
        /\ type' = [type EXCEPT !.properties = Append(@, item)]
     \/ /\ at = "nodeEnd"
        /\ type' = [type EXCEPT !.nodes = Append(@, item)]
  /\ at' = "members" /\ UNCHANGED <<read, unread, item, list, Results>>

ParserStep ==
  \/ Data \/ Namespace \/ TypeName \/ SuperTypes \/ ListItem \/ Comma \/ TypeOptions
  \/ Members \/ ItemName \/ PropertyType \/ Defaults \/ RequiredTypes \/ Closing
  \/ DefaultType \/ Options \/ Constraints \/ ItemEnd

-----------------------------------------------------------------------------
\* What the lexer still gives is the rest of the input, in order, and one
\* token at most waits to be read again: none is lost or read as two
\* (pushBack, and the places that read several tokens without looking at it).
NothingReadTwice ==
  /\ Len(unread) <= 1
  /\ read <= Len(text)
  /\ unread # <<>> => Last(unread) = text[read]
=============================================================================
