------------------------ MODULE InterfaceMaker_proofs ------------------------
(* The sorts of InterfaceMaker end in an order, whatever was loaded before,  *)
(* and its parser reads every token once and in order.                       *)
EXTENDS InterfaceMaker, TLAPS

Sort == INSTANCE TopologicalSort_proofs

\* While types are sorted, the invariant of the sort holds.
SortInv == phase = "sort" => Sort!SortInv

\* A load starts a sort of the types it has taken in.
LEMMA TakeInStarts ==
  ASSUME TakeIn
  PROVE  Sort!Start'
<1> DEFINE all == schemas @@ infos
<1>1. /\ graph' = [t \in Tops \cup DOMAIN all |->
                     IF t \in Tops THEN {} ELSE ToSet(all[t].supertypes)]
      /\ todo' = Tops \cup DOMAIN all
      /\ stack' = <<>> /\ ancestors' = {} /\ traversed' = <<>> /\ outcome' = "running"
  BY Zenon DEF TakeIn
<1> HIDE DEF all
<1>2. graph' = [n \in DOMAIN graph' |-> graph'[n]] /\ DOMAIN graph' = todo'
  BY <1>1
<1> QED BY <1>1, <1>2 DEF Sort!Start

LEMMA StartedIsSound == Sort!Start' => Sort!SortInv'
<1>1. Sort!Start => Sort!SortInv
  BY Sort!StartInv
<1> QED BY <1>1, PTL

\* The sort that InterfaceMaker runs is the one the lemmas are about.
LEMMA SameSort == Sorter!Next <=> Sort!Next
<1>1. ASSUME NEW n PROVE Sorter!Root(n) <=> Sort!Root(n)
  BY DEF Sorter!Root, Sorter!Begin, Sorter!Visit, Sorter!Running, Sorter!ToSet,
         Sort!Root, Sort!Begin, Sort!Visit, Sort!Running, Sort!ToSet
<1>2. ASSUME NEW d PROVE Sorter!Dependent(d) <=> Sort!Dependent(d)
  BY Zenon DEF Sorter!Dependent, Sorter!Begin, Sorter!Visit, Sorter!Running, Sorter!ToSet,
         Sorter!Last, Sorter!Front,
         Sort!Dependent, Sort!Begin, Sort!Visit, Sort!Running, Sort!ToSet, Sort!Last, Sort!Front
<1>3. Sorter!Leave <=> Sort!Leave
  BY Zenon DEF Sorter!Leave, Sorter!Put, Sorter!Running, Sorter!Last, Sorter!Front, Sorter!ToSet,
         Sort!Leave, Sort!Put, Sort!Running, Sort!Last, Sort!Front, Sort!ToSet
<1>4. Sorter!Sorted <=> Sort!Sorted
  BY DEF Sorter!Sorted, Sorter!Running, Sort!Sorted, Sort!Running
<1> QED BY <1>1, <1>2, <1>3, <1>4 DEF Sorter!Next, Sort!Next

\* What is not a step of the sort leaves its variables alone, or ends it.
LEMMA OthersKeep ==
  ASSUME Next, ~TakeIn, ~Sorting
  PROVE  phase' # "sort" \/ (phase' = phase /\ UNCHANGED sortVars)
<1>1. CASE Load
  BY <1>1 DEF Load
<1>2. CASE Renew
  BY <1>2, Zenon DEF Renew
<1>3. CASE Parsing
  BY <1>3 DEF Parsing
<1>4. CASE Refuse \/ SortRaises \/ MakeRaises \/ ContainRaises \/ FillRaises
  BY <1>4, Zenon DEF Refuse, SortRaises, MakeRaises, ContainRaises, FillRaises, Raise
<1>5. CASE UsePredefined \/ MakeInterface \/ Contain \/ Fill
  BY <1>5, Zenon DEF UsePredefined, MakeInterface, Contain, Fill, Working
<1>6. CASE Sorted
  BY <1>6, Zenon DEF Sorted
<1>7. CASE FirstPass \/ SecondPass
  BY <1>7, Zenon DEF FirstPass, SecondPass, EnterPass
<1>8. CASE Finish
  BY <1>8 DEF Finish
<1> QED BY <1>1, <1>2, <1>3, <1>4, <1>5, <1>6, <1>7, <1>8 DEF Next

\* The sort of any load, after any other loads, puts every type after all it
\* inherits from (_makeInterfaces, topologicalSort).
THEOREM SortsAreOrdered == Spec => []SortedIsOrdered
<1>1. Init => SortInv
  BY DEF Init, SortInv
<1>2. SortInv /\ [Next]_vars => SortInv'
  <2> SUFFICES ASSUME SortInv, [Next]_vars, phase' = "sort" PROVE Sort!SortInv'
    BY DEF SortInv
  <2>1. CASE TakeIn
    BY <2>1, TakeInStarts, StartedIsSound
  <2>2. CASE Sorting
    <3>1. phase = "sort" /\ [Sort!Next]_Sort!vars
      BY <2>2, SameSort DEF Sorting
    <3> QED BY <3>1, Sort!NextInv DEF SortInv
  <2>3. CASE phase' = phase /\ UNCHANGED sortVars
    <3>1. [Sort!Next]_Sort!vars
      BY <2>3 DEF sortVars, Sort!vars
    <3> QED BY <2>3, <3>1, Sort!NextInv DEF SortInv
  <2>4. CASE UNCHANGED vars
    BY <2>3, <2>4 DEF vars
  <2> QED BY <2>1, <2>2, <2>3, <2>4, OthersKeep
<1>3. SortInv => SortedIsOrdered
  BY Sort!EndIsOrdered DEF SortInv, SortedIsOrdered, Sorter!SortedIsOrdered, Sort!SortedIsOrdered,
     Sorter!ToSet, Sort!ToSet, Sorter!IsInjective, Sort!IsInjective
<1> QED BY <1>1, <1>2, <1>3, PTL DEF Spec

-----------------------------------------------------------------------------
(* The parser and its lexer.                                               *)

\* The lexer is at a place of the text, with the token before it pushed back or
\* not; as long as a method is about to read, EOF is still to come.
Reading ==
  /\ text \in Seq(Tokens) /\ text # <<>> /\ text[Len(text)] = EOF
  /\ read \in 0..Len(text)
  /\ unread = <<>> \/ (read > 0 /\ unread = <<text[read]>>)
  /\ at \notin {"parsed", "error"} => read < Len(text) \/ unread # <<>>

\* The methods that read several tokens in a row start at a fresh one.
Fresh == at \in {"namespace", "type", "propertyType"} => unread = <<>>

\* The list that is read has a place to go to, and no EOF in it.
Listing ==
  /\ list = [of |-> list.of, kinds |-> list.kinds, values |-> list.values]
  /\ list.kinds \subseteq Named
  /\ at \in {"list", "comma"} => list.of \in DOMAIN AfterList

ParserInv == Reading /\ Fresh /\ Listing

\* The place of the token that is read next.
Place == IF unread # <<>> THEN read ELSE read + 1

LEMMA TokenFacts ==
  ASSUME Reading, at \notin {"parsed", "error"}
  PROVE  /\ Place \in 1..Len(text) /\ Token = text[Place]
         /\ (Token # EOF => Place < Len(text))
         /\ (Take => read' = Place /\ unread' = <<>>)
         /\ (PushBack => read' = Place /\ unread' = <<text[Place]>>)
<1>1. CASE unread = <<>>
  BY <1>1 DEF Reading, Place, Token, Take, PushBack
<1>2. CASE unread # <<>>
  <2>1. unread = <<text[read]>> /\ read \in 1..Len(text)
    BY <1>2 DEF Reading
  <2>2. Last(unread) = text[read] /\ Front(unread) = <<>>
    BY <2>1 DEF Last, Front
  <2> QED BY <1>2, <2>1, <2>2 DEF Reading, Place, Token, Take, PushBack
<1> QED BY <1>1, <1>2

\* A token is taken: it was not EOF, or the text is done with.
LEMMA Taken ==
  ASSUME ParserInv, at \notin {"parsed", "error"}, Take, text' = text,
         Token # EOF \/ at' \in {"parsed", "error"}, Listing'
  PROVE  ParserInv'
BY TokenFacts DEF ParserInv, Reading, Fresh

\* A token is looked at and pushed back.
LEMMA PushedBack ==
  ASSUME ParserInv, at \notin {"parsed", "error"}, PushBack, text' = text,
         at' \notin {"namespace", "type", "propertyType"}, Listing'
  PROVE  ParserInv'
BY TokenFacts DEF ParserInv, Reading, Fresh

\* k tokens are taken at a fresh place, the last of them not EOF.
LEMMA AllTaken ==
  ASSUME ParserInv, unread = <<>>, NEW k \in 1..4, TakeAll(k), text' = text,
         Ahead(k)[k] # EOF, Listing'
  PROVE  ParserInv'
<1>1. read + k <= Len(text) /\ text[read + k] # EOF
  BY DEF Ahead
<1>2. read + k < Len(text) /\ read + k \in 0..Len(text)
  BY <1>1 DEF ParserInv, Reading
<1> QED BY <1>2 DEF ParserInv, Reading, Fresh, TakeAll

LEMMA Failed == ParserInv /\ Fail => ParserInv'
BY DEF ParserInv, Reading, Fresh, Listing, Fail

LEMMA Kinds ==
  /\ EOF.kind \notin Named \cup {"name", "string"} /\ EOF # Char("<") /\ EOF # Char("[")
  /\ \A c : Char(c) # EOF
BY DEF EOF, Char, Named

LEMMA ListStarts ==
  ASSUME NEW f \in DOMAIN AfterList, NEW kinds, kinds \subseteq Named, ListOf(f, kinds)
  PROVE  Listing'
BY DEF ListOf, Listing

LEMMA ListStays ==
  ASSUME ParserInv, list' = list, at' \notin {"list", "comma"}
  PROVE  Listing'
BY DEF ParserInv, Listing

\* A token that is taken or left, before a list.
LEMMA ListOrNot ==
  ASSUME ParserInv, at \notin {"parsed", "error"}, text' = text, NEW c, NEW otherwise,
         Optional(Char(c), "list", otherwise),
         otherwise \notin {"namespace", "type", "propertyType"},
         NEW f \in DOMAIN AfterList, NEW kinds, kinds \subseteq Named, ListOf(f, kinds)
  PROVE  ParserInv'
<1>1. Listing'
  BY ListStarts
<1> QED BY <1>1, Kinds, Taken, PushedBack DEF Optional

LEMMA DataInv == ParserInv /\ Data => ParserInv'
<1> SUFFICES ASSUME ParserInv, Data PROVE ParserInv'
  OBVIOUS
<1>1. /\ at = "data" /\ Take /\ text' = text /\ list' = list
      /\ at' \in {"parsed", "namespace", "type", "error"}
      /\ Token # EOF \/ at' \in {"parsed", "error"}
  BY Kinds DEF Data, Results
<1> QED BY <1>1, ListStays, Taken

LEMMA NamespaceInv == ParserInv /\ Namespace => ParserInv'
<1> SUFFICES ASSUME ParserInv, Namespace PROVE ParserInv'
  OBVIOUS
<1>1. CASE Fail
  BY <1>1, Failed
<1>2. CASE ~Fail
  <2>1. /\ at = "namespace" /\ TakeAll(4) /\ text' = text /\ list' = list /\ at' = "data"
        /\ Ahead(4)[4] = Char(">")
    BY <1>2 DEF Namespace
  <2> QED BY <2>1, Kinds, ListStays, AllTaken DEF ParserInv, Fresh
<1> QED BY <1>1, <1>2

LEMMA TypeNameInv == ParserInv /\ TypeName => ParserInv'
<1> SUFFICES ASSUME ParserInv, TypeName PROVE ParserInv'
  OBVIOUS
<1>1. CASE Fail
  BY <1>1, Failed
<1>2. CASE ~Fail
  <2>1. /\ at = "type" /\ TakeAll(2) /\ text' = text /\ list' = list /\ at' = "supertypes"
        /\ Ahead(2)[2] = Char("]")
    BY <1>2 DEF TypeName, Results
  <2> QED BY <2>1, Kinds, ListStays, AllTaken DEF ParserInv, Fresh
<1> QED BY <1>1, <1>2

LEMMA ListsInv ==
  ParserInv /\ (SuperTypes \/ Defaults \/ RequiredTypes \/ Constraints) => ParserInv'
<1> SUFFICES ASSUME ParserInv, SuperTypes \/ Defaults \/ RequiredTypes \/ Constraints
             PROVE  ParserInv'
  OBVIOUS
<1>1. {"supertypes", "default_values", "required_types", "constraints"} = DOMAIN AfterList
  BY DEF AfterList
<1>2. Named \subseteq Named /\ {"string"} \subseteq Named
  BY DEF Named
<1> QED BY <1>1, <1>2, ListOrNot DEF SuperTypes, Defaults, RequiredTypes, Constraints, Results

LEMMA ListItemInv == ParserInv /\ ListItem => ParserInv'
<1> SUFFICES ASSUME ParserInv, ListItem PROVE ParserInv'
  OBVIOUS
<1>1. CASE Fail
  BY <1>1, Failed
<1>2. CASE ~Fail
  <2>1. /\ at = "list" /\ Take /\ text' = text /\ at' = "comma" /\ Token.kind \in list.kinds
        /\ list' = [list EXCEPT !.values = Append(@, Token.value)]
    BY <1>2 DEF ListItem, Results
  <2>2. Listing'
    BY <2>1 DEF ParserInv, Listing
  <2>3. Token # EOF
    BY <2>1, Kinds DEF ParserInv, Listing
  <2> QED BY <2>1, <2>2, <2>3, Taken
<1> QED BY <1>1, <1>2

LEMMA CommaInv == ParserInv /\ Comma => ParserInv'
<1> SUFFICES ASSUME ParserInv, Comma PROVE ParserInv'
  OBVIOUS
<1>1. /\ at = "comma" /\ text' = text /\ list' = list
      /\ Optional(Char(","), "list", AfterList[list.of])
  BY DEF Comma, Results
<1>2. list.of \in DOMAIN AfterList
  BY <1>1 DEF ParserInv, Listing
<1>3. AfterList[list.of] \notin {"namespace", "type", "propertyType"}
  BY <1>2 DEF AfterList
<1>4. Listing'
  BY <1>1, <1>2 DEF ParserInv, Listing
<1> QED BY <1>1, <1>3, <1>4, Kinds, Taken, PushedBack DEF Optional

LEMMA TypeOptionsInv == ParserInv /\ TypeOptions => ParserInv'
<1> SUFFICES ASSUME ParserInv, TypeOptions PROVE ParserInv'
  OBVIOUS
<1>1. /\ at = "typeOptions" /\ text' = text /\ list' = list
      /\ \/ Token.kind = "name" /\ Take /\ at' = at
         \/ PushBack /\ at' = "members"
  BY DEF TypeOptions, Results
<1>2. Token.kind = "name" => Token # EOF
  BY Kinds
<1> QED BY <1>1, <1>2, ListStays, Taken, PushedBack

LEMMA MembersInv == ParserInv /\ Members => ParserInv'
<1> SUFFICES ASSUME ParserInv, Members PROVE ParserInv'
  OBVIOUS
<1>1. /\ at = "members" /\ text' = text /\ list' = list
      /\ \/ Token # EOF /\ Take /\ at' \in {"property", "node", "error"}
         \/ PushBack /\ at' = "data"
  BY Kinds DEF Members, MembersEnd
<1> QED BY <1>1, ListStays, Taken, PushedBack

LEMMA ItemNameInv == ParserInv /\ ItemName => ParserInv'
<1> SUFFICES ASSUME ParserInv, ItemName PROVE ParserInv'
  OBVIOUS
<1>1. CASE Fail
  BY <1>1, Failed
<1>2. CASE ~Fail
  <2>1. /\ at \in {"property", "node"} /\ Take /\ text' = text /\ list' = list
        /\ at' \in {"propertyType", "required"}
        /\ Token = Char("*") \/ Token.kind \in Named
    BY <1>2 DEF ItemName, Results
  <2> QED BY <2>1, Kinds, ListStays, Taken
<1> QED BY <1>1, <1>2

LEMMA PropertyTypeInv == ParserInv /\ PropertyType => ParserInv'
<1> SUFFICES ASSUME ParserInv, PropertyType PROVE ParserInv'
  OBVIOUS
<1>1. CASE Fail
  BY <1>1, Failed
<1>2. CASE ~Fail
  <2>1. /\ at = "propertyType" /\ text' = text /\ list' = list /\ at' = "default"
        /\ \/ TakeAll(3) /\ Ahead(3)[3] = Char(")")
           \/ PushBack
    BY <1>2 DEF PropertyType, Results
  <2>2. unread = <<>> /\ Listing'
    BY <2>1, ListStays DEF ParserInv, Fresh
  <2> QED BY <2>1, <2>2, Kinds, AllTaken, PushedBack
<1> QED BY <1>1, <1>2

LEMMA ClosingInv == ParserInv /\ Closing => ParserInv'
<1> SUFFICES ASSUME ParserInv, Closing PROVE ParserInv'
  OBVIOUS
<1>1. CASE Fail
  BY <1>1, Failed
<1>2. CASE ~Fail
  <2>1. /\ at = "closing" /\ Token = Char(")") /\ Take /\ text' = text /\ list' = list
        /\ at' = "defaultType"
    BY <1>2 DEF Closing, Results
  <2> QED BY <2>1, Kinds, ListStays, Taken
<1> QED BY <1>1, <1>2

LEMMA DefaultTypeInv == ParserInv /\ DefaultType => ParserInv'
<1> SUFFICES ASSUME ParserInv, DefaultType PROVE ParserInv'
  OBVIOUS
<1> DEFINE value == IF unread # <<>> THEN text[read + 1] ELSE Ahead(2)[2]
<1> DEFINE place == IF unread # <<>> THEN read + 1 ELSE read + 2
<1>1. CASE Fail
  BY <1>1, Failed
<1>2. CASE ~Fail /\ ~PushBack
  <2>1. /\ at = "defaultType" /\ Token = Char("=") /\ value.kind \in Named
        /\ read' = place /\ unread' = <<>> /\ at' = "options"
        /\ text' = text /\ list' = list
    BY <1>2 DEF DefaultType, Results
  <2>2. Token = text[Place] /\ Place < Len(text) /\ Place \in 1..Len(text)
    BY <2>1, Kinds, TokenFacts DEF ParserInv
  <2>3. value # EOF
    BY <2>1, Kinds
  <2>4. place <= Len(text) /\ value = text[place]
    <3>1. CASE unread # <<>>
      BY <3>1, <2>2 DEF Place
    <3>2. CASE unread = <<>>
      BY <3>2, <2>3 DEF Ahead
    <3> QED BY <3>1, <3>2
  <2>5. place \in 0..Len(text) /\ place < Len(text)
    BY <2>3, <2>4 DEF ParserInv, Reading
  <2> QED BY <2>1, <2>5, ListStays DEF ParserInv, Reading, Fresh
<1>3. CASE ~Fail /\ PushBack
  <2>1. at = "defaultType" /\ text' = text /\ list' = list /\ at' = "options"
    BY <1>3 DEF DefaultType, Results
  <2> QED BY <2>1, <1>3, ListStays, PushedBack
<1> QED BY <1>1, <1>2, <1>3

LEMMA OptionsInv == ParserInv /\ Options => ParserInv'
<1> SUFFICES ASSUME ParserInv, Options PROVE ParserInv'
  OBVIOUS
<1>1. CASE Fail
  BY <1>1, Failed
<1>2. CASE ~Fail
  <2>1. /\ at = "options" /\ text' = text /\ list' = list
        /\ \/ /\ Token.kind = "name" \/ Token \in {Char("!"), Char("*")}
              /\ Take /\ at' = at
           \/ PushBack /\ at' \in {"constraint", "nodeEnd"}
    BY <1>2 DEF Options, Results
  <2>2. Token.kind = "name" \/ Token \in {Char("!"), Char("*")} => Token # EOF
    BY Kinds
  <2> QED BY <2>1, <2>2, ListStays, Taken, PushedBack
<1> QED BY <1>1, <1>2

LEMMA ItemEndInv == ParserInv /\ ItemEnd => ParserInv'
BY DEF ParserInv, Reading, Fresh, Listing, ItemEnd, Results

LEMMA ParserStepInv == ParserInv /\ ParserStep => ParserInv'
BY DataInv, NamespaceInv, TypeNameInv, ListsInv, ListItemInv, CommaInv, TypeOptionsInv,
   MembersInv, ItemNameInv, PropertyTypeInv, ClosingInv, DefaultTypeInv, OptionsInv,
   ItemEndInv DEF ParserStep

\* What is left to load is the rest of a sequence of Loads.
Queued == \E q \in Loads : queue \in Seq(ToSet(q))

ReadingInv == ParserInv /\ Queued

LEMMA ReadingInit == Init => ReadingInv
<1> SUFFICES ASSUME Init PROVE ReadingInv
  OBVIOUS
<1>1. Queued
  BY LoadsAssumption DEF Init, Queued
<1>2. EOF \in Tokens
  BY DEF Tokens
<1>3. text = <<EOF>> /\ read = 0 /\ unread = <<>> /\ at = "parsed" /\ list = NoList
  BY DEF Init
<1>4. Reading /\ Fresh
  BY <1>2, <1>3 DEF Reading, Fresh
<1>5. Listing
  BY <1>3 DEF Listing, NoList
<1> QED BY <1>1, <1>4, <1>5 DEF ReadingInv, ParserInv

LEMMA LoadInv == ReadingInv /\ Load => ReadingInv'
<1> SUFFICES ASSUME ReadingInv, Load PROVE ReadingInv'
  OBVIOUS
<1> DEFINE t == Head(queue)
<1>1. PICK q \in Loads : queue \in Seq(ToSet(q))
  BY DEF ReadingInv, Queued
<1>2. queue # <<>> /\ t # RENEW /\ queue' = Tail(queue) /\ Parse(t.tokens)
  BY Zenon DEF Load
<1>3. t \in ToSet(q) /\ queue' \in Seq(ToSet(q))
  <2> DEFINE S == ToSet(q)
  <2>1. queue \in Seq(S) /\ queue # <<>> /\ queue' = Tail(queue)
    BY <1>1, <1>2
  <2> HIDE DEF S
  <2>2. Head(queue) \in S /\ queue' \in Seq(S)
    BY <2>1
  <2> QED BY <2>2 DEF S
<1>4. t.tokens \in Seq(Tokens) /\ t.tokens # <<>> /\ t.tokens[Len(t.tokens)] = EOF
  BY <1>2, <1>3, LoadsAssumption DEF Last
<1>5. /\ text' = t.tokens /\ read' = 0 /\ unread' = <<>> /\ at' = "data" /\ list' = NoList
  BY <1>2 DEF Parse
<1> HIDE DEF t
<1>6. Reading' /\ Fresh'
  BY <1>4, <1>5 DEF Reading, Fresh
<1>7. Listing'
  BY <1>5 DEF Listing, NoList
<1> QED BY <1>3, <1>6, <1>7 DEF ReadingInv, ParserInv, Queued

LEMMA RenewInv == ReadingInv /\ Renew => ReadingInv'
<1> SUFFICES ASSUME ReadingInv, Renew PROVE ReadingInv'
  OBVIOUS
<1>1. PICK q \in Loads : queue \in Seq(ToSet(q))
  BY DEF ReadingInv, Queued
<1>2. queue' \in Seq(ToSet(q)) /\ UNCHANGED parserVars
  BY <1>1 DEF Renew
<1> QED BY <1>2 DEF ReadingInv, ParserInv, Reading, Fresh, Listing, Queued, parserVars

LEMMA ElsewhereInv == ReadingInv /\ UNCHANGED <<parserVars, queue>> => ReadingInv'
BY DEF ReadingInv, ParserInv, Reading, Fresh, Listing, Queued, parserVars

LEMMA ReadingStep == ReadingInv /\ [Next]_vars => ReadingInv'
<1> SUFFICES ASSUME ReadingInv, [Next]_vars PROVE ReadingInv'
  OBVIOUS
<1>1. CASE Load
  BY <1>1, LoadInv
<1>2. CASE Renew
  BY <1>2, RenewInv
<1>3. CASE Parsing
  BY <1>3, ParserStepInv DEF Parsing, ReadingInv, Queued
<1>4. CASE Refuse \/ SortRaises \/ MakeRaises \/ ContainRaises \/ FillRaises
  <2>1. \E why : Raise(why)
    BY <1>4 DEF Refuse, SortRaises, MakeRaises, ContainRaises, FillRaises
  <2> QED BY <2>1, ElsewhereInv DEF Raise
<1>5. CASE TakeIn \/ Sorting \/ Sorted \/ Finish
  BY <1>5, ElsewhereInv DEF TakeIn, Sorting, Sorted, Finish
<1>6. CASE UsePredefined \/ MakeInterface \/ Contain \/ Fill
  BY <1>6, ElsewhereInv DEF UsePredefined, MakeInterface, Contain, Fill, Working
<1>7. CASE FirstPass \/ SecondPass
  BY <1>7, ElsewhereInv DEF FirstPass, SecondPass, EnterPass
<1>8. CASE UNCHANGED vars
  BY <1>8, ElsewhereInv DEF vars
<1> QED BY <1>1, <1>2, <1>3, <1>4, <1>5, <1>6, <1>7, <1>8 DEF Next

\* However definitions are written and wherever a text stops being one, what the
\* lexer still gives is the rest of the text in its order: a token is pushed back
\* at most once before it is taken, and it is the one that was read last
\* (Lexer.pushBack, and the methods of Parser that read several tokens in a row).
THEOREM TokensAreReadOnce == Spec => []NothingReadTwice
<1>1. ReadingInv => NothingReadTwice
  BY DEF ReadingInv, ParserInv, Reading, NothingReadTwice, Last
<1> QED BY ReadingInit, ReadingStep, <1>1, PTL DEF Spec

=============================================================================
