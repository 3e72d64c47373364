------------------------------ MODULE MCParts --------------------------------
(* Small instances of the parts: what is sent and answered, and the store the *)
(* sessions of the fake server begin with.                                   *)
EXTENDS Parts, TLC

CONSTANTS s1, s2, x, y, key, one, two

-----------------------------------------------------------------------------
(* Batches: every kind of command and value, a payload that holds newlines,  *)
(* one that is empty, and lists of several values and none.                  *)

NL == <<"newline", 0>>
Byte == <<"byte", 0>>
Val(t, d) == [type |-> t, data |-> d]
Long  == Val("l", <<>>)
Text  == Val("s", <<NL, Byte>>)
Empty == Val("s", <<>>)
Blob  == Val("x", <<Byte, NL>>)
One(v)   == [many |-> FALSE, vals |-> <<v>>]
Many(vs) == [many |-> TRUE, vals |-> vs]
Prop(k, v) == [key |-> k, value |-> v]
Command(op, ps, n) == [op |-> op, props |-> ps, inserts |-> n]

MCBatches ==
  { << Command("add", <<Prop(1, One(Text)), Prop(2, Many(<<Long, Empty>>))>>, 0),
       Command("reorder", <<>>, 2) >>,
    << Command("modify", <<Prop(1, One(Val("None", <<>>))), Prop(2, One(Blob))>>, 0),
       Command("modify", <<Prop(2, Many(<<Blob, Text>>)), Prop(1, One(Long))>>, 0),
       Command("remove", <<>>, 0) >>,
    << Command("modify", <<Prop(1, One(Val("None", <<>>))), Prop(2, Many(<<>>))>>, 0) >> }

(* Answers: an error, the root, which has no parent, a node without          *)
(* properties between others, strings with newlines and empty ones.          *)

State(u, p, cs, ps) == [uuid |-> u, parent |-> p, children |-> cs, props |-> ps]
PropState(k, v) == [many |-> v.many, key |-> k, vals |-> v.vals]

MCAnswers ==
  { <<>>,
    <<State(1, 0, <<2, 3>>, <<PropState(1, One(Text))>>), State(2, 1, <<>>, <<>>)>>,
    <<State(3, 1, <<>>, <<PropState(2, Many(<<Empty, Long>>)), PropState(1, Many(<<>>))>>)>> }

(* A store with a folder that has a property and two children.  Of the two   *)
(* sessions one sends more commands: which of them does not matter.          *)

Node(n, p, l, ps) == [name |-> n, parent |-> p, children |-> l, props |-> ps]
MCStore == 0 :> Node("", 0, <<1>>, <<>>) @@ 1 :> Node(x, 0, <<2, 3>>, key :> one)
             @@ 2 :> Node(x, 1, <<>>, <<>>) @@ 3 :> Node(y, 1, <<>>, <<>>)
MCMaxCommands == s1 :> 2 @@ s2 :> 1
=============================================================================
