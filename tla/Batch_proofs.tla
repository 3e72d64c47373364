---------------------------- MODULE Batch_proofs -----------------------------
(***************************************************************************)
(* BatchProtocol for all batches a connection may send, however the stream *)
(* is cut: the server reads every exchange to its end, executes what was   *)
(* sent, and undoes it when an abort is answered. The lemma Parsing says   *)
(* that a step of the reader goes on to the next place in a batch,         *)
(* answers, or fails on a batch that was cut; BatchInv is the invariant.   *)
(***************************************************************************)
EXTENDS BatchParser_proofs

-----------------------------------------------------------------------------
(* BatchProtocol: a step of the reader while there is something left of a batch. *)

LEMMA PropDataWaits ==
  ASSUME NEW b, NEW i, NEW j, NEW g, AtPropData(b, i, j, g), Buffers, WantsData(OneOf(b, i, j))'
  PROVE  AtPropData(b, i, j, g)'
<1>1. UNCHANGED <<stack, Batch!parse>>
  BY DEF Buffers
<1>2. NoneAfterList => ParsedOne(b, i, j)'
  BY <1>1 DEF AtPropData, ParsedOne, Parsed, Batch!parse
<1> QED BY <1>1, <1>2 DEF AtPropData

LEMMA MultiDataWaits ==
  ASSUME NEW b, NEW i, NEW j, NEW k, NEW g, AtMultiData(b, i, j, k, g), Buffers, WantsData(ListOf(b, i, j)[k + 1])'
  PROVE  AtMultiData(b, i, j, k, g)'
<1>1. UNCHANGED <<stack, Batch!parse>>
  BY DEF Buffers
<1>2. NoneAfterList => ParsedList(b, i, j, k)'
  BY <1>1 DEF AtMultiData, ParsedList, Parsed, Batch!parse
<1> QED BY <1>1, <1>2 DEF AtMultiData

\* The abort comes in the middle of a batch that was cut: an error, and nothing is
\* left of the parse, or the connection is closed.
Failed ==
  /\ UNCHANGED <<client, sent, batches, received>> /\ Flow' = <<>> /\ BytesOK'
  /\ s2c' = <<"!">> /\ (conn' = "closed" \/ WantsLine')

LEMMA TrappedFails ==
  ASSUME Processes(<<<<"r", 0>>>>, <<>>), Batch!Trapped
  PROVE  Failed
BY DEF Processes, Batch!Trapped, Failed

LEMMA AbortFails ==
  ASSUME Processes(<<<<"r", 0>>>>, <<>>), s2c = <<>>, NEW b, NEW i, NEW j, NEW k, NEW g
  PROVE  /\ AtCommand(b, i, g) => Failed
         /\ AtProps(b, i, j, g) => Failed
         /\ AtProp(b, i, j, g) => Failed
         /\ AtPropMulti(b, i, j, k, g) => Failed
         /\ AtInserts(b, i, k, g) => Failed
<1> DEFINE c == <<"r", 0>>
<1>0. c[1] = "r" /\ c # <<"M", 0>>
  OBVIOUS
<1> HIDE DEF c
<1>1. ASSUME AtCommand(b, i, g) PROVE Failed
  <2>1. Batch!ExpectMultipleOne(c, <<>>) /\ bin' = <<>> /\ want' = [kind |-> "line", left |-> 0]
    BY <1>1, CommandStep DEF c
  <2>2. s2c' = Append(s2c, "!") /\ UNCHANGED received
    BY <1>0, <2>1 DEF Batch!ExpectMultipleOne
  <2>3. s2c' = <<"!">>
    BY <2>2
  <2> QED BY <2>1, <2>2, <2>3 DEF Processes, Failed, WantsLine
<1>2. ASSUME AtProps(b, i, j, g) PROVE Failed
  <2>1. Batch!ExpectProps(c, <<"MultipleOne">>)
    BY <1>2, PropsStep DEF c
  <2>2. Batch!Trapped
    BY <1>0, <2>1 DEF Batch!ExpectProps
  <2> QED BY <2>2, TrappedFails
<1>3. ASSUME AtProp(b, i, j, g) PROVE Failed
  <2>1. Batch!ExpectProp(c, <<"MultipleOne", "Props">>)
    BY <1>3, PropStep DEF c
  <2>2. Batch!Trapped
    BY <1>0, <2>1 DEF Batch!ExpectProp
  <2> QED BY <2>2, TrappedFails
<1>4. ASSUME AtPropMulti(b, i, j, k, g) PROVE Failed
  <2>1. Batch!ExpectPropMulti(c, <<"MultipleOne", "Props">>)
    BY <1>4, MultiStep DEF c
  <2>2. Batch!Trapped
    BY <1>0, <2>1 DEF Batch!ExpectPropMulti, Batch!ExpectProp
  <2> QED BY <2>2, TrappedFails
<1>5. ASSUME AtInserts(b, i, k, g) PROVE Failed
  <2>1. Batch!ExpectInserts(c, <<"MultipleOne">>)
    BY <1>5, InsertsStep DEF c
  <2>2. Batch!Trapped
    BY <1>0, <2>1 DEF Batch!ExpectInserts
  <2> QED BY <2>2, TrappedFails
<1> QED BY <1>1, <1>2, <1>3, <1>4, <1>5

\* Lines of the answer of a batch.
Replies(s) == s \in Seq({"token", ".", "!"}) /\ \A i \in 1..(Len(s) - 1) : s[i] = "token"

\* The reader goes on in b, or the batch is answered.
Moves(b, k) ==
  /\ \E g : At(b, g)' /\ Goes(k, Flow', g)
  /\ Batch!Quiet /\ BytesOK' /\ UNCHANGED <<client, sent, batches>>
Responds(b, k) ==
  /\ k = "waiting" /\ Flow' = <<>> /\ BytesOK' /\ UNCHANGED <<client, sent, batches, conn>>
  /\ Synced' /\ Replies(s2c') /\ (NoneAfterList => received' = Got(b, Len(b)))
GoesOn(b, k) == Moves(b, k) \/ Responds(b, k) \/ (k = "aborting" /\ Failed)

LEMMA AtNext ==
  ASSUME NEW b, NEW g, NEW i \in Nat, NEW j \in Nat, NEW k \in Nat
  PROVE  /\ AtCommand(b, i, g)' => At(b, g)'
         /\ AtProps(b, i, j, g)' => At(b, g)'
         /\ AtProp(b, i, j, g)' => At(b, g)'
         /\ AtPropData(b, i, j, g)' => At(b, g)'
         /\ AtPropMulti(b, i, j, k, g)' => At(b, g)'
         /\ AtMultiData(b, i, j, k, g)' => At(b, g)'
         /\ AtInserts(b, i, k, g)' => At(b, g)'
BY Zenon DEF At

LEMMA MovesTo ==
  ASSUME NEW b, NEW k, NEW line, NEW r, Took(k, line, r),
         \A h : Processes(line, h) => At(b, r)' /\ Batch!Quiet
  PROVE  Moves(b, k)
<1>1. PICK h \in Seq(Bytes) : Processes(line, h) /\ Goes(k, h, r)
  BY DEF Took
<1>2. At(b, r)' /\ Batch!Quiet
  BY <1>1
<1>3. UNCHANGED <<client, sent, batches>> /\ Flow' = h /\ BytesOK'
  BY <1>1, Zenon DEF Processes
<1>4. Goes(k, Flow', r)
  BY ONLY <1>1, <1>3, Zenon
<1> QED BY ONLY <1>2, <1>3, <1>4, Zenon DEF Moves

\* A line of the batch is at the front of what is left.
LEMMA LineMoves ==
  ASSUME BytesOK, WantsLine, Processing, NEW b, NEW k, NEW c \in Tags, c # "newline", NEW n \in Nat,
         NEW r \in Seq(Bytes), Goes(k, Flow, Batch!Line(c, n) \o r),
         \A h : Processes(<<<<c, n>>>>, h) => At(b, r)' /\ Batch!Quiet,
         Processes(<<<<"r", 0>>>>, <<>>) /\ Batch!Raisable(<<c, n>>) => Failed
  PROVE  GoesOn(b, k)
<1>1. Took(k, <<<<c, n>>>>, r) \/ (TookAbort(k) /\ Batch!Raisable(<<c, n>>))
  BY TakesLine
<1>2. Took(k, <<<<c, n>>>>, r) => Moves(b, k)
  BY MovesTo
<1>3. TookAbort(k) /\ Batch!Raisable(<<c, n>>) => k = "aborting" /\ Failed
  BY Zenon DEF TookAbort
<1> QED BY ONLY <1>1, <1>2, <1>3, Zenon DEF GoesOn

\* The commands are a sequence all the time.
Listed == \E T : commands \in Seq(T)
Conts  == {"MultipleOne", "Props", "Prop", "PropMulti", "String", "Binary", "Inserts"}

LEMMA ListedNext ==
  ASSUME Listed, commands' = commands \/ commands' = <<>> \/ commands' = Batch!Complete
  PROVE  Listed'
<1>1. PICK T : commands \in Seq(T)
  BY DEF Listed
<1>2. CASE commands' = commands
  BY <1>1, <1>2 DEF Listed
<1>3. CASE commands' = <<>>
  <2>1. commands' \in Seq({})
    BY <1>3
  <2> QED BY <2>1 DEF Listed
<1>4. CASE commands' = Append(commands, command)
  <2> DEFINE U == T \cup {command}
             a == Append(commands, command)
  <2>1. commands \in Seq(U) /\ command \in U
    BY <1>1
  <2> HIDE DEF U
  <2>2. a \in Seq(U)
    BY ONLY <2>1
  <2>3. commands' \in Seq(U)
    BY <1>4, <2>2
  <2> QED BY <2>3 DEF Listed
<1> QED BY <1>2, <1>3, <1>4 DEF Batch!Complete

LEMMA ProcessLists ==
  ASSUME Listed, NEW line, Batch!Process(line), stack = <<>> \/ Batch!Last(stack) \in Conts
  PROVE  Listed'
<1> DEFINE below == Batch!Front(stack)
           Kept == commands' = commands \/ commands' = <<>> \/ commands' = Batch!Complete
           c == line[1]
<1>1. CASE stack = <<>>
  <2>1. Batch!CmdCommand(c)
    BY <1>1 DEF Batch!Process
  <2>2. Kept
    BY <2>1 DEF Batch!CmdCommand, Batch!parse
  <2> QED BY <2>2, ListedNext
<1>2. CASE stack # <<>>
  <2>0. \/ Batch!ExpectMultipleOne(c, below) \/ Batch!ExpectProps(c, below) \/ Batch!ExpectProp(c, below)
        \/ Batch!ExpectPropMulti(c, below) \/ Batch!ExpectInserts(c, below)
        \/ Batch!ExpectData("s", line, below) \/ Batch!ExpectData("x", line, below)
    BY <1>2, Dispatch DEF Conts
  <2> HIDE DEF below, c
  <2>1. \A d, e : Batch!ExpectProp(d, e) => Kept
    BY DEF Batch!ExpectProp, Batch!Trapped, Batch!parse
  <2>2. Batch!ExpectPropMulti(c, below) => Kept
    BY <2>1 DEF Batch!ExpectPropMulti, Batch!parse
  <2>3. Batch!ExpectProps(c, below) => Kept
    BY DEF Batch!ExpectProps, Batch!Trapped, Batch!parse
  <2>4. Batch!ExpectInserts(c, below) => Kept
    BY DEF Batch!ExpectInserts, Batch!Trapped, Batch!parse
  <2>5. \A t : Batch!ExpectData(t, line, below) => Kept
    BY DEF Batch!ExpectData
  <2>6. Batch!ExpectMultipleOne(c, below) => Kept
    BY DEF Batch!ExpectMultipleOne
  <2>7. Kept
    BY <2>0, <2>1, <2>2, <2>3, <2>4, <2>5, <2>6
  <2> QED BY <2>7, ListedNext
<1> QED BY <1>1, <1>2

LEMMA ProcessingLists ==
  ASSUME Listed, Processing, stack = <<>> \/ Batch!Last(stack) \in Conts
  PROVE  Listed'
<1>1. (\E line : Batch!Process(line)) \/ commands' = commands
  <2>1. CASE Batch!ProcessLine
    BY <2>1, Zenon DEF Batch!ProcessLine, Batch!Pass
  <2>2. CASE Batch!ProcessString
    BY <2>2, Zenon DEF Batch!ProcessString, Batch!Pass
  <2>3. CASE Batch!ProcessBinary
    <3> DEFINE n == IF Len(unprocessed) < want.left THEN Len(unprocessed) ELSE want.left
               took == bin \o SubSeq(unprocessed, 1, n)
    <3>1. UNCHANGED Batch!parse \/ Batch!Process(Batch!Front(took)) \/ Batch!Trapped
      BY <2>3, Zenon DEF Batch!ProcessBinary
    <3> HIDE DEF took
    <3> QED BY <3>1, Zenon DEF Batch!Trapped, Batch!parse
  <2> QED BY <2>1, <2>2, <2>3 DEF Processing
<1> QED BY <1>1, ProcessLists, ListedNext

LEMMA AtConts ==
  ASSUME NEW b, NEW g, At(b, g)
  PROVE  stack = <<>> \/ Batch!Last(stack) \in Conts
<1>1. \A v : Cont(v) \in Conts
  BY DEF Cont, Conts
<1>2. /\ "MultipleOne" \in Conts /\ "Props" \in Conts /\ "Prop" \in Conts /\ "PropMulti" \in Conts
      /\ "Inserts" \in Conts
  BY DEF Conts
<1>3. \/ stack = <<>> \/ stack = <<"MultipleOne">> \/ stack = <<"MultipleOne", "Props">>
      \/ stack = <<"MultipleOne", "Props", "Prop">> \/ \E v : stack = <<"MultipleOne", "Props", Cont(v)>>
      \/ stack = <<"MultipleOne", "Props", "PropMulti">> \/ \E v : stack = <<"MultipleOne", "Props", "PropMulti", Cont(v)>>
      \/ stack = <<"MultipleOne", "Inserts">>
  <2>1. AtStart(b, g) => stack = <<>>
    BY Zenon DEF AtStart, Synced
  <2>2. \A i : AtCommand(b, i, g) => stack = <<"MultipleOne">>
    BY Zenon DEF AtCommand
  <2>3. \A i, j : AtProps(b, i, j, g) => stack = <<"MultipleOne", "Props">>
    BY Zenon DEF AtProps
  <2>4. \A i, j : AtProp(b, i, j, g) => stack = <<"MultipleOne", "Props", "Prop">>
    BY Zenon DEF AtProp
  <2>5. \A i, j : AtPropData(b, i, j, g) => \E v : stack = <<"MultipleOne", "Props", Cont(v)>>
    BY Zenon DEF AtPropData
  <2>6. \A i, j, k : AtPropMulti(b, i, j, k, g) => stack = <<"MultipleOne", "Props", "PropMulti">>
    BY Zenon DEF AtPropMulti
  <2>7. \A i, j, k : AtMultiData(b, i, j, k, g) => \E v : stack = <<"MultipleOne", "Props", "PropMulti", Cont(v)>>
    BY Zenon DEF AtMultiData
  <2>8. \A i, k : AtInserts(b, i, k, g) => stack = <<"MultipleOne", "Inserts">>
    BY Zenon DEF AtInserts
  <2>9. CASE AtStart(b, g) \/ \E i \in Nat : AtCommand(b, i, g)
    BY ONLY <2>9, <2>1, <2>2
  <2>10. CASE \E i, j \in Nat : AtProps(b, i, j, g) \/ AtProp(b, i, j, g) \/ AtPropData(b, i, j, g)
    BY ONLY <2>10, <2>3, <2>4, <2>5
  <2>11. CASE \E i, j, k \in Nat : AtPropMulti(b, i, j, k, g) \/ AtMultiData(b, i, j, k, g)
    BY ONLY <2>11, <2>6, <2>7
  <2>12. CASE \E i, k \in Nat : AtInserts(b, i, k, g)
    BY ONLY <2>12, <2>8
  <2> QED BY Zenon, <2>9, <2>10, <2>11, <2>12 DEF At
<1>4. /\ stack = <<"MultipleOne">> => Batch!Last(stack) = "MultipleOne"
      /\ stack = <<"MultipleOne", "Props">> => Batch!Last(stack) = "Props"
      /\ stack = <<"MultipleOne", "Props", "Prop">> => Batch!Last(stack) = "Prop"
      /\ stack = <<"MultipleOne", "Props", "PropMulti">> => Batch!Last(stack) = "PropMulti"
      /\ stack = <<"MultipleOne", "Inserts">> => Batch!Last(stack) = "Inserts"
  BY Stacks
<1>5. \A v : stack = <<"MultipleOne", "Props", Cont(v)>> => Batch!Last(stack) = Cont(v)
  BY Stacks
<1>6. \A v : stack = <<"MultipleOne", "Props", "PropMulti", Cont(v)>> => Batch!Last(stack) = Cont(v)
  BY Stacks
<1> HIDE DEF Conts
<1> QED BY ONLY <1>1, <1>2, <1>3, <1>4, <1>5, <1>6

\* The answer to a batch that is saved.
LEMMA TokensReply ==
  ASSUME NEW T, NEW cs \in Seq(T)
  PROVE  Replies(<<>> \o Batch!Tokens(cs) \o <<".">>)
<1> DEFINE R == {"token", ".", "!"}
           adds == {j \in DOMAIN cs : cs[j].op = "add"}
           n == Cardinality(adds)
           t == Batch!Tokens(cs)
           e == <<".">>
           s == t \o e
<1>1. n \in Nat
  <2>1. DOMAIN cs = 1..Len(cs) /\ Len(cs) \in Nat
    OBVIOUS
  <2>2. IsFiniteSet(1..Len(cs))
    BY <2>1, FS_Interval
  <2>3. IsFiniteSet(adds)
    BY <2>1, <2>2, FS_Subset
  <2> HIDE DEF adds
  <2> QED BY <2>3, FS_CardinalityType
<1>2. t = [i \in 1..n |-> "token"]
  BY Zenon DEF Batch!Tokens, Batch!Cardinality, Cardinality
<1> HIDE DEF n, t
<1>3. t \in Seq(R) /\ Len(t) = n /\ \A i \in 1..n : t[i] = "token"
  BY ONLY <1>1, <1>2
<1>4. e \in Seq(R) /\ Len(e) = 1
  OBVIOUS
<1> HIDE DEF R, e
<1>5. s \in Seq(R) /\ Len(s) = n + 1 /\ \A i \in 1..n : s[i] = "token"
  <2>1. /\ s \in Seq(R) /\ Len(s) = Len(t) + Len(e)
        /\ \A i \in 1..(Len(t) + Len(e)) : s[i] = IF i <= Len(t) THEN t[i] ELSE e[i - Len(t)]
    BY ONLY <1>3, <1>4, ConcatProperties, Zenon
  <2> HIDE DEF s
  <2> QED BY ONLY <1>1, <1>3, <1>4, <2>1
<1>6. <<>> \o t = t
  BY ONLY <1>3, ConcatEmptySeq
<1>7. <<>> \o t \o e = s
  BY ONLY <1>6
<1> HIDE DEF s
<1>8. Replies(s)
  BY ONLY <1>1, <1>5 DEF Replies, R
<1> QED BY ONLY <1>7, <1>8, Zenon DEF t, e

LEMMA StartMoves ==
  ASSUME BytesOK, Processing, NEW b, Batch!IsBatch(b), NEW k, NEW g, AtStart(b, g), Goes(k, Flow, g)
  PROVE  GoesOn(b, k)
<1> DEFINE r == CommandsLeft(b, 0)
<1>1. g = Batch!Line("M", 0) \o r /\ r \in Seq(Bytes) /\ "M" \in Tags
  <2>1. 0 \in 0..Len(b)
    BY BatchHas
  <2> QED BY <2>1, CommandsLeftIs DEF AtStart, Tags
<1>2. WantsLine
  BY DEF AtStart, Synced
<1>3. ASSUME NEW h, Processes(<<<<"M", 0>>>>, h) PROVE At(b, r)' /\ Batch!Quiet
  <2>1. AtCommand(b, 0, r)' /\ Batch!Quiet
    BY <1>3, StartRead
  <2> QED BY <2>1, AtNext
<1>4. ~Batch!Raisable(<<"M", 0>>)
  BY DEF Batch!Raisable
<1> HIDE DEF r
<1>5. Goes(k, Flow, Batch!Line("M", 0) \o r)
  BY <1>1
<1> QED BY <1>1, <1>2, <1>3, <1>4, <1>5, LineMoves

\* The end of the batch.
LEMMA EndAnswers ==
  ASSUME BytesOK, Processing, s2c = <<>>, Listed, NEW b, Batch!IsBatch(b), NEW k, NEW g,
         AtCommand(b, Len(b), g), Goes(k, Flow, g)
  PROVE  Responds(b, k)
<1>1. WantsLine /\ g = Batch!Line(".", 0)
  BY CommandsLeftIs DEF AtCommand
<1>2. "." \in Tags
  BY DEF Tags
<1>3. g = Batch!Line(".", 0) \o <<>> /\ <<>> \in Seq(Bytes)
  <2>1. Batch!Line(".", 0) \in Seq(Bytes)
    BY <1>2, LineIs
  <2> QED BY <1>1, <2>1, BytesJoin
<1>4. ~Batch!Raisable(<<".", 0>>)
  BY DEF Batch!Raisable
<1>5. Took(k, <<<<".", 0>>>>, <<>>)
  <2>1. Goes(k, Flow, Batch!Line(".", 0) \o <<>>)
    BY <1>3
  <2>2. Took(k, <<<<".", 0>>>>, <<>>) \/ (TookAbort(k) /\ Batch!Raisable(<<".", 0>>))
    BY <1>1, <1>2, <1>3, <2>1, TakesLine
  <2> QED BY <1>4, <2>2
<1>6. PICK h \in Seq(Bytes) : Processes(<<<<".", 0>>>>, h) /\ Goes(k, h, <<>>)
  BY <1>5 DEF Took
<1>7. k = "waiting" /\ h = <<>>
  <2>1. CASE k = "waiting"
    BY <1>6, <2>1 DEF Goes
  <2>2. CASE k # "waiting"
    <3>1. PICK p, q \in Seq(Bytes) : <<>> = p \o q /\ q # <<>>
      BY <1>6, <2>2 DEF Goes, Cut
    <3>2. Len(p \o q) = Len(p) + Len(q) /\ Len(p) \in Nat /\ Len(q) \in Nat /\ Len(q) # 0
      <4>1. Len(p \o q) = Len(p) + Len(q)
        BY ONLY <3>1, ConcatProperties, Zenon
      <4>2. Len(p) \in Nat /\ Len(q) \in Nat /\ Len(q) # 0
        BY ONLY <3>1
      <4> QED BY <4>1, <4>2
    <3>3. Len(p \o q) = 0
      <4>1. Len(<<>>) = 0
        OBVIOUS
      <4> QED BY ONLY <3>1, <4>1, Zenon
    <3> QED BY <3>2, <3>3
  <2> QED BY <2>1, <2>2
<1>8. Batch!ExpectMultipleOne(<<".", 0>>, <<>>) /\ bin' = <<>> /\ want' = [kind |-> "line", left |-> 0]
  BY <1>6, CommandStep
<1>9. /\ command' = Batch!NoCommand /\ stack' = <<>> \o <<>> /\ Batch!ProcessMultipleCommands(Batch!Complete)
  BY <1>8 DEF Batch!ExpectMultipleOne, Batch!Push
<1>10. Synced'
  <2>1. stack' = <<>>
    BY <1>9
  <2> QED BY <1>8, <1>9, <2>1 DEF Synced, WantsLine
<1>11. NoneAfterList => received' = Got(b, Len(b))
  BY <1>9 DEF Batch!ProcessMultipleCommands, AtCommand
<1>12. Replies(s2c') /\ conn' = conn
  <2>1. PICK T : commands \in Seq(T)
    BY DEF Listed
  <2>2. \E U : Batch!Complete \in Seq(U)
    <3> DEFINE U == T \cup {command}
               a == Append(commands, command)
    <3>1. commands \in Seq(U) /\ command \in U
      BY <2>1
    <3> HIDE DEF U
    <3>2. a \in Seq(U)
      BY ONLY <3>1
    <3>3. Batch!Complete \in Seq(U)
      BY ONLY <3>1, <3>2, Zenon DEF Batch!Complete
    <3> QED BY <3>3
  <2>3. PICK U : Batch!Complete \in Seq(U)
    BY <2>2
  <2>4. Replies(<<>> \o Batch!Tokens(Batch!Complete) \o <<".">>)
    BY ONLY <2>3, TokensReply
  <2>5. \/ s2c' = Append(<<>>, "!") \/ s2c' = <<>> \o Batch!Tokens(Batch!Complete) \o <<".">>
    BY <1>9, Zenon DEF Batch!ProcessMultipleCommands
  <2>6. Replies(Append(<<>>, "!"))
    <3>1. Append(<<>>, "!") = <<"!">>
      OBVIOUS
    <3>2. Replies(<<"!">>)
      BY DEF Replies
    <3> QED BY <3>1, <3>2
  <2> QED BY ONLY <1>9, <2>4, <2>5, <2>6, Zenon DEF Batch!ProcessMultipleCommands
<1> QED BY <1>6, <1>7, <1>10, <1>11, <1>12, Zenon DEF Responds, Processes

LEMMA CommandMoves ==
  ASSUME BytesOK, Processing, s2c = <<>>, Listed, NEW b, Batch!IsBatch(b), NEW k, NEW i, NEW g,
         AtCommand(b, i, g), Goes(k, Flow, g)
  PROVE  GoesOn(b, k)
<1> DEFINE c == b[i + 1]
           r == CommandsLeft(b, i + 1)
<1>0. WantsLine /\ i \in 0..Len(b) /\ g = CommandsLeft(b, i) /\ Len(b) \in Nat
  BY BatchHas DEF AtCommand
<1>1. CASE i = Len(b)
  <2>1. Responds(b, k)
    BY <1>1, EndAnswers
  <2> QED BY <2>1 DEF GoesOn
<1>2. CASE i # Len(b)
  <2>0. i < Len(b) /\ i \in Nat /\ i + 1 \in Nat /\ i + 1 \in 1..Len(b) /\ i + 1 \in 0..Len(b) /\ i \in 0..(Len(b) - 1)
    BY <1>0, <1>2
  <2>1. Batch!IsCommand(c) /\ r \in Seq(Bytes) /\ g = Batch!SendCommand(c) \o r
    BY <1>0, <2>0, BatchHas, CommandsLeftIs
  <2>2. CommandKinds(c)
    BY <2>1, CommandHas
  <2>3. CASE c.op \in {"add", "modify"}
    <3> DEFINE s == PropsRest(b, i, 0)
               o == Batch!Opening[c.op]
    <3>1. PropsLeft(c.props, 0) \in Seq(Bytes)
      <4>1. 0 \in 0..Len(c.props)
        BY <2>1, CommandHas
      <4> QED BY <2>2, <4>1, PropsLeftIs DEF CommandKinds
    <3>2. s \in Seq(Bytes) /\ s = PropsLeft(c.props, 0) \o r
      BY <2>1, <3>1, BytesJoin DEF PropsRest
    <3>8. \A h \in Seq(Bytes) : Batch!SendCommand(c) \o h = Batch!Line(o, 1) \o (PropsLeft(c.props, 0) \o h)
      BY ONLY <2>1, <2>3, CommandIs
    <3>3. g = Batch!Line(o, 1) \o s
      BY ONLY <2>1, <3>2, <3>8, Zenon
    <3>4. o \in Tags /\ o # "newline"
      <4>1. o = "+" \/ o = "/"
        BY <2>3 DEF Batch!Opening
      <4> HIDE DEF o
      <4> QED BY <4>1 DEF Tags
    <3>5. ASSUME NEW h, Processes(<<<<o, 1>>>>, h) PROVE At(b, s)' /\ Batch!Quiet
      <4>1. AtProps(b, i, 0, s)' /\ Batch!Quiet
        BY <2>0, <2>3, <3>5, CommandOpens
      <4> QED BY <2>0, <4>1, AtNext
    <3>6. Processes(<<<<"r", 0>>>>, <<>>) => Failed
      BY AbortFails
    <3> HIDE DEF s, o
    <3>7. Goes(k, Flow, Batch!Line(o, 1) \o s)
      BY <3>3
    <3> QED BY ONLY BytesOK, Processing, <1>0, <3>2, <3>4, <3>5, <3>6, <3>7, LineMoves
  <2>4. CASE c.op = "remove"
    <3>1. g = Batch!Line("-", 1) \o r
      BY <2>1, <2>4, CommandIs
    <3>2. "-" \in Tags
      BY DEF Tags
    <3>3. ASSUME NEW h, Processes(<<<<"-", 1>>>>, h) PROVE At(b, r)' /\ Batch!Quiet
      <4>1. AtCommand(b, i + 1, r)' /\ Batch!Quiet
        BY <2>0, <2>4, <3>3, CommandRemoves
      <4> QED BY <2>0, <4>1, AtNext
    <3>4. Processes(<<<<"r", 0>>>>, <<>>) => Failed
      BY AbortFails
    <3> HIDE DEF r
    <3>5. Goes(k, Flow, Batch!Line("-", 1) \o r)
      BY <3>1
    <3> QED BY <1>0, <2>1, <3>2, <3>3, <3>4, <3>5, LineMoves
  <2>5. CASE c.op = "reorder"
    <3> DEFINE s == InsertsLeft(c.inserts, 0) \o r
    <3>1. InsertsLeft(c.inserts, 0) \in Seq(Bytes)
      <4>1. c.inserts \in Nat
        BY <2>2 DEF CommandKinds
      <4>2. 0 \in 0..c.inserts
        BY <4>1
      <4> QED BY <4>1, <4>2, InsertsLeftIs
    <3>2. s \in Seq(Bytes)
      BY ONLY <2>1, <3>1, BytesJoin
    <3>3. g = Batch!Line("%", 1) \o s
      BY ONLY <2>1, <2>5, CommandIs
    <3>4. "%" \in Tags
      BY DEF Tags
    <3>5. ASSUME NEW h, Processes(<<<<"%", 1>>>>, h) PROVE At(b, s)' /\ Batch!Quiet
      <4>1. AtInserts(b, i, 0, s)' /\ Batch!Quiet
        BY <2>0, <2>5, <3>5, CommandReorders
      <4> QED BY <2>0, <4>1, AtNext
    <3>6. Processes(<<<<"r", 0>>>>, <<>>) => Failed
      BY AbortFails
    <3> HIDE DEF s
    <3>7. Goes(k, Flow, Batch!Line("%", 1) \o s)
      BY <3>3
    <3> QED BY <1>0, <3>2, <3>4, <3>5, <3>6, <3>7, LineMoves
  <2> QED BY <2>2, <2>3, <2>4, <2>5 DEF CommandKinds
<1> QED BY <1>1, <1>2

LEMMA PropsRestIs ==
  ASSUME NEW b, Batch!IsBatch(b), NEW i, HasProps(b, i)
  PROVE  /\ \A j \in 0..Len(b[i + 1].props) : PropsRest(b, i, j) \in Seq(Bytes)
         /\ \A j \in 0..(Len(b[i + 1].props) - 1) :
              PropsRest(b, i, j) = Batch!SendProp(PropOf(b, i, j)) \o PropsRest(b, i, j + 1)
         /\ PropsRest(b, i, Len(b[i + 1].props)) = Batch!Line(",", 0) \o CommandsLeft(b, i + 1)
         /\ CommandsLeft(b, i + 1) \in Seq(Bytes)
<1> DEFINE ps == b[i + 1].props
           n == Len(ps)
           c == CommandsLeft(b, i + 1)
<1>1. ps \in Seq(Batch!Props) /\ n \in Nat /\ i + 1 \in 0..Len(b) /\ \A j \in 1..n : IsProp(ps[j])
  BY PropsHas
<1>2. c \in Seq(Bytes)
  BY <1>1, CommandsLeftIs
<1>3. \A j : PropsRest(b, i, j) = PropsLeft(ps, j) \o c
  BY DEF PropsRest
<1>4. \A j : PropOf(b, i, j) = ps[j + 1]
  BY DEF PropOf
<1> HIDE DEF ps, n, c
<1>5. /\ \A j \in 0..n : PropsLeft(ps, j) \in Seq(Bytes)
      /\ \A j \in 0..(n - 1) : PropsLeft(ps, j) = Batch!SendProp(ps[j + 1]) \o PropsLeft(ps, j + 1)
      /\ PropsLeft(ps, n) = Batch!Line(",", 0)
  BY ONLY <1>1, PropsLeftIs DEF n
<1>6. \A j \in 0..n : PropsRest(b, i, j) \in Seq(Bytes)
  <2> TAKE j \in 0..n
  <2> DEFINE l == PropsLeft(ps, j)
  <2>1. l \in Seq(Bytes) /\ PropsRest(b, i, j) = l \o c
    BY <1>3, <1>5
  <2> HIDE DEF l
  <2>2. l \o c \in Seq(Bytes)
    BY ONLY <1>2, <2>1, BytesJoin
  <2> QED BY ONLY <2>1, <2>2, Zenon
<1>7. \A j \in 0..(n - 1) : PropsRest(b, i, j) = Batch!SendProp(PropOf(b, i, j)) \o PropsRest(b, i, j + 1)
  <2> TAKE j \in 0..(n - 1)
  <2> DEFINE s == Batch!SendProp(ps[j + 1])
             l == PropsLeft(ps, j + 1)
  <2>1. j + 1 \in 0..n /\ j + 1 \in 1..n
    BY ONLY <1>1, j \in 0..(n - 1)
  <2>2. s \in Seq(Bytes) /\ l \in Seq(Bytes)
    BY <1>1, <1>5, <2>1, PropIs
  <2>3. PropsRest(b, i, j) = (s \o l) \o c /\ PropsRest(b, i, j + 1) = l \o c
    BY <1>3, <1>5
  <2> HIDE DEF s, l
  <2>4. (s \o l) \o c = s \o (l \o c)
    <3>1. Assoc(s, l, c)
      BY ONLY <1>2, <2>2, AssocIs
    <3> QED BY ONLY <3>1 DEF Assoc
  <2>5. Batch!SendProp(PropOf(b, i, j)) = s
    BY <1>4 DEF s
  <2> QED BY ONLY <2>3, <2>4, <2>5, Zenon
<1>8. PropsRest(b, i, n) = Batch!Line(",", 0) \o c
  BY <1>3, <1>5
<1> QED BY ONLY <1>2, <1>6, <1>7, <1>8 DEF ps, n, c

LEMMA PropsMove ==
  ASSUME BytesOK, Processing, s2c = <<>>, NEW b \in Batches, Batch!IsBatch(b), NEW k, NEW i \in Nat, NEW j \in Nat, NEW g,
         AtProps(b, i, j, g), Goes(k, Flow, g)
  PROVE  GoesOn(b, k)
<1> DEFINE p == PropOf(b, i, j)
           n == Len(b[i + 1].props)
           r == PropsRest(b, i, j + 1)
<1>0. WantsLine /\ HasProps(b, i) /\ j \in 0..n /\ g = PropsRest(b, i, j)
  BY DEF AtProps
<1>1. n \in Nat /\ \A m \in 1..n : IsProp(b[i + 1].props[m])
  BY <1>0, PropsHas
<1>2. Processes(<<<<"r", 0>>>>, <<>>) => Failed
  BY AbortFails
<1>3. CASE j = n
  <2> DEFINE c == CommandsLeft(b, i + 1)
  <2>1. g = Batch!Line(",", 0) \o c /\ c \in Seq(Bytes)
    BY <1>0, <1>3, PropsRestIs
  <2>2. "," \in Tags
    BY DEF Tags
  <2>3. ASSUME NEW h, Processes(<<<<",", 0>>>>, h) PROVE At(b, c)' /\ Batch!Quiet
    <3>1. AtCommand(b, i + 1, c)' /\ Batch!Quiet
      BY <1>3, <2>3, PropsEnd
    <3>2. i + 1 \in Nat
      OBVIOUS
    <3> QED BY <3>1, <3>2, AtNext
  <2> HIDE DEF c
  <2>4. Goes(k, Flow, Batch!Line(",", 0) \o c)
    BY <2>1
  <2> QED BY <1>0, <1>2, <2>1, <2>2, <2>3, <2>4, LineMoves
<1>4. CASE j # n
  <2>0. j \in 0..(n - 1) /\ j + 1 \in 1..n /\ j + 1 \in 0..n /\ j < n /\ j + 1 \in Nat
    BY <1>0, <1>1, <1>4
  <2>1. g = Batch!SendProp(p) \o r /\ r \in Seq(Bytes)
    BY <1>0, <2>0, PropsRestIs
  <2>2. IsProp(p)
    BY <1>1, <2>0 DEF PropOf
  <2>3. p.key \in Nat /\ (ListProp(p) \/ NoProp(p) \/ OneProp(p))
    BY <2>2, PropKinds
  <2>4. ListProp(p) => HasList(b, i, j)
    BY <1>0, <2>0 DEF HasList, PropOf
  <2>5. OneProp(p) => HasOne(b, i, j)
    BY <1>0, <2>0 DEF HasOne, PropOf
  <2>6. CASE ListProp(p)
    <3> DEFINE s == ValuesLeft(ListOf(b, i, j), 0) \o r
    <3>1. ListOf(b, i, j) = p.value.vals /\ ListOf(b, i, j) \in Seq(Batch!SentValues)
      BY <2>4, <2>6, ListHas DEF ListOf, PropOf
    <3>2. ValuesLeft(ListOf(b, i, j), 0) \in Seq(Bytes)
      <4>1. Len(ListOf(b, i, j)) \in Nat
        BY <2>4, <2>6, ListHas
      <4>2. 0 \in 0..Len(ListOf(b, i, j))
        BY <4>1
      <4> QED BY <3>1, <4>2, ValuesLeftIs
    <3>3. s \in Seq(Bytes)
      BY ONLY <2>1, <3>2, BytesJoin
    <3>4. \A h \in Seq(Bytes) : Batch!SendProp(p) \o h = Batch!Line("M", p.key) \o (ValuesLeft(p.value.vals, 0) \o h)
      BY ONLY <2>2, <2>6, PropIs
    <3>5. g = Batch!Line("M", p.key) \o s
      BY ONLY <2>1, <3>1, <3>4, Zenon
    <3>6. "M" \in Tags
      BY DEF Tags
    <3>7. ASSUME NEW h, Processes(<<<<"M", p.key>>>>, h) PROVE At(b, s)' /\ Batch!Quiet
      <4>1. AtPropMulti(b, i, j, 0, s)' /\ Batch!Quiet
        BY <2>4, <2>6, <3>7, PropsList
      <4> QED BY <4>1, AtNext
    <3> HIDE DEF s, p
    <3>8. Goes(k, Flow, Batch!Line("M", p.key) \o s)
      BY <3>5
    <3> QED BY ONLY BytesOK, Processing, <1>0, <1>2, <2>3, <3>3, <3>6, <3>7, <3>8, LineMoves
  <2>7. CASE NoProp(p)
    <3>1. g = Batch!Line("D", p.key) \o r
      BY <2>1, <2>2, <2>7, PropIs
    <3>2. "D" \in Tags
      BY DEF Tags
    <3>3. ASSUME NEW h, Processes(<<<<"D", p.key>>>>, h) PROVE At(b, r)' /\ Batch!Quiet
      <4>1. AtProps(b, i, j + 1, r)' /\ Batch!Quiet
        BY <2>0, <2>7, <3>3, PropsNone
      <4> QED BY <2>0, <4>1, AtNext
    <3> HIDE DEF r, p
    <3>4. Goes(k, Flow, Batch!Line("D", p.key) \o r)
      BY <3>1
    <3> QED BY ONLY BytesOK, Processing, <1>0, <1>2, <2>1, <2>3, <3>2, <3>3, <3>4, LineMoves
  <2>8. CASE OneProp(p)
    <3> DEFINE s == Batch!SendOneProp(OneOf(b, i, j)) \o r
    <3>1. OneOf(b, i, j) = p.value.vals[1] /\ OneOf(b, i, j) \in Batch!SentValues
      BY <2>5, <2>8, OneHas DEF OneOf, PropOf
    <3>2. Batch!SendOneProp(OneOf(b, i, j)) \in Seq(Bytes)
      BY <3>1, ValueIs
    <3>3. s \in Seq(Bytes)
      BY ONLY <2>1, <3>2, BytesJoin
    <3>4. \A h \in Seq(Bytes) : Batch!SendProp(p) \o h = Batch!Line("P", p.key) \o (Batch!SendOneProp(p.value.vals[1]) \o h)
      BY ONLY <2>2, <2>8, PropIs
    <3>5. g = Batch!Line("P", p.key) \o s
      BY ONLY <2>1, <3>1, <3>4, Zenon
    <3>6. "P" \in Tags
      BY DEF Tags
    <3>7. ASSUME NEW h, Processes(<<<<"P", p.key>>>>, h) PROVE At(b, s)' /\ Batch!Quiet
      <4>1. AtProp(b, i, j, s)' /\ Batch!Quiet
        BY <2>5, <2>8, <3>7, PropsOne
      <4> QED BY <4>1, AtNext
    <3> HIDE DEF s, p
    <3>8. Goes(k, Flow, Batch!Line("P", p.key) \o s)
      BY <3>5
    <3> QED BY ONLY BytesOK, Processing, <1>0, <1>2, <2>3, <3>3, <3>6, <3>7, <3>8, LineMoves
  <2> QED BY <2>3, <2>6, <2>7, <2>8
<1> QED BY <1>3, <1>4

LEMMA DataJoins ==
  ASSUME NEW d \in Seq(Bytes), NEW e \in Seq(Bytes), NEW r \in Seq(Bytes)
  PROVE  (d \o e) \o r \in Seq(Bytes) /\ (d \o e) \o r = d \o (e \o r)
<1>1. Assoc(d, e, r)
  BY AssocIs
<1>2. d \o e \in Seq(Bytes) /\ (d \o e) \o r = d \o (e \o r)
  BY <1>1 DEF Assoc
<1>3. (d \o e) \o r \in Seq(Bytes)
  BY ONLY <1>2, r \in Seq(Bytes), BytesJoin
<1> QED BY <1>2, <1>3

LEMMA PropMoves ==
  ASSUME BytesOK, Processing, s2c = <<>>, NEW b, Batch!IsBatch(b), NEW k, NEW i \in Nat, NEW j \in Nat, NEW g,
         AtProp(b, i, j, g), Goes(k, Flow, g)
  PROVE  GoesOn(b, k)
<1> DEFINE v == OneOf(b, i, j)
           r == PropsRest(b, i, j + 1)
<1>0. WantsLine /\ HasOne(b, i, j) /\ g = Batch!SendOneProp(v) \o r
  BY DEF AtProp
<1>1. v \in Batch!SentValues /\ HasProps(b, i) /\ j + 1 \in 0..Len(b[i + 1].props) /\ j + 1 \in Nat
  BY <1>0, OneHas
<1>2. r \in Seq(Bytes)
  BY <1>1, PropsRestIs
<1>3. Processes(<<<<"r", 0>>>>, <<>>) => Failed
  BY AbortFails
<1>4. CASE v.type = "l"
  <2>1. g = Batch!Line("l", 0) \o r
    BY <1>0, <1>1, <1>4, ValueIs
  <2>2. "l" \in Tags
    BY DEF Tags
  <2>3. ASSUME NEW h, Processes(<<<<"l", 0>>>>, h) PROVE At(b, r)' /\ Batch!Quiet
    <3>1. AtProps(b, i, j + 1, r)' /\ Batch!Quiet
      BY <1>4, <2>3, PropLine
    <3> QED BY <1>1, <3>1, AtNext
  <2> HIDE DEF r
  <2>4. Goes(k, Flow, Batch!Line("l", 0) \o r)
    BY <2>1
  <2> QED BY ONLY BytesOK, Processing, <1>0, <1>2, <1>3, <2>2, <2>3, <2>4, LineMoves
<1>5. CASE v.type # "l"
  <2> DEFINE s == (v.data \o <<Batch!NL>>) \o r
  <2>1. v.data \in Seq(Bytes) /\ Len(v.data) \in Nat /\ v.type \in {"s", "x"}
    <3>1. v.type \in {"s", "x", "l"} /\ v.data \in Seq(Batch!Payload) /\ v.data \in Seq(Bytes)
      BY <1>1, ValueIs
    <3>2. Len(v.data) \in Nat
      BY ONLY <3>1, PayloadIs
    <3> QED BY <1>5, <3>1, <3>2
  <2>2. \A h \in Seq(Bytes) :
          Batch!SendOneProp(v) \o h = Batch!Line(v.type, Len(v.data)) \o (v.data \o (<<Batch!NL>> \o h))
    BY ONLY <1>1, <1>5, ValueIs
  <2>3. <<Batch!NL>> \in Seq(Bytes)
    <3>1. Batch!NL \in Bytes
      BY DEF Batch!NL, Bytes, Tags
    <3> QED BY <3>1
  <2>4. s \in Seq(Bytes) /\ s = v.data \o (<<Batch!NL>> \o r)
    BY <1>2, <2>1, <2>3, DataJoins
  <2>5. g = Batch!Line(v.type, Len(v.data)) \o s
    BY ONLY <1>0, <1>2, <2>2, <2>4, Zenon
  <2>6. v.type \in Tags /\ v.type # "newline"
    BY <2>1 DEF Tags
  <2>7. ASSUME NEW h, Processes(<<<<v.type, Len(v.data)>>>>, h) PROVE At(b, s)' /\ Batch!Quiet
    <3>1. AtPropData(b, i, j, s)' /\ Batch!Quiet
      BY <1>5, <2>7, PropLength
    <3> QED BY <3>1, AtNext
  <2> HIDE DEF s, v
  <2>8. Goes(k, Flow, Batch!Line(v.type, Len(v.data)) \o s)
    BY <2>5
  <2> QED BY ONLY BytesOK, Processing, <1>0, <1>3, <2>1, <2>4, <2>6, <2>7, <2>8, LineMoves
<1> QED BY <1>4, <1>5

\* Data moves on when all of it has come.
LEMMA DataMoves ==
  ASSUME BytesOK, Processing, NEW b, NEW k, NEW v \in Batch!SentValues, v.type # "l", WantsData(v),
         NEW r \in Seq(Bytes), Goes(k, Flow, (v.data \o <<Batch!NL>>) \o r),
         \A h : Processes(v.data, h) => At(b, r)' /\ Batch!Quiet,
         Buffers /\ WantsData(v)' => At(b, (v.data \o <<Batch!NL>>) \o r)'
  PROVE  GoesOn(b, k)
<1> DEFINE g == (v.data \o <<Batch!NL>>) \o r
<1>1. Took(k, v.data, r) \/ (Buffers /\ WantsData(v)')
  BY TakesData
<1>2. Took(k, v.data, r) => Moves(b, k)
  BY MovesTo
<1>3. Goes(k, Flow, g) /\ (Buffers /\ WantsData(v)' => At(b, g)')
  OBVIOUS
<1> HIDE DEF g
<1>4. Buffers /\ WantsData(v)' => Moves(b, k)
  <2> SUFFICES ASSUME Buffers, WantsData(v)' PROVE Moves(b, k)
    OBVIOUS
  <2>1. UNCHANGED <<client, sent, batches>> /\ Batch!Quiet /\ Flow' = Flow /\ BytesOK'
    BY Zenon DEF Buffers, Batch!Quiet
  <2>2. At(b, g)'
    BY <1>3
  <2>3. Goes(k, Flow', g)
    BY ONLY <1>3, <2>1, Zenon
  <2> QED BY ONLY <2>1, <2>2, <2>3, Zenon DEF Moves
<1> QED BY ONLY <1>1, <1>2, <1>4, Zenon DEF GoesOn

LEMMA PropDataMoves ==
  ASSUME BytesOK, Processing, NEW b, Batch!IsBatch(b), NEW k, NEW i \in Nat, NEW j \in Nat, NEW g,
         AtPropData(b, i, j, g), Goes(k, Flow, g)
  PROVE  GoesOn(b, k)
<1> DEFINE v == OneOf(b, i, j)
           r == PropsRest(b, i, j + 1)
<1>0. WantsData(v) /\ v.type # "l" /\ HasOne(b, i, j) /\ g = (v.data \o <<Batch!NL>>) \o r
  BY DEF AtPropData
<1>1. v \in Batch!SentValues /\ HasProps(b, i) /\ j + 1 \in 0..Len(b[i + 1].props) /\ j + 1 \in Nat
  BY <1>0, OneHas
<1>2. r \in Seq(Bytes)
  BY <1>1, PropsRestIs
<1>3. ASSUME NEW h, Processes(v.data, h) PROVE At(b, r)' /\ Batch!Quiet
  <2>1. AtProps(b, i, j + 1, r)' /\ Batch!Quiet
    BY <1>3, PropData
  <2> QED BY <1>1, <2>1, AtNext
<1>4. Buffers /\ WantsData(v)' => At(b, g)'
  <2>1. ASSUME Buffers, WantsData(v)' PROVE AtPropData(b, i, j, g)'
    BY <2>1, PropDataWaits
  <2>2. AtPropData(b, i, j, g)' => At(b, g)'
    BY AtNext
  <2> QED BY <2>1, <2>2
<1> HIDE DEF v, r
<1>5. Goes(k, Flow, (v.data \o <<Batch!NL>>) \o r) /\ (Buffers /\ WantsData(v)' => At(b, (v.data \o <<Batch!NL>>) \o r)')
  BY <1>0, <1>4
<1> QED BY ONLY BytesOK, Processing, <1>0, <1>1, <1>2, <1>3, <1>5, DataMoves

LEMMA ListRestIs ==
  ASSUME NEW b, Batch!IsBatch(b), NEW i, NEW j, HasList(b, i, j)
  PROVE  /\ \A m \in 0..Len(ListOf(b, i, j)) : ValuesLeft(ListOf(b, i, j), m) \o PropsRest(b, i, j + 1) \in Seq(Bytes)
         /\ \A m \in 0..(Len(ListOf(b, i, j)) - 1) :
              ValuesLeft(ListOf(b, i, j), m) \o PropsRest(b, i, j + 1)
                = Batch!SendOneProp(ListOf(b, i, j)[m + 1])
                    \o (ValuesLeft(ListOf(b, i, j), m + 1) \o PropsRest(b, i, j + 1))
         /\ ValuesLeft(ListOf(b, i, j), Len(ListOf(b, i, j))) = Batch!Line("M", 0)
         /\ PropsRest(b, i, j + 1) \in Seq(Bytes)
<1> DEFINE vs == ListOf(b, i, j)
           n == Len(vs)
           c == PropsRest(b, i, j + 1)
<1>1. vs \in Seq(Batch!SentValues) /\ n \in Nat /\ HasProps(b, i) /\ j + 1 \in 0..Len(b[i + 1].props)
  BY ListHas
<1>2. c \in Seq(Bytes)
  BY <1>1, PropsRestIs
<1> HIDE DEF vs, n, c
<1>5. /\ \A m \in 1..n : vs[m] \in Batch!SentValues
      /\ \A m \in 0..n : ValuesLeft(vs, m) \in Seq(Bytes)
      /\ \A m \in 0..(n - 1) : ValuesLeft(vs, m) = Batch!SendOneProp(vs[m + 1]) \o ValuesLeft(vs, m + 1)
      /\ ValuesLeft(vs, n) = Batch!Line("M", 0)
  BY ONLY <1>1, ValuesLeftIs DEF n
<1>6. \A m \in 0..n : ValuesLeft(vs, m) \o c \in Seq(Bytes)
  <2> TAKE m \in 0..n
  <2> DEFINE l == ValuesLeft(vs, m)
  <2>1. l \in Seq(Bytes)
    BY <1>5
  <2> HIDE DEF l
  <2>2. l \o c \in Seq(Bytes)
    BY ONLY <1>2, <2>1, BytesJoin
  <2> QED BY ONLY <2>2 DEF l
<1>7. \A m \in 0..(n - 1) : ValuesLeft(vs, m) \o c = Batch!SendOneProp(vs[m + 1]) \o (ValuesLeft(vs, m + 1) \o c)
  <2> TAKE m \in 0..(n - 1)
  <2> DEFINE s == Batch!SendOneProp(vs[m + 1])
             l == ValuesLeft(vs, m + 1)
  <2>1. m + 1 \in 0..n /\ m + 1 \in 1..n
    BY ONLY <1>1, m \in 0..(n - 1)
  <2>2. s \in Seq(Bytes) /\ l \in Seq(Bytes)
    BY <1>5, <2>1, ValueIs
  <2>3. ValuesLeft(vs, m) = s \o l
    BY <1>5
  <2> HIDE DEF s, l
  <2>4. (s \o l) \o c = s \o (l \o c)
    <3>1. Assoc(s, l, c)
      BY ONLY <1>2, <2>2, AssocIs
    <3> QED BY ONLY <3>1 DEF Assoc
  <2> QED BY ONLY <2>3, <2>4, Zenon DEF s, l
<1> QED BY ONLY <1>2, <1>5, <1>6, <1>7 DEF vs, n, c

LEMMA MultiMoves ==
  ASSUME BytesOK, Processing, s2c = <<>>, NEW b, Batch!IsBatch(b), NEW k, NEW i \in Nat, NEW j \in Nat, NEW m \in Nat,
         NEW g, AtPropMulti(b, i, j, m, g), Goes(k, Flow, g)
  PROVE  GoesOn(b, k)
<1> DEFINE vs == ListOf(b, i, j)
           r == ValuesLeft(vs, m + 1) \o PropsRest(b, i, j + 1)
           v == vs[m + 1]
<1>0. WantsLine /\ HasList(b, i, j) /\ m \in 0..Len(vs) /\ g = ValuesLeft(vs, m) \o PropsRest(b, i, j + 1)
  BY DEF AtPropMulti
<1>1. vs \in Seq(Batch!SentValues) /\ Len(vs) \in Nat /\ j + 1 \in Nat
  BY <1>0, ListHas
<1>2. Processes(<<<<"r", 0>>>>, <<>>) => Failed
  BY AbortFails
<1>3. CASE m = Len(vs)
  <2> DEFINE c == PropsRest(b, i, j + 1)
  <2>1. g = Batch!Line("M", 0) \o c /\ c \in Seq(Bytes)
    BY <1>0, <1>3, ListRestIs
  <2>2. "M" \in Tags
    BY DEF Tags
  <2>3. ASSUME NEW h, Processes(<<<<"M", 0>>>>, h) PROVE At(b, c)' /\ Batch!Quiet
    <3>1. AtProps(b, i, j + 1, c)' /\ Batch!Quiet
      BY <1>3, <2>3, MultiEnd
    <3> QED BY <1>1, <3>1, AtNext
  <2> HIDE DEF c
  <2>4. Goes(k, Flow, Batch!Line("M", 0) \o c)
    BY <2>1
  <2> QED BY ONLY BytesOK, Processing, <1>0, <1>2, <2>1, <2>2, <2>3, <2>4, LineMoves
<1>4. CASE m # Len(vs)
  <2>0. m \in 0..(Len(vs) - 1) /\ m + 1 \in 1..Len(vs) /\ m + 1 \in 0..Len(vs) /\ m < Len(vs) /\ m + 1 \in Nat
    BY <1>0, <1>1, <1>4
  <2>1. g = Batch!SendOneProp(v) \o r /\ r \in Seq(Bytes)
    BY <1>0, <2>0, ListRestIs
  <2>2. v \in Batch!SentValues
    BY <1>1, <2>0, ValuesLeftIs
  <2>3. CASE v.type = "l"
    <3>1. g = Batch!Line("l", 0) \o r
      BY <2>1, <2>2, <2>3, ValueIs
    <3>2. "l" \in Tags
      BY DEF Tags
    <3>3. ASSUME NEW h, Processes(<<<<"l", 0>>>>, h) PROVE At(b, r)' /\ Batch!Quiet
      <4>1. AtPropMulti(b, i, j, m + 1, r)' /\ Batch!Quiet
        BY <2>0, <2>3, <3>3, MultiLine
      <4> QED BY <2>0, <4>1, AtNext
    <3> HIDE DEF r
    <3>4. Goes(k, Flow, Batch!Line("l", 0) \o r)
      BY <3>1
    <3> QED BY ONLY BytesOK, Processing, <1>0, <1>2, <2>1, <3>2, <3>3, <3>4, LineMoves
  <2>4. CASE v.type # "l"
    <3> DEFINE s == (v.data \o <<Batch!NL>>) \o r
    <3>1. v.data \in Seq(Bytes) /\ Len(v.data) \in Nat /\ v.type \in {"s", "x"}
      <4>1. v.type \in {"s", "x", "l"} /\ v.data \in Seq(Batch!Payload) /\ v.data \in Seq(Bytes)
        BY <2>2, ValueIs
      <4>2. Len(v.data) \in Nat
        BY ONLY <4>1, PayloadIs
      <4> QED BY <2>4, <4>1, <4>2
    <3>2. \A h \in Seq(Bytes) :
            Batch!SendOneProp(v) \o h = Batch!Line(v.type, Len(v.data)) \o (v.data \o (<<Batch!NL>> \o h))
      BY ONLY <2>2, <2>4, ValueIs
    <3>3. <<Batch!NL>> \in Seq(Bytes)
      <4>1. Batch!NL \in Bytes
        BY DEF Batch!NL, Bytes, Tags
      <4> QED BY <4>1
    <3>4. s \in Seq(Bytes) /\ s = v.data \o (<<Batch!NL>> \o r)
      BY <2>1, <3>1, <3>3, DataJoins
    <3>5. g = Batch!Line(v.type, Len(v.data)) \o s
      BY ONLY <2>1, <3>2, <3>4, Zenon
    <3>6. v.type \in Tags /\ v.type # "newline"
      BY <3>1 DEF Tags
    <3>7. ASSUME NEW h, Processes(<<<<v.type, Len(v.data)>>>>, h) PROVE At(b, s)' /\ Batch!Quiet
      <4>1. AtMultiData(b, i, j, m, s)' /\ Batch!Quiet
        BY <2>0, <2>4, <3>7, MultiLength
      <4> QED BY <4>1, AtNext
    <3> HIDE DEF s, v
    <3>8. Goes(k, Flow, Batch!Line(v.type, Len(v.data)) \o s)
      BY <3>5
    <3> QED BY ONLY BytesOK, Processing, <1>0, <1>2, <3>1, <3>4, <3>6, <3>7, <3>8, LineMoves
  <2> QED BY <2>3, <2>4
<1> QED BY <1>3, <1>4

LEMMA MultiDataMoves ==
  ASSUME BytesOK, Processing, NEW b, Batch!IsBatch(b), NEW k, NEW i \in Nat, NEW j \in Nat, NEW m \in Nat, NEW g,
         AtMultiData(b, i, j, m, g), Goes(k, Flow, g)
  PROVE  GoesOn(b, k)
<1> DEFINE vs == ListOf(b, i, j)
           v == vs[m + 1]
           r == ValuesLeft(vs, m + 1) \o PropsRest(b, i, j + 1)
<1>0. WantsData(v) /\ v.type # "l" /\ HasList(b, i, j) /\ m \in 0..(Len(vs) - 1) /\ g = (v.data \o <<Batch!NL>>) \o r
  BY DEF AtMultiData
<1>1. vs \in Seq(Batch!SentValues) /\ Len(vs) \in Nat /\ m + 1 \in Nat
  BY <1>0, ListHas
<1>2. m + 1 \in 1..Len(vs) /\ m + 1 \in 0..Len(vs)
  BY <1>0, <1>1
<1>3. v \in Batch!SentValues /\ r \in Seq(Bytes)
  <2>1. v \in Batch!SentValues
    BY ONLY <1>1, <1>2, ValuesLeftIs
  <2>2. r \in Seq(Bytes)
    BY <1>0, <1>2, ListRestIs
  <2> QED BY <2>1, <2>2
<1>4. ASSUME NEW h, Processes(v.data, h) PROVE At(b, r)' /\ Batch!Quiet
  <2>1. AtPropMulti(b, i, j, m + 1, r)' /\ Batch!Quiet
    BY <1>4, MultiData
  <2> QED BY <1>1, <2>1, AtNext
<1>5. Buffers /\ WantsData(v)' => At(b, g)'
  <2>1. ASSUME Buffers, WantsData(v)' PROVE AtMultiData(b, i, j, m, g)'
    BY <2>1, MultiDataWaits
  <2>2. AtMultiData(b, i, j, m, g)' => At(b, g)'
    BY AtNext
  <2> QED BY <2>1, <2>2
<1> HIDE DEF v, r
<1>6. Goes(k, Flow, (v.data \o <<Batch!NL>>) \o r) /\ (Buffers /\ WantsData(v)' => At(b, (v.data \o <<Batch!NL>>) \o r)')
  BY <1>0, <1>5
<1> QED BY ONLY BytesOK, Processing, <1>0, <1>3, <1>4, <1>6, DataMoves

LEMMA InsertsMove ==
  ASSUME BytesOK, Processing, s2c = <<>>, NEW b, Batch!IsBatch(b), NEW k, NEW i \in Nat, NEW m \in Nat,
         NEW g, AtInserts(b, i, m, g), Goes(k, Flow, g)
  PROVE  GoesOn(b, k)
<1> DEFINE n == b[i + 1].inserts
           c == CommandsLeft(b, i + 1)
<1>0. WantsLine /\ i \in 0..(Len(b) - 1) /\ b[i + 1].op = "reorder" /\ m \in 0..n /\ g = InsertsLeft(n, m) \o c
  BY DEF AtInserts
<1>1. n \in Nat /\ i + 1 \in 0..Len(b)
  BY <1>0, InsertsHas
<1>2. Processes(<<<<"r", 0>>>>, <<>>) => Failed
  BY AbortFails
<1>3. c \in Seq(Bytes)
  BY <1>1, CommandsLeftIs
<1>4. CASE m = n
  <2>1. g = Batch!Line("%", 0) \o c
    BY <1>0, <1>1, <1>4, InsertsLeftIs
  <2>2. "%" \in Tags
    BY DEF Tags
  <2>3. ASSUME NEW h, Processes(<<<<"%", 0>>>>, h) PROVE At(b, c)' /\ Batch!Quiet
    <3>1. AtCommand(b, i + 1, c)' /\ Batch!Quiet
      BY <1>4, <2>3, InsertsEnd
    <3>2. i + 1 \in Nat
      OBVIOUS
    <3> QED BY <3>1, <3>2, AtNext
  <2> HIDE DEF c
  <2>4. Goes(k, Flow, Batch!Line("%", 0) \o c)
    BY <2>1
  <2> QED BY ONLY BytesOK, Processing, <1>0, <1>2, <1>3, <2>2, <2>3, <2>4, LineMoves
<1>5. CASE m # n
  <2> DEFINE l == InsertsLeft(n, m + 1)
             r == l \o c
  <2>0. m \in 0..(n - 1) /\ m + 1 \in 0..n /\ m < n /\ m + 1 \in Nat
    BY <1>0, <1>1, <1>5
  <2>1. l \in Seq(Bytes) /\ InsertsLeft(n, m) = Batch!Line("insert", 0) \o l
    BY <1>1, <2>0, InsertsLeftIs
  <2>2. "insert" \in Tags
    BY DEF Tags
  <2>3. Batch!Line("insert", 0) \in Seq(Bytes)
    BY <2>2, LineIs
  <2>4. ASSUME NEW h, Processes(<<<<"insert", 0>>>>, h) PROVE At(b, r)' /\ Batch!Quiet
    <3>1. AtInserts(b, i, m + 1, r)' /\ Batch!Quiet
      BY <2>0, <2>4, InsertsNext
    <3> QED BY <2>0, <3>1, AtNext
  <2>5. r \in Seq(Bytes) /\ g = Batch!Line("insert", 0) \o r
    <3> DEFINE w == Batch!Line("insert", 0)
    <3>1. w \in Seq(Bytes) /\ g = (w \o l) \o c
      BY <1>0, <2>1, <2>3
    <3> HIDE DEF w, l, c
    <3>2. (w \o l) \o c = w \o (l \o c) /\ l \o c \in Seq(Bytes)
      BY ONLY <1>3, <2>1, <3>1, AssocIs DEF Assoc
    <3> QED BY ONLY <3>1, <3>2 DEF w
  <2> HIDE DEF r
  <2>6. Goes(k, Flow, Batch!Line("insert", 0) \o r)
    BY <2>5
  <2> QED BY ONLY BytesOK, Processing, <1>0, <1>2, <2>2, <2>4, <2>5, <2>6, LineMoves
<1> QED BY <1>4, <1>5

\* A step of the reader while g is left of b.
LEMMA Parsing ==
  ASSUME BytesOK, Processing, s2c = <<>>, Listed, NEW b \in Batches, NEW k, NEW g, At(b, g), Goes(k, Flow, g)
  PROVE  GoesOn(b, k)
<1>0. Batch!IsBatch(b)
  BY BatchesAssumption
<1>1. CASE AtStart(b, g)
  BY <1>0, <1>1, StartMoves
<1>2. ASSUME NEW i \in Nat, AtCommand(b, i, g) PROVE GoesOn(b, k)
  BY <1>0, <1>2, CommandMoves
<1>3. ASSUME NEW i \in Nat, NEW j \in Nat, AtProps(b, i, j, g) PROVE GoesOn(b, k)
  BY <1>0, <1>3, PropsMove
<1>4. ASSUME NEW i \in Nat, NEW j \in Nat, AtProp(b, i, j, g) PROVE GoesOn(b, k)
  BY <1>0, <1>4, PropMoves
<1>5. ASSUME NEW i \in Nat, NEW j \in Nat, AtPropData(b, i, j, g) PROVE GoesOn(b, k)
  BY <1>0, <1>5, PropDataMoves
<1>6. ASSUME NEW i \in Nat, NEW j \in Nat, NEW m \in Nat, AtPropMulti(b, i, j, m, g) PROVE GoesOn(b, k)
  BY <1>0, <1>6, MultiMoves
<1>7. ASSUME NEW i \in Nat, NEW j \in Nat, NEW m \in Nat, AtMultiData(b, i, j, m, g) PROVE GoesOn(b, k)
  BY <1>0, <1>7, MultiDataMoves
<1>8. ASSUME NEW i \in Nat, NEW m \in Nat, AtInserts(b, i, m, g) PROVE GoesOn(b, k)
  BY <1>0, <1>8, InsertsMove
<1> QED BY <1>1, <1>2, <1>3, <1>4, <1>5, <1>6, <1>7, <1>8, Zenon DEF At

-----------------------------------------------------------------------------
(* BatchProtocol: the invariant.                                            *)

\* Nothing of a batch or an abort is left to read.
AllRead == Synced /\ Flow = <<>>

\* A batch goes on, to its end, or cut where the controller raised.
WholeBatch ==
  client = "waiting" /\ s2c = <<>> /\ sent \in Batches /\ received = <<>> /\ At(sent, Flow)
CutBatch ==
  /\ client \in {"raised", "aborting"} /\ s2c = <<>> /\ sent = <<>> /\ received = <<>>
  /\ \E b \in Batches : \E g : At(b, g) /\ Goes(client, Flow, g)

\* An abort that does not come in the middle of a batch.
CleanAbort ==
  client = "aborting" /\ \/ s2c = <<>> /\ Synced /\ Flow = Batch!Line("r", 0)
                         \/ s2c \in {<<>>, <<".">>} /\ AllRead /\ kept = 0
BrokenAbort ==
  /\ client \in {"aborting", "failed"} /\ s2c \in {<<>>, <<"!">>}
  /\ conn = "closed" \/ (Flow = <<>> /\ WantsLine)

Exchange ==
  \/ client \in {"idle", "raised"} /\ AllRead /\ s2c = <<>>
  \/ WholeBatch
  \/ client = "waiting" /\ AllRead /\ Replies(s2c)
  \/ CutBatch \/ CleanAbort \/ BrokenAbort

BatchInv ==
  /\ BytesOK /\ Listed /\ (sent = <<>> \/ sent \in Batches)
  /\ NoneAfterList => received = <<>> \/ received = Got(sent, Len(sent))
  /\ Exchange

LEMMA FlowEmpty ==
  ASSUME BytesOK
  PROVE  Flow = <<>> <=> bin = <<>> /\ unprocessed = <<>> /\ c2s = <<>>
<1>1. unprocessed \in Seq(Bytes) /\ c2s \in Seq(Bytes) /\ bin \in Seq(Bytes) /\ Unread \in Seq(Bytes)
  BY FlowIs DEF BytesOK
<1>2. Flow = <<>> <=> bin = <<>> /\ Unread = <<>>
  BY ONLY <1>1, ConcatSimplifications, ConcatEmptySeq, BytesJoin DEF Flow
<1>3. Unread = <<>> <=> unprocessed = <<>> /\ c2s = <<>>
  BY ONLY <1>1, ConcatSimplifications, ConcatEmptySeq, BytesJoin DEF Unread
<1> QED BY <1>2, <1>3

\* What is sent comes after all the rest.
LEMMA FlowSent ==
  ASSUME BytesOK, NEW w \in Seq(Bytes), c2s' = c2s \o w, UNCHANGED <<unprocessed, bin>>
  PROVE  Flow' = Flow \o w /\ BytesOK'
<1>1. unprocessed \in Seq(Bytes) /\ c2s \in Seq(Bytes) /\ bin \in Seq(Bytes)
  BY DEF BytesOK
<1>2. c2s \o w \in Seq(Bytes)
  BY ONLY <1>1, w \in Seq(Bytes), BytesJoin
<1>3. BytesOK'
  BY <1>1, <1>2 DEF BytesOK
<1>4. Unread \in Seq(Bytes) /\ Unread' = Unread \o w
  <2>1. Unread' = unprocessed \o (c2s \o w)
    BY DEF Unread
  <2>2. Assoc(unprocessed, c2s, w)
    BY ONLY <1>1, w \in Seq(Bytes), AssocIs
  <2> QED BY ONLY <2>1, <2>2, Zenon DEF Assoc, Unread
<1>5. Flow' = Flow \o w
  <2>1. Flow' = bin \o (Unread \o w)
    BY <1>4 DEF Flow
  <2>2. Assoc(bin, Unread, w)
    BY ONLY <1>1, <1>4, w \in Seq(Bytes), AssocIs
  <2> QED BY ONLY <2>1, <2>2, Zenon DEF Assoc, Flow
<1> QED BY <1>3, <1>5

\* A chunk moves from the socket to the buffer.
LEMMA FlowRead ==
  ASSUME BytesOK, NEW n \in 1..Len(c2s), Batch!Read(n)
  PROVE  Flow' = Flow /\ BytesOK'
<1> DEFINE x == SubSeq(c2s, 1, n)
           y == SubSeq(c2s, n + 1, Len(c2s))
<1>1. unprocessed \in Seq(Bytes) /\ c2s \in Seq(Bytes) /\ bin \in Seq(Bytes)
  BY DEF BytesOK
<1>2. unprocessed' = unprocessed \o x /\ c2s' = y /\ bin' = bin
  BY DEF Batch!Read
<1>3. x \in Seq(Bytes) /\ y \in Seq(Bytes)
  BY ONLY <1>1, n \in 1..Len(c2s)
<1>4. x \o y = c2s
  <2>1. Len(c2s) \in Nat
    BY ONLY <1>1
  <2>2. 1 \in 1..(Len(c2s) + 1) /\ n \in (1 - 1)..Len(c2s) /\ Len(c2s) \in n..Len(c2s)
    BY ONLY <2>1, n \in 1..Len(c2s)
  <2>3. x \o y = SubSeq(c2s, 1, Len(c2s))
    BY ONLY <1>1, <2>2, ConcatAdjacentSubSeq
  <2>4. SubSeq(c2s, 1, Len(c2s)) = c2s
    BY ONLY <1>1, SubSeqFull
  <2> QED BY <2>3, <2>4
<1> HIDE DEF x, y
<1>5. Unread' = Unread
  <2>1. Unread' = (unprocessed \o x) \o y
    BY <1>2 DEF Unread
  <2>2. (unprocessed \o x) \o y = unprocessed \o (x \o y)
    <3>1. Assoc(unprocessed, x, y)
      BY ONLY <1>1, <1>3, AssocIs
    <3> QED BY ONLY <3>1 DEF Assoc
  <2> QED BY <1>4, <2>1, <2>2 DEF Unread
<1>6. Flow' = Flow
  BY <1>2, <1>5 DEF Flow
<1>7. unprocessed \o x \in Seq(Bytes)
  BY ONLY <1>1, <1>3, BytesJoin
<1> QED BY <1>1, <1>2, <1>3, <1>6, <1>7 DEF BytesOK

\* When the parser is at a place, and nothing of its state changes, it stays there.
LEMMA AtStays ==
  ASSUME NEW b, NEW g, At(b, g), UNCHANGED <<bin, want, stack, Batch!parse>>
  PROVE  At(b, g)'
<1>1. UNCHANGED <<bin, want, stack, commands, command, prop_name, prop_value, prop_values>>
  BY DEF Batch!parse
<1>2. WantsLine' = WantsLine /\ Pending' = Pending /\ Batch!Complete' = Batch!Complete
  BY <1>1 DEF WantsLine, Pending, Batch!Complete
<1>3. \A v : WantsData(v)' = WantsData(v)
  BY <1>1 DEF WantsData, WantsBinary
<1>4. \A i, j : ListOnly(b, i, j)' = ListOnly(b, i, j)
  BY <1>1 DEF ListOnly
<1>5. \A i, n, key : Parsed(b, i, n, key)' = Parsed(b, i, n, key)
  BY <1>1 DEF Parsed
<1>6. /\ \A i, j : ParsedOne(b, i, j)' = ParsedOne(b, i, j)
      /\ \A i, j, m : ParsedList(b, i, j, m)' = ParsedList(b, i, j, m)
  BY <1>1, <1>5 DEF ParsedOne, ParsedList
<1>7. \A i : AtCommand(b, i, g) => AtCommand(b, i, g)'
  BY <1>1, <1>2, <1>4 DEF AtCommand
<1>8. \A i, j : AtProps(b, i, j, g) => AtProps(b, i, j, g)'
  BY <1>1, <1>2, <1>4, <1>5 DEF AtProps
<1>9. \A i, j : AtProp(b, i, j, g) => AtProp(b, i, j, g)'
  BY <1>1, <1>2, <1>6 DEF AtProp
<1>10. \A i, j : AtPropData(b, i, j, g) => AtPropData(b, i, j, g)'
  BY <1>1, <1>3, <1>6 DEF AtPropData
<1>11. \A i, j, m : AtPropMulti(b, i, j, m, g) => AtPropMulti(b, i, j, m, g)'
  BY <1>1, <1>2, <1>6 DEF AtPropMulti
<1>12. \A i, j, m : AtMultiData(b, i, j, m, g) => AtMultiData(b, i, j, m, g)'
  BY <1>1, <1>3, <1>6 DEF AtMultiData
<1>13. \A i, m : AtInserts(b, i, m, g) => AtInserts(b, i, m, g)'
  BY <1>1, <1>2, <1>4 DEF AtInserts
<1>14. AtStart(b, g) => AtStart(b, g)'
  BY <1>1, <1>2 DEF AtStart, Synced
<1> QED BY ONLY <1>7, <1>8, <1>9, <1>10, <1>11, <1>12, <1>13, <1>14, At(b, g), Zenon DEF At

LEMMA SyncedStays ==
  ASSUME UNCHANGED <<bin, want, stack, Batch!parse>>
  PROVE  (Synced => Synced') /\ (WantsLine => WantsLine')
BY DEF Synced, WantsLine, Batch!parse

\* Nothing happens to the exchange when only saved and conn change.
LEMMA ExchangeStays ==
  ASSUME BatchInv, UNCHANGED <<client, sent, batches, s2c, received, bin, want, stack, Batch!parse>>,
         Flow' = Flow, BytesOK', kept' \in {kept, 0}, conn' \in {conn, "closed"}
  PROVE  BatchInv'
<1>1. (Synced => Synced') /\ (WantsLine => WantsLine') /\ (AllRead => AllRead')
  BY SyncedStays DEF AllRead
<1>2. WholeBatch => WholeBatch'
  BY AtStays DEF WholeBatch
<1>3. CutBatch => CutBatch'
  <2> SUFFICES ASSUME CutBatch PROVE CutBatch'
    OBVIOUS
  <2>1. PICK b, g : b \in Batches /\ At(b, g) /\ Goes(client, Flow, g)
    BY DEF CutBatch
  <2>2. At(b, g)'
    BY <2>1, AtStays
  <2>3. Goes(client', Flow', g)
    BY <2>1
  <2> QED BY <2>1, <2>2, <2>3 DEF CutBatch
<1>4. CleanAbort => CleanAbort'
  BY <1>1 DEF CleanAbort
<1>5. BrokenAbort => BrokenAbort'
  BY <1>1 DEF BrokenAbort
<1>6. Exchange'
  BY <1>1, <1>2, <1>3, <1>4, <1>5 DEF Exchange, BatchInv
<1>7. Listed'
  BY DEF Listed, Batch!parse, BatchInv
<1> QED BY <1>6, <1>7 DEF BatchInv

LEMMA InvSendBatch ==
  ASSUME BatchInv, NEW b \in Batches, Batch!SendBatch(b)
  PROVE  BatchInv'
<1> DEFINE w == Batch!SendCommands(b)
<1>0. /\ BytesOK /\ client = "idle" /\ client' = "waiting" /\ sent' = b /\ received' = <<>>
      /\ c2s' = c2s \o w /\ UNCHANGED <<s2c, conn, unprocessed, want, bin, stack, Batch!parse, kept>>
  BY DEF BatchInv, Batch!SendBatch, Batch!ServerSame, Batch!reader
<1>1. AllRead /\ s2c = <<>>
  BY <1>0 DEF BatchInv, Exchange, WholeBatch, CutBatch, CleanAbort, BrokenAbort
<1>2. Batch!IsBatch(b)
  BY BatchesAssumption
<1>3. w \in Seq(Bytes)
  BY <1>2, CommandsLeftIs
<1>4. Flow' = Flow \o w /\ BytesOK'
  BY <1>0, <1>3, FlowSent
<1>5. Flow' = w
  BY <1>1, <1>3, <1>4, BytesJoin DEF AllRead
<1>6. AtStart(sent, Flow)'
  <2>1. Synced'
    BY <1>0, <1>1, SyncedStays DEF AllRead
  <2> QED BY <1>0, <1>5, <2>1 DEF AtStart
<1>7. At(sent, Flow)'
  BY <1>6 DEF At
<1>8. WholeBatch'
  BY <1>0, <1>1, <1>7 DEF WholeBatch
<1>9. Listed'
  BY <1>0 DEF Listed, Batch!parse, BatchInv
<1> QED BY <1>0, <1>4, <1>8, <1>9 DEF BatchInv, Exchange

LEMMA InvSendRaises ==
  ASSUME BatchInv, NEW b \in Batches, NEW i \in 2..Len(Batch!SendCommands(b)), Batch!SendRaises(b, i)
  PROVE  BatchInv'
<1> DEFINE s == Batch!SendCommands(b)
           w == SubSeq(s, 1, i - 1)
           q == SubSeq(s, i, Len(s))
<1>0. /\ BytesOK /\ client = "idle" /\ client' = "raised" /\ sent' = <<>> /\ received' = <<>>
      /\ c2s' = c2s \o w /\ UNCHANGED <<s2c, conn, unprocessed, want, bin, stack, Batch!parse, kept>>
  BY DEF BatchInv, Batch!SendRaises, Batch!ServerSame, Batch!reader
<1>1. AllRead /\ s2c = <<>>
  BY <1>0 DEF BatchInv, Exchange, WholeBatch, CutBatch, CleanAbort, BrokenAbort
<1>2. Batch!IsBatch(b)
  BY BatchesAssumption
<1>3. s \in Seq(Bytes) /\ i \in 2..Len(s) /\ Batch!Raisable(s[i])
  BY <1>2, CommandsLeftIs DEF Batch!SendRaises
<1>4. AtStart(b, s)'
  <2>1. Synced'
    BY <1>0, <1>1, SyncedStays DEF AllRead
  <2> QED BY <2>1 DEF AtStart
<1>5. At(b, s)'
  BY <1>4 DEF At
<1> HIDE DEF s
<1>6. w \in Seq(Bytes) /\ q \in Seq(Bytes) /\ Len(q) = Len(s) - i + 1 /\ q[1] = s[i] /\ Len(s) \in Nat
  BY ONLY <1>3
<1>7. s = w \o q
  <2>1. 1 \in 1..(Len(s) + 1) /\ i - 1 \in (1 - 1)..Len(s) /\ Len(s) \in (i - 1)..Len(s) /\ (i - 1) + 1 = i
    BY ONLY <1>3, <1>6
  <2>2. SubSeq(s, 1, i - 1) \o SubSeq(s, (i - 1) + 1, Len(s)) = SubSeq(s, 1, Len(s))
    BY ONLY <1>3, <2>1, ConcatAdjacentSubSeq
  <2>3. SubSeq(s, 1, Len(s)) = s
    BY ONLY <1>3, SubSeqFull
  <2> QED BY <2>1, <2>2, <2>3
<1> HIDE DEF w, q
<1>8. q # <<>>
  <2>1. Len(q) # 0
    BY ONLY <1>3, <1>6
  <2> QED BY <2>1
<1>9. Flow' = w /\ BytesOK'
  <2>1. Flow' = Flow \o w /\ BytesOK'
    BY <1>0, <1>6, FlowSent
  <2> QED BY <1>1, <1>6, <2>1, BytesJoin DEF AllRead
<1>10. Goes("raised", w, s)
  <2>1. w = w \o <<>>
    BY <1>6, BytesJoin
  <2>2. Cut(w, s, <<>>)
    BY ONLY <1>3, <1>6, <1>7, <1>8, <2>1, Zenon DEF Cut
  <2> QED BY <2>2 DEF Goes, After
<1>11. Goes(client', Flow', s)
  BY <1>0, <1>9, <1>10
<1>12. CutBatch'
  BY <1>0, <1>1, <1>5, <1>11 DEF CutBatch
<1>13. Listed'
  BY <1>0 DEF Listed, Batch!parse, BatchInv
<1> QED BY <1>0, <1>9, <1>12, <1>13 DEF BatchInv, Exchange

LEMMA InvSendAbort ==
  ASSUME BatchInv, Batch!SendAbort
  PROVE  BatchInv'
<1> DEFINE w == Batch!Line("r", 0)
<1>0. /\ BytesOK /\ client \in {"idle", "raised"} /\ client' = "aborting" /\ UNCHANGED <<sent, received, s2c>>
      /\ c2s' = c2s \o w /\ UNCHANGED <<conn, unprocessed, want, bin, stack, Batch!parse, kept>>
  BY DEF BatchInv, Batch!SendAbort, Batch!ServerSame, Batch!reader
<1>1. w \in Seq(Bytes)
  <2>1. "r" \in Tags
    BY DEF Tags
  <2> QED BY <2>1, LineIs
<1>2. Flow' = Flow \o w /\ BytesOK'
  BY <1>0, <1>1, FlowSent
<1>3. (AllRead /\ s2c = <<>>) \/ CutBatch
  BY <1>0 DEF BatchInv, Exchange, WholeBatch, CleanAbort, BrokenAbort
<1>4. ASSUME AllRead /\ s2c = <<>> PROVE Exchange'
  <2>1. Flow' = w
    BY <1>1, <1>2, <1>4, BytesJoin DEF AllRead
  <2>2. Synced'
    BY <1>0, <1>4, SyncedStays DEF AllRead
  <2>3. CleanAbort'
    BY <1>0, <1>4, <2>1, <2>2 DEF CleanAbort
  <2> QED BY <2>3 DEF Exchange
<1>5. ASSUME CutBatch PROVE Exchange'
  <2>1. PICK b, g : b \in Batches /\ At(b, g) /\ Goes(client, Flow, g)
    BY <1>5 DEF CutBatch
  <2>2. client = "raised"
    BY <1>0, <1>5 DEF CutBatch
  <2>3. Cut(Flow, g, <<>>)
    BY <2>1, <2>2 DEF Goes, After
  <2>4. PICK p, q \in Seq(Bytes) : g = p \o q /\ Flow = p \o <<>> /\ q # <<>> /\ Batch!Raisable(q[1])
    BY <2>3, Zenon DEF Cut
  <2>5. Flow' = p \o w
    BY <1>2, <2>4, BytesJoin
  <2> HIDE DEF w
  <2>6. Cut(Flow', g, w)
    BY ONLY <2>4, <2>5, Zenon DEF Cut
  <2>7. Goes(client', Flow', g)
    BY <1>0, <2>6 DEF Goes, After, w
  <2>8. At(b, g)'
    BY <1>0, <2>1, AtStays
  <2>9. CutBatch'
    BY <1>0, <1>5, <2>1, <2>7, <2>8 DEF CutBatch
  <2> QED BY <2>9 DEF Exchange
<1>6. Listed'
  BY <1>0 DEF Listed, Batch!parse, BatchInv
<1> QED BY <1>0, <1>2, <1>3, <1>4, <1>5, <1>6 DEF BatchInv

\* What is left of an answer when a line of it has been read.
LEMMA RepliesTail ==
  ASSUME NEW s, Replies(s), s # <<>>
  PROVE  /\ Head(s) \in {"token", ".", "!"} /\ Replies(Tail(s))
         /\ Head(s) # "token" => Tail(s) = <<>>
<1> DEFINE R == {"token", ".", "!"}
           t == Tail(s)
<1>1. s \in Seq(R) /\ \A i \in 1..(Len(s) - 1) : s[i] = "token"
  BY DEF Replies
<1> HIDE DEF R
<1>2. Head(s) \in R /\ Head(s) = s[1] /\ Len(s) \in Nat /\ Len(s) >= 1
  BY ONLY <1>1, s # <<>>
<1>3. t \in Seq(R) /\ Len(t) = Len(s) - 1 /\ \A i \in 1..(Len(s) - 1) : t[i] = s[i + 1]
  BY ONLY <1>1, s # <<>>
<1> HIDE DEF t
<1>4. Replies(t)
  <2>1. \A i \in 1..(Len(t) - 1) : t[i] = "token"
    <3> TAKE i \in 1..(Len(t) - 1)
    <3>1. i \in 1..(Len(s) - 1) /\ i + 1 \in 1..(Len(s) - 1)
      BY <1>2, <1>3
    <3> QED BY <1>1, <1>3, <3>1
  <2> QED BY <1>3, <2>1 DEF Replies, R
<1>5. ASSUME Head(s) # "token" PROVE t = <<>>
  <2>1. 1 \notin 1..(Len(s) - 1)
    BY <1>1, <1>2, <1>5
  <2>2. Len(t) = 0
    BY <1>2, <1>3, <2>1
  <2> QED BY <1>3, <2>2
<1> QED BY <1>2, <1>4, <1>5 DEF R, t

LEMMA InvReadReply ==
  ASSUME BatchInv, Batch!ReadReply
  PROVE  BatchInv' /\ (client = "aborting" /\ client' = "idle" => kept = 0)
<1>0. /\ BytesOK /\ client \in {"waiting", "aborting"} /\ s2c # <<>> /\ s2c' = Tail(s2c)
      /\ client' = CASE Head(s2c) = "token" -> client
                     [] Head(s2c) = "." -> "idle"
                     [] Head(s2c) = "!" -> IF client = "waiting" THEN "raised" ELSE "failed"
      /\ UNCHANGED <<c2s, sent, received, conn, unprocessed, want, bin, stack, Batch!parse, kept>>
  BY DEF BatchInv, Batch!ReadReply, Batch!ServerSame, Batch!reader
<1>1. (Synced => Synced') /\ (WantsLine => WantsLine') /\ Flow' = Flow /\ BytesOK'
  BY <1>0, SyncedStays DEF Flow, Unread, BytesOK
<1>2. Listed'
  BY <1>0 DEF Listed, Batch!parse, BatchInv
<1>3. \/ client = "waiting" /\ AllRead /\ Replies(s2c)
      \/ CleanAbort \/ BrokenAbort
  BY <1>0 DEF BatchInv, Exchange, WholeBatch, CutBatch
<1>4. CASE client = "waiting" /\ AllRead /\ Replies(s2c)
  <2>1. /\ Head(s2c) \in {"token", ".", "!"} /\ Replies(s2c')
        /\ Head(s2c) # "token" => s2c' = <<>>
    BY <1>0, <1>4, RepliesTail
  <2>2. AllRead'
    BY <1>1, <1>4 DEF AllRead
  <2>3. CASE Head(s2c) = "token"
    <3>1. client' = "waiting"
      BY <1>0, <1>4, <2>3
    <3> QED BY <1>0, <1>1, <1>2, <1>4, <2>1, <2>2, <3>1 DEF BatchInv, Exchange
  <2>4. CASE Head(s2c) = "."
    <3>1. client' = "idle"
      BY <1>0, <2>4
    <3> QED BY <1>0, <1>1, <1>2, <1>4, <2>1, <2>2, <2>4, <3>1 DEF BatchInv, Exchange
  <2>5. CASE Head(s2c) = "!"
    <3>1. client' = "raised"
      BY <1>0, <1>4, <2>5
    <3> QED BY <1>0, <1>1, <1>2, <1>4, <2>1, <2>2, <2>5, <3>1 DEF BatchInv, Exchange
  <2> QED BY <2>1, <2>3, <2>4, <2>5
<1>5. CASE CleanAbort
  <2>1. client = "aborting" /\ AllRead /\ s2c = <<".">> /\ kept = 0
    BY <1>0, <1>5 DEF CleanAbort
  <2>2. Head(s2c) = "." /\ Tail(s2c) = <<>>
    BY <2>1
  <2>3. client' = "idle" /\ s2c' = <<>>
    BY <1>0, <2>2
  <2>4. AllRead'
    BY <1>1, <2>1 DEF AllRead
  <2> QED BY <1>0, <1>1, <1>2, <2>1, <2>3, <2>4 DEF BatchInv, Exchange
<1>6. CASE BrokenAbort
  <2>1. client = "aborting" /\ s2c = <<"!">> /\ (conn = "closed" \/ (Flow = <<>> /\ WantsLine))
    BY <1>0, <1>6 DEF BrokenAbort
  <2>2. Head(s2c) = "!" /\ Tail(s2c) = <<>>
    BY <2>1
  <2>3. client' = "failed" /\ s2c' = <<>>
    BY <1>0, <2>1, <2>2
  <2>4. BrokenAbort'
    BY <1>0, <1>1, <2>1, <2>3 DEF BrokenAbort
  <2> QED BY <1>0, <1>1, <1>2, <2>1, <2>3, <2>4 DEF BatchInv, Exchange
<1> QED BY <1>3, <1>4, <1>5, <1>6

LEMMA InvDisconnected ==
  ASSUME BatchInv, Batch!Disconnected
  PROVE  BatchInv' /\ client' # "idle"
<1>0. /\ BytesOK /\ s2c = <<>> /\ conn = "closed" /\ client' = "failed"
      /\ UNCHANGED <<c2s, s2c, sent, received, conn, unprocessed, want, bin, stack, Batch!parse, kept>>
  BY DEF BatchInv, Batch!Disconnected, Batch!ServerSame, Batch!reader, Batch!net
<1>1. BytesOK' /\ Listed'
  BY <1>0 DEF BytesOK, Listed, Batch!parse, BatchInv
<1>2. BrokenAbort'
  BY <1>0 DEF BrokenAbort
<1> QED BY <1>0, <1>1, <1>2 DEF BatchInv, Exchange

LEMMA InvRead ==
  ASSUME BatchInv, NEW n \in 1..Len(c2s), Batch!Read(n)
  PROVE  BatchInv' /\ client' = client
<1>1. Flow' = Flow /\ BytesOK'
  BY FlowRead DEF BatchInv
<1>2. UNCHANGED <<client, sent, batches, s2c, conn, want, bin, stack, Batch!parse, received, kept>>
  BY DEF Batch!Read
<1> QED BY <1>1, <1>2, ExchangeStays

LEMMA InvServerEnds ==
  ASSUME BatchInv, Batch!ServerEnds
  PROVE  BatchInv' /\ client' = client
<1>0. /\ UNCHANGED <<client, sent, batches, c2s, unprocessed, want, bin, stack, Batch!parse, received>>
      /\ conn' = "closed" /\ kept' = 0 /\ \E n \in 0..Len(s2c) : s2c' = SubSeq(s2c, 1, n)
  BY DEF Batch!ServerEnds, Batch!reader
<1>1. Flow' = Flow /\ BytesOK' /\ Listed'
  BY <1>0 DEF Flow, Unread, BytesOK, Listed, Batch!parse, BatchInv
<1>2. (Synced => Synced') /\ (AllRead => AllRead')
  BY <1>0, <1>1, SyncedStays DEF AllRead
<1>3. PICK n \in 0..Len(s2c) : s2c' = SubSeq(s2c, 1, n)
  BY <1>0
<1>4. s2c = <<>> => s2c' = <<>>
  <2> SUFFICES ASSUME s2c = <<>> PROVE s2c' = <<>>
    OBVIOUS
  <2>1. Len(s2c) = 0
    OBVIOUS
  <2>2. n = 0
    BY <2>1
  <2> QED BY <1>3, <2>2
<1>5. \A x : s2c = <<x>> => s2c' \in {<<>>, <<x>>}
  <2> TAKE x
  <2> SUFFICES ASSUME s2c = <<x>> PROVE s2c' \in {<<>>, <<x>>}
    OBVIOUS
  <2>1. Len(s2c) = 1
    OBVIOUS
  <2>2. n = 0 \/ n = 1
    BY <2>1
  <2>3. s2c \in Seq({x})
    OBVIOUS
  <2>4. SubSeq(s2c, 1, 0) = <<>>
    <3>1. Len(SubSeq(s2c, 1, 0)) = 0 /\ SubSeq(s2c, 1, 0) \in Seq({x})
      BY ONLY <2>1, <2>3
    <3> DEFINE t == SubSeq(s2c, 1, 0)
    <3> HIDE DEF t
    <3>2. Len(t) = 0 /\ t \in Seq({x})
      BY <3>1 DEF t
    <3>3. t = <<>>
      BY ONLY <3>2
    <3> QED BY <3>3 DEF t
  <2>5. SubSeq(s2c, 1, Len(s2c)) = s2c
    BY ONLY <2>3, SubSeqFull
  <2>6. CASE n = 0
    BY ONLY <1>3, <2>6, <2>4
  <2>7. CASE n = 1
    <3>1. s2c' = s2c
      BY ONLY <1>3, <2>7, <2>1, <2>5
    <3> QED BY <3>1
  <2> QED BY <2>2, <2>6, <2>7
<1>6. Replies(s2c) => Replies(s2c')
  <2> SUFFICES ASSUME Replies(s2c) PROVE Replies(SubSeq(s2c, 1, n))
    BY <1>3
  <2> DEFINE R == {"token", ".", "!"}
             t == SubSeq(s2c, 1, n)
  <2>1. s2c \in Seq(R) /\ \A i \in 1..(Len(s2c) - 1) : s2c[i] = "token"
    BY DEF Replies
  <2> HIDE DEF R
  <2>2. t \in Seq(R) /\ Len(t) = n /\ \A i \in 1..n : t[i] = s2c[i]
    BY ONLY <2>1, n \in 0..Len(s2c)
  <2>3. n \in Nat /\ Len(s2c) \in Nat /\ n <= Len(s2c)
    BY ONLY <2>1, n \in 0..Len(s2c)
  <2> HIDE DEF t
  <2>4. \A i \in 1..(Len(t) - 1) : t[i] = "token"
    BY ONLY <2>1, <2>2, <2>3
  <2> QED BY <2>2, <2>4 DEF Replies, R, t
<1>7. WholeBatch => WholeBatch'
  <2> SUFFICES ASSUME WholeBatch PROVE WholeBatch'
    OBVIOUS
  <2>1. At(sent, Flow)'
    BY <1>0, <1>1, AtStays DEF WholeBatch
  <2> QED BY <1>0, <1>4, <2>1 DEF WholeBatch
<1>8. CutBatch => CutBatch'
  <2> SUFFICES ASSUME CutBatch PROVE CutBatch'
    OBVIOUS
  <2>1. PICK b, g : b \in Batches /\ At(b, g) /\ Goes(client, Flow, g)
    BY DEF CutBatch
  <2>2. At(b, g)'
    BY <1>0, <2>1, AtStays
  <2>3. Goes(client', Flow', g)
    BY <1>0, <1>1, <2>1
  <2> QED BY <1>0, <1>4, <2>1, <2>2, <2>3 DEF CutBatch
<1>9. CleanAbort => CleanAbort'
  BY <1>0, <1>1, <1>2, <1>4, <1>5 DEF CleanAbort
<1>10. BrokenAbort => BrokenAbort'
  BY <1>0, <1>4, <1>5 DEF BrokenAbort
<1>11. Exchange'
  BY <1>0, <1>2, <1>4, <1>6, <1>7, <1>8, <1>9, <1>10 DEF Exchange, BatchInv
<1> QED BY <1>0, <1>1, <1>11 DEF BatchInv

LEMMA InvWholeBatch ==
  ASSUME BatchInv, Processing, WholeBatch
  PROVE  BatchInv' /\ client' = client
<1>0. BytesOK /\ Listed /\ s2c = <<>> /\ client = "waiting" /\ sent \in Batches /\ received = <<>> /\ At(sent, Flow)
  BY DEF WholeBatch, BatchInv
<1>1. GoesOn(sent, "waiting")
  <2>1. Goes("waiting", Flow, Flow)
    BY DEF Goes
  <2> QED BY <1>0, <2>1, Parsing
<1>2. Listed'
  BY <1>0, AtConts, ProcessingLists
<1>3. CASE Moves(sent, "waiting")
  <2>1. /\ UNCHANGED <<client, sent, s2c, received>> /\ BytesOK'
        /\ \E g : At(sent, g)' /\ Goes("waiting", Flow', g)
    BY <1>3 DEF Moves, Batch!Quiet
  <2>2. PICK g : At(sent, g)' /\ Goes("waiting", Flow', g)
    BY <2>1
  <2>3. Flow' = g
    BY <2>2 DEF Goes
  <2>4. At(sent, Flow)'
    BY <2>2, <2>3
  <2>5. WholeBatch'
    BY <1>0, <2>1, <2>4 DEF WholeBatch
  <2> QED BY <1>0, <1>2, <2>1, <2>5 DEF BatchInv, Exchange
<1>4. CASE Responds(sent, "waiting")
  <2>1. /\ UNCHANGED <<client, sent>> /\ Flow' = <<>> /\ BytesOK' /\ Synced' /\ Replies(s2c')
        /\ NoneAfterList => received' = Got(sent, Len(sent))
    BY <1>4 DEF Responds
  <2> QED BY <1>0, <1>2, <2>1 DEF BatchInv, Exchange, AllRead
<1> QED BY <1>1, <1>3, <1>4 DEF GoesOn

LEMMA InvCutBatch ==
  ASSUME BatchInv, Processing, CutBatch
  PROVE  BatchInv' /\ client' = client
<1>0. BytesOK /\ Listed /\ s2c = <<>> /\ client \in {"raised", "aborting"} /\ sent = <<>> /\ received = <<>>
  BY DEF CutBatch, BatchInv
<1>1. PICK b, g : b \in Batches /\ At(b, g) /\ Goes(client, Flow, g)
  BY DEF CutBatch
<1>2. GoesOn(b, client)
  BY <1>0, <1>1, Parsing
<1>3. Listed'
  BY <1>0, <1>1, AtConts, ProcessingLists
<1>4. CASE Moves(b, client)
  <2>1. UNCHANGED <<client, sent, s2c, received>> /\ BytesOK'
    BY <1>4 DEF Moves, Batch!Quiet
  <2>2. PICK e : At(b, e)' /\ Goes(client, Flow', e)
    BY <1>4 DEF Moves
  <2>3. Goes(client', Flow', e)
    BY <2>1, <2>2
  <2>4. CutBatch'
    BY <1>0, <1>1, <2>1, <2>2, <2>3 DEF CutBatch
  <2> QED BY <1>0, <1>3, <2>1, <2>4 DEF BatchInv, Exchange
<1>5. CASE client = "aborting" /\ Failed
  <2>1. UNCHANGED <<client, sent, received>> /\ Flow' = <<>> /\ BytesOK' /\ s2c' = <<"!">> /\ (conn' = "closed" \/ WantsLine')
    BY <1>5 DEF Failed
  <2>2. BrokenAbort'
    BY <1>5, <2>1 DEF BrokenAbort
  <2> QED BY <1>0, <1>3, <2>1, <2>2 DEF BatchInv, Exchange
<1> QED BY <1>0, <1>2, <1>4, <1>5 DEF GoesOn, Responds

LEMMA InvProcessing ==
  ASSUME BatchInv, Processing
  PROVE  BatchInv' /\ client' = client
<1>0. BytesOK /\ Listed /\ conn = "open"
  BY DEF BatchInv, Processing, Batch!ProcessLine, Batch!ProcessString, Batch!ProcessBinary, Batch!Pass
<1>1. ~(WantsLine /\ Flow = <<>>)
  BY <1>0, ReadsNothing DEF WantsLine
<1>2. \/ WholeBatch \/ CutBatch
      \/ client = "aborting" /\ s2c = <<>> /\ Synced /\ Flow = Batch!Line("r", 0)
  BY <1>0, <1>1 DEF BatchInv, Exchange, AllRead, Synced, CleanAbort, BrokenAbort
<1>3. CASE client = "aborting" /\ s2c = <<>> /\ Synced /\ Flow = Batch!Line("r", 0)
  <2> DEFINE y == <<"r", 0>>
  <2>1. Batch!Line("r", 0) = <<y, Batch!NL>> /\ Batch!Line("r", 0) \in Seq(Bytes) /\ y \in Bytes
    <3>1. "r" \in Tags
      BY DEF Tags
    <3> QED BY <3>1, LineIs
  <2>2. y # Batch!NL /\ y[1] = "r"
    BY DEF Batch!NL
  <2> HIDE DEF y
  <2>3. Flow = <<y, Batch!NL>> \o <<>> /\ <<>> \in Seq(Bytes)
    <3>1. Batch!Line("r", 0) \o <<>> = Batch!Line("r", 0)
      BY ONLY <2>1, BytesJoin
    <3> QED BY <1>3, <2>1, <3>1, BytesJoin
  <2>4. bin = <<>> /\ want.kind = "line" /\ stack = <<>>
    BY <1>3 DEF Synced, WantsLine
  <2>5. Processes(<<y>>, <<>>)
    BY ONLY <1>0, <2>1, <2>2, <2>3, <2>4, Processing, ReadsLine
  <2>6. Batch!CmdCommand(y)
    <3>1. Batch!CmdCommand(<<y>>[1])
      BY <2>4, <2>5 DEF Processes, Batch!Process
    <3> QED BY <3>1
  <2>7. /\ s2c' = Append(s2c, ".") /\ kept' = 0 /\ stack' = <<>> \o <<>> /\ want' = [kind |-> "line", left |-> 0]
        /\ UNCHANGED <<Batch!parse, conn, received>>
    BY <2>2, <2>6 DEF Batch!CmdCommand, Batch!Push, Batch!WantLine
  <2>8. s2c' = <<".">> /\ stack' = <<>>
    BY <1>3, <2>7
  <2>9. UNCHANGED <<client, sent, batches>> /\ bin' = <<>> /\ Flow' = <<>> /\ BytesOK'
    BY <2>5, Zenon DEF Processes
  <2>10. AllRead'
    BY <1>3, <2>7, <2>8, <2>9 DEF AllRead, Synced, WantsLine, Batch!parse
  <2>11. CleanAbort'
    BY <1>3, <2>7, <2>8, <2>9, <2>10 DEF CleanAbort
  <2>12. Listed'
    BY <2>7 DEF Listed, Batch!parse, BatchInv
  <2> QED BY <2>7, <2>9, <2>11, <2>12 DEF BatchInv, Exchange
<1> QED BY <1>2, <1>3, InvWholeBatch, InvCutBatch

LEMMA BatchInvInit ==
  ASSUME PartsInit
  PROVE  BatchInv
<1>1. /\ client = "idle" /\ sent = <<>> /\ c2s = <<>> /\ s2c = <<>> /\ unprocessed = <<>> /\ bin = <<>>
      /\ want = [kind |-> "line", left |-> 0] /\ stack = <<>> /\ commands = <<>> /\ command = Batch!NoCommand
      /\ received = <<>>
  BY DEF PartsInit, Batch!Init
<1>2. BytesOK
  BY <1>1, BytesJoin DEF BytesOK
<1>3. AllRead
  BY <1>1, <1>2, FlowEmpty DEF AllRead, Synced, WantsLine
<1>4. Listed
  <2>1. commands \in Seq({})
    BY <1>1
  <2> QED BY <2>1 DEF Listed
<1> QED BY <1>1, <1>2, <1>3, <1>4 DEF BatchInv, Exchange

\* An answer to an abort comes when nothing is kept.
Acknowledged == client = "aborting" /\ client' = "idle" => kept = 0

LEMMA BatchInvNext ==
  ASSUME BatchInv, [PartsNext]_parts
  PROVE  BatchInv' /\ Acknowledged
<1>1. CASE Batching
  <2>0. Batch!Next
    BY <1>1 DEF Batching
  <2>1. CASE \E b \in Batches : Batch!SendBatch(b)
    BY <2>1, InvSendBatch DEF Acknowledged, Batch!SendBatch
  <2>2. CASE \E b \in Batches : \E i \in 2..Len(Batch!SendCommands(b)) : Batch!SendRaises(b, i)
    BY <2>2, InvSendRaises DEF Acknowledged, Batch!SendRaises
  <2>3. CASE Batch!SendAbort
    BY <2>3, InvSendAbort DEF Acknowledged, Batch!SendAbort
  <2>4. CASE Batch!ServerEnds
    BY <2>4, InvServerEnds DEF Acknowledged
  <2>5. CASE Batch!ReadReply
    BY <2>5, InvReadReply DEF Acknowledged
  <2>6. CASE Batch!Disconnected
    BY <2>6, InvDisconnected DEF Acknowledged
  <2>7. CASE \E n \in 1..Len(c2s) : Batch!Read(n)
    BY <2>7, InvRead DEF Acknowledged
  <2>8. CASE Processing
    BY <2>8, InvProcessing DEF Acknowledged
  <2> QED BY <2>0, <2>1, <2>2, <2>3, <2>4, <2>5, <2>6, <2>7, <2>8, Zenon
          DEF Batch!Next, Batch!Controller, Batch!Reader, Processing
<1>2. CASE UNCHANGED batch
  <2>1. UNCHANGED <<client, sent, batches, c2s, s2c, conn, unprocessed, want, bin, stack, commands,
                    command, prop_name, prop_value, prop_values, received, kept>>
    BY <1>2 DEF batch
  <2>2. UNCHANGED Batch!parse /\ Flow' = Flow /\ BytesOK'
    BY <2>1 DEF Batch!parse, Flow, Unread, BytesOK, BatchInv
  <2>3. BatchInv'
    BY <2>1, <2>2, ExchangeStays
  <2> QED BY <2>1, <2>3 DEF Acknowledged
<1>3. Batching \/ UNCHANGED batch
  BY DEF PartsNext, parts, Replying, Reordering, Assigning, Merging
<1> QED BY <1>1, <1>2, <1>3

LEMMA BatchAlways == PartsSpec => [](BatchInv) /\ [][BatchInv /\ Acknowledged]_parts
<1>1. PartsInit => BatchInv
  BY BatchInvInit
<1>2. BatchInv /\ [PartsNext]_parts => BatchInv' /\ Acknowledged
  BY BatchInvNext
<1> QED BY <1>1, <1>2, PTL DEF PartsSpec

\* Whenever the controller is free to send, the server has read the last exchange to
\* its end and wants a command: nothing is left of it on the way or in a buffer, after
\* any batches and aborts, whatever is in them (doRead, sendCommands, abort).
THEOREM AlwaysInStep == PartsSpec => []InStep
<1>1. BatchInv => InStep
  <2> SUFFICES ASSUME BatchInv, client = "idle"
               PROVE  /\ c2s = <<>> /\ s2c = <<>> /\ unprocessed = <<>> /\ bin = <<>>
                      /\ stack = <<>> /\ want.kind = "line" /\ command = Batch!NoCommand
    BY DEF InStep, Batch!InStep
  <2>1. AllRead /\ s2c = <<>> /\ BytesOK
    BY DEF BatchInv, Exchange, WholeBatch, CutBatch, CleanAbort, BrokenAbort
  <2> QED BY <2>1, FlowEmpty DEF AllRead, Synced, WantsLine
<1> QED BY BatchAlways, <1>1, PTL

\* However the stream is cut into chunks, and whatever the payload, the batch that is
\* executed is the batch that was sent, if no batch removes a property right after it
\* has set a list (sendCommands, doRead, the continuations).
THEOREM BatchesArrive ==
  ASSUME NoneAfterList
  PROVE  PartsSpec => []BatchArrives
<1>1. BatchInv => BatchArrives
  <2> SUFFICES ASSUME BatchInv, received # <<>>
               PROVE  received = [i \in DOMAIN sent |-> Batch!AsReceived(sent[i])]
    BY DEF BatchArrives, Batch!BatchArrives
  <2>1. received = Got(sent, Len(sent))
    BY DEF BatchInv
  <2>2. DOMAIN sent = 1..Len(sent)
    <3>1. CASE sent = <<>>
      BY <3>1
    <3>2. CASE sent \in Batches
      BY <3>2, BatchesAssumption, BatchHas
    <3> QED BY <3>1, <3>2 DEF BatchInv
  <2> QED BY <2>1, <2>2 DEF Got
<1> QED BY BatchAlways, <1>1, PTL

\* An abort that is acknowledged has rolled back, and its answer is never that of a
\* batch before it, also when it comes in the middle of one (abort, cmdRollback).
THEOREM AbortsAreReal == PartsSpec => AbortIsReal
<1>1. BatchInv /\ Acknowledged => (client = "aborting" /\ client' = "idle" => kept = 0)
  BY DEF Acknowledged
<1>2. UNCHANGED parts => UNCHANGED Batch!vars
  BY DEF parts, batch, Batch!vars, Batch!net, Batch!reader, Batch!parse
<1> QED BY BatchAlways, <1>1, <1>2, PTL DEF AbortIsReal, Batch!AbortIsReal
=============================================================================
