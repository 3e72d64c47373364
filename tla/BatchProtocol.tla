---------------------------- MODULE BatchProtocol ----------------------------
(***************************************************************************)
(* How a batch of commands crosses the socket: sendCommands and abort of   *)
(* the controller (controller.py), the reader of the stub server (IO.doRead *)
(* of server.py), which gets the stream in chunks of any size, and the     *)
(* stack of continuations with which its Processor parses the batch.       *)
(*                                                                         *)
(* A byte of the stream is a pair: what it is, and a number.  The text of  *)
(* a line is one byte, the number being a key or a length, and its newline *)
(* another; the payload of a string or binary is any bytes, newlines too.  *)
(***************************************************************************)
EXTENDS Naturals, Sequences, FiniteSets, SequencesExt

CONSTANTS
  Batches,     \* the batches the connection may send, sequences of commands
  MaxBatches   \* bound on the number of batches

VARIABLES
  client,      \* what the controller does
  sent,        \* the last batch it sent to the end
  batches,     \* how many it began
  c2s, s2c,    \* bytes on their way to the server, lines on their way back
  conn,        \* the server's side of the socket: "open", "closed"
  unprocessed, \* bytes read and not processed
  want,        \* what doRead waits for: strlen, or the remaining room of bin
  bin,         \* the binary data so far
  stack,       \* continuations
  commands, command, prop_name, prop_value, prop_values,  \* the Processor's parse
  received,    \* the last batch given to processMultipleCommands
  saved        \* batches saved in the current transaction

net    == <<c2s, s2c>>
parse  == <<commands, command, prop_name, prop_value, prop_values>>
reader == <<unprocessed, want, bin>>
vars   == <<client, sent, batches, net, conn, reader, stack, parse, received, saved>>

-----------------------------------------------------------------------------
(* Values, commands, and their form on the wire.                           *)

NL       == <<"newline", 0>>
Val(t, d) == [type |-> t, data |-> d]
None     == Val("None", <<>>)
MARKER   == Val("MARKER", <<>>)
NoValues == <<None>>                  \* prop_values = None

One(v)   == [many |-> FALSE, vals |-> <<v>>]
Many(vs) == [many |-> TRUE, vals |-> vs]
Command(op, props, inserts) == [op |-> op, props |-> props, inserts |-> inserts]
NoCommand == Command("None", <<>>, 0)

\* What a connection sends: a property has one value, which may be nothing, or a
\* list; what is removed or reordered has none, and only a reordering inserts. Of no
\* command nothing is sent.
Payload == {NL} \cup ({"byte"} \X Nat)
SentValues == [type : {"s", "x"}, data : Seq(Payload)] \cup {Val("l", <<>>)}
Props   == [key : Nat \ {0}, value : [many : BOOLEAN, vals : Seq(SentValues \cup {None})]]

Sendable == [op : {"add", "modify", "remove", "reorder"}, props : Seq(Props), inserts : Nat]

IsCommand(c) ==
  /\ c \in Sendable
  /\ \A i \in DOMAIN c.props :
       /\ LET v == c.props[i].value IN IF v.many THEN v.vals \in Seq(SentValues) ELSE Len(v.vals) = 1
       /\ \A j \in DOMAIN c.props : c.props[i].key = c.props[j].key => i = j
  /\ c.op \in {"remove", "reorder"} => c.props = <<>>
  /\ c.op # "reorder" => c.inserts = 0

IsBatch(b) == b \in Seq(Sendable) \ {<<>>} /\ \A i \in DOMAIN b : IsCommand(b[i])

\* What the parser makes of the properties a command was sent with.
AsDict(props) ==
  [k \in {props[i].key : i \in DOMAIN props} |->
     props[CHOOSE i \in DOMAIN props : props[i].key = k].value]
AsReceived(c) == [c EXCEPT !.props = AsDict(@)]

Line(c, n) == <<<<c, n>>, NL>>
Lines(F(_), s) == FlattenSeq([i \in DOMAIN s |-> F(s[i])])

\* _sendOneProp: strings and binaries with their length, the others in a line.
SendOneProp(v) ==
  IF v.type \in {"s", "x"} THEN Line(v.type, Len(v.data)) \o v.data \o <<NL>>
                           ELSE Line(v.type, 0)

SendProp(p) ==
  IF p.value.many THEN Line("M", p.key) \o Lines(SendOneProp, p.value.vals) \o Line("M", 0)
  ELSE IF p.value = One(None) THEN Line("D", p.key)
  ELSE Line("P", p.key) \o SendOneProp(p.value.vals[1])

Opening == [add |-> "+", modify |-> "/", remove |-> "-", reorder |-> "%"]

SendCommand(c) ==
  Line(Opening[c.op], 1)
    \o IF c.op = "reorder"
       THEN FlattenSeq([i \in 1..c.inserts |-> Line("insert", 0)]) \o Line("%", 0)
       ELSE IF c.op = "remove" THEN <<>> ELSE Lines(SendProp, c.props) \o Line(",", 0)

SendCommands(b) == Line("M", 0) \o Lines(SendCommand, b) \o Line(".", 0)

\* Lines at which the controller, or the generator it takes the commands from,
\* may raise: for a value it cannot send, or a state the generator cannot read.
Raisable(byte) == \/ byte[1] \in {"+", "/", "-", "P", "D", "l", "s", "insert"}
                  \/ byte[1] \in {"M", "%"} /\ byte[2] > 0

Init ==
  /\ client = "idle" /\ sent = <<>> /\ batches = 0
  /\ c2s = <<>> /\ s2c = <<>> /\ conn = "open"
  /\ unprocessed = <<>> /\ want = [kind |-> "line", left |-> 0] /\ bin = <<>>
  /\ stack = <<>> /\ commands = <<>> /\ command = NoCommand
  /\ prop_name = 0 /\ prop_value = None /\ prop_values = NoValues
  /\ received = <<>> /\ saved = 0

-----------------------------------------------------------------------------
(* The controller.  ReplyReader has the details of how it reads lines.     *)

ServerSame == UNCHANGED <<conn, reader, stack, parse, saved>>

\* sendCommands, up to where it waits for the answer.
SendBatch(b) ==
  /\ client = "idle" /\ batches < MaxBatches
  /\ client' = "waiting" /\ sent' = b /\ received' = <<>> /\ batches' = batches + 1
  /\ c2s' = c2s \o SendCommands(b)
  /\ ServerSame /\ UNCHANGED s2c

\* sendCommands raising at byte i: what comes before it has been sent.
SendRaises(b, i) ==
  /\ client = "idle" /\ batches < MaxBatches
  /\ Raisable(SendCommands(b)[i])
  /\ client' = "raised" /\ sent' = <<>> /\ received' = <<>> /\ batches' = batches + 1
  /\ c2s' = c2s \o SubSeq(SendCommands(b), 1, i - 1)
  /\ ServerSame /\ UNCHANGED s2c

\* abort, after an exception or because the application wants it.
SendAbort ==
  /\ client \in {"idle", "raised"}
  /\ client = "idle" => saved > 0
  /\ client' = "aborting"
  /\ c2s' = c2s \o Line("r", 0)
  /\ ServerSame /\ UNCHANGED <<s2c, sent, batches, received>>

\* The answer of a batch ends with "." or is an error; that of an abort is a line.
ReadReply ==
  /\ client \in {"waiting", "aborting"} /\ s2c # <<>>
  /\ s2c' = Tail(s2c)
  /\ client' = CASE Head(s2c) = "token" -> client
                 [] Head(s2c) = "." -> "idle"
                 [] Head(s2c) = "!" -> IF client = "waiting" THEN "raised" ELSE "failed"
  /\ ServerSame /\ UNCHANGED <<c2s, sent, batches, received>>

\* IOError "JCR server disconnected".
Disconnected ==
  /\ client \in {"waiting", "aborting"} /\ s2c = <<>> /\ conn = "closed"
  /\ client' = "failed"
  /\ ServerSame /\ UNCHANGED <<net, sent, batches, received>>

-----------------------------------------------------------------------------
(* The Processor.  A continuation gets the line and what is left of the    *)
(* stack once it is popped.                                                *)

Push(below, conts) == stack' = below \o conts
WantLine      == want' = [kind |-> "line", left |-> 0]
WantString(n) == want' = [kind |-> "string", left |-> n + 1]
WantBinary(n) == want' = [kind |-> "binary", left |-> n + 1]
Quiet         == UNCHANGED <<s2c, conn, received, saved>>

\* An exception in doRead: the error is written, and close rolls back.
Trapped ==
  /\ s2c' = <<"!">> /\ conn' = "closed" /\ saved' = 0
  /\ stack' = <<>> /\ WantLine
  /\ UNCHANGED <<parse, received>>

\* cmdCommand, of the commands the model sends; cmdMultiple and cmdRollback.
CmdCommand(c) ==
  \/ /\ c[1] = "M"
     /\ commands' = <<>> /\ command' = NoCommand
     /\ prop_name' = 0 /\ prop_value' = None /\ prop_values' = NoValues
     /\ Push(<<>>, <<"MultipleOne">>) /\ WantLine /\ Quiet
  \/ /\ c[1] = "r"
     /\ s2c' = Append(s2c, ".") /\ saved' = 0
     /\ Push(<<>>, <<>>) /\ WantLine
     /\ UNCHANGED <<parse, conn, received>>

\* A line for each node that was added.
Tokens(cs) == [i \in 1..Cardinality({j \in DOMAIN cs : cs[j].op = "add"}) |-> "token"]

\* Mutant: a failure is answered, and so is the end of the batch.
ProcessMultipleCommandsGoesOn(cs) ==
  /\ received' = cs
  /\ \/ s2c' = s2c \o <<"!", ".">> /\ UNCHANGED saved
     \/ s2c' = s2c \o Tokens(cs) \o <<".">> /\ saved' = saved + 1
  /\ UNCHANGED conn

\* processMultipleCommands: it answers with an error, or saves and answers with
\* the tokens of the added nodes.
ProcessMultipleCommands(cs) ==
  /\ received' = cs
  /\ \/ s2c' = Append(s2c, "!") /\ UNCHANGED saved
     \/ s2c' = s2c \o Tokens(cs) \o <<".">> /\ saved' = saved + 1
  /\ UNCHANGED conn

\* The commands so far, with the one that is complete now.
Complete == IF command = NoCommand THEN commands ELSE Append(commands, command)

ExpectMultipleOne(c, below) ==
  /\ UNCHANGED <<prop_value, prop_values>>
  /\ WantLine
  /\ CASE c[1] = "." ->
            /\ commands' = <<>> /\ command' = NoCommand /\ UNCHANGED prop_name
            /\ Push(below, <<>>)
            /\ ProcessMultipleCommands(Complete)
       [] c[1] \in {"+", "/"} ->
            /\ commands' = Complete /\ prop_name' = 0
            /\ command' = Command(IF c[1] = "+" THEN "add" ELSE "modify", <<>>, 0)
            /\ Push(below, <<"MultipleOne", "Props">>) /\ Quiet
       [] c[1] = "-" ->
            /\ commands' = Complete /\ UNCHANGED prop_name
            /\ command' = Command("remove", <<>>, 0)
            /\ Push(below, <<"MultipleOne">>) /\ Quiet
       [] c[1] = "%" ->
            /\ commands' = Complete /\ UNCHANGED prop_name
            /\ command' = Command("reorder", <<>>, 0)
            /\ Push(below, <<"MultipleOne", "Inserts">>) /\ Quiet
       [] OTHER ->   \* "!Unknown multiple op"
            /\ commands' = Complete /\ command' = NoCommand /\ UNCHANGED prop_name
            /\ s2c' = Append(s2c, "!") /\ Push(<<>>, <<>>)
            /\ UNCHANGED <<conn, received, saved>>

\* f with value v for key k.
With(f, k, v) == [x \in DOMAIN f \cup {k} |-> IF x = k THEN v ELSE f[x]]

\* Mutant: prop_values is looked at only when prop_value is nothing.
StorePropOne ==
  IF prop_name = 0 THEN UNCHANGED command
  ELSE command' = [command EXCEPT !.props =
         With(@, prop_name, IF prop_value = None THEN Many(prop_values) ELSE One(prop_value))]

\* The property that is complete now goes into the command, as the list if
\* there is one.
StoreProp ==
  IF prop_name = 0 THEN UNCHANGED command
  ELSE command' = [command EXCEPT !.props =
         With(@, prop_name, IF prop_values # NoValues THEN Many(prop_values) ELSE One(prop_value))]

\* A deleted property leaves prop_values as it is.
ExpectProps(c, below) ==
  IF c[1] \notin {",", "P", "M", "D"} THEN Trapped ELSE
  /\ StoreProp
  /\ prop_name' = IF c[1] = "," THEN prop_name ELSE c[2]
  /\ prop_value' = CASE c[1] = "M" -> MARKER [] c[1] = "D" -> None [] OTHER -> prop_value
  /\ prop_values' = CASE c[1] = "P" -> NoValues [] c[1] = "M" -> <<>> [] OTHER -> prop_values
  /\ Push(below, CASE c[1] = "," -> <<>>
                   [] c[1] = "P" -> <<"Props", "Prop">>
                   [] c[1] = "M" -> <<"Props", "PropMulti">>
                   [] c[1] = "D" -> <<"Props">>)
  /\ WantLine /\ Quiet /\ UNCHANGED commands

\* _storeValue
StoreValue(v) ==
  IF prop_values # NoValues
  THEN prop_values' = Append(prop_values, v) /\ UNCHANGED prop_value
  ELSE prop_value' = v /\ UNCHANGED prop_values

\* A length announces a string or a binary; "r" as a reference has no uuid.
ExpectProp(c, below) ==
  IF c[1] = "r" THEN Trapped ELSE
  /\ CASE c[1] = "s" -> WantString(c[2]) /\ Push(below, <<"String">>)
       [] c[1] = "x" -> WantBinary(c[2]) /\ Push(below, <<"Binary">>)
       [] c[1] = "l" -> WantLine /\ Push(below, <<>>)
  /\ IF c[1] = "l" THEN StoreValue(Val("l", <<>>)) ELSE UNCHANGED <<prop_value, prop_values>>
  /\ Quiet /\ UNCHANGED <<commands, command, prop_name>>

\* expectString, expectBinary
ExpectData(type, data, below) ==
  /\ StoreValue(Val(type, data))
  /\ Push(below, <<>>) /\ WantLine
  /\ Quiet /\ UNCHANGED <<commands, command, prop_name>>

ExpectPropMulti(c, below) ==
  IF c = <<"M", 0>>
  THEN Push(below, <<>>) /\ WantLine /\ Quiet /\ UNCHANGED parse
  ELSE ExpectProp(c, Append(below, "PropMulti"))

ExpectInserts(c, below) ==
  IF c[1] \notin {"%", "insert"} THEN Trapped ELSE
  /\ Push(below, IF c[1] = "%" THEN <<>> ELSE <<"Inserts">>)
  /\ command' = IF c[1] = "%" THEN command ELSE [command EXCEPT !.inserts = @ + 1]
  /\ WantLine /\ Quiet
  /\ UNCHANGED <<commands, prop_name, prop_value, prop_values>>

\* Processor.process
Process(line) ==
  IF stack = <<>> THEN CmdCommand(line[1])
  ELSE LET cont  == Last(stack)
           below == Front(stack)
       IN CASE cont = "MultipleOne" -> ExpectMultipleOne(line[1], below)
            [] cont = "Props"       -> ExpectProps(line[1], below)
            [] cont = "Prop"        -> ExpectProp(line[1], below)
            [] cont = "PropMulti"   -> ExpectPropMulti(line[1], below)
            [] cont = "String"      -> ExpectData("s", line, below)
            [] cont = "Binary"      -> ExpectData("x", line, below)
            [] cont = "Inserts"     -> ExpectInserts(line[1], below)

-----------------------------------------------------------------------------
(* IO.doRead: a chunk, then everything in it that is complete.             *)

HasLine   == want.kind = "line" /\ NL \in ToSet(unprocessed)
HasString == want.kind = "string" /\ Len(unprocessed) >= want.left
HasBinary == want.kind = "binary" /\ unprocessed # <<>>

\* Read a chunk of n bytes, of binary data no more than there is room for.
Read(n) ==
  /\ conn = "open" /\ ~HasLine /\ ~HasString /\ ~HasBinary
  /\ want.kind = "binary" => n <= want.left
  /\ unprocessed' = unprocessed \o SubSeq(c2s, 1, n)
  /\ c2s' = SubSeq(c2s, n + 1, Len(c2s))
  /\ UNCHANGED <<client, sent, batches, s2c, conn, want, bin, stack, parse, received, saved>>

\* Pass n bytes to the processor and skip the one after them.
Pass(n) ==
  /\ conn = "open"
  /\ unprocessed' = SubSeq(unprocessed, n + 2, Len(unprocessed))
  /\ Process(SubSeq(unprocessed, 1, n))
  /\ UNCHANGED <<client, sent, batches, c2s, bin>>

ProcessLine == HasLine /\ Pass(SelectInSeq(unprocessed, LAMBDA b : b = NL) - 1)

ProcessString == HasString /\ Pass(want.left - 1)

\* Bytes for the buffer; processBinary when it is full.
ProcessBinary ==
  /\ conn = "open" /\ HasBinary
  /\ LET n    == IF Len(unprocessed) < want.left THEN Len(unprocessed) ELSE want.left
         data == bin \o SubSeq(unprocessed, 1, n)
     IN /\ unprocessed' = SubSeq(unprocessed, n + 1, Len(unprocessed))
        /\ IF n < want.left
           THEN /\ bin' = data /\ want' = [want EXCEPT !.left = @ - n]
                /\ Quiet /\ UNCHANGED <<stack, parse>>
           ELSE /\ bin' = <<>>
                /\ IF Last(data) = NL THEN Process(Front(data)) ELSE Trapped
  /\ UNCHANGED <<client, sent, batches, c2s>>

\* Another connection is reset or sends Q: the server ends, closes this one too
\* and drops what it has not written yet.
ServerEnds ==
  /\ conn = "open"
  /\ conn' = "closed" /\ saved' = 0
  /\ \E n \in 0..Len(s2c) : s2c' = SubSeq(s2c, 1, n)
  /\ UNCHANGED <<client, sent, batches, c2s, reader, stack, parse, received>>

Controller == ReadReply \/ Disconnected
Reader     == \/ \E n \in 1..Len(c2s) : Read(n)
              \/ ProcessLine \/ ProcessString \/ ProcessBinary

Next ==
  \/ \E b \in Batches : \/ SendBatch(b)
                        \/ \E i \in 2..Len(SendCommands(b)) : SendRaises(b, i)
  \/ SendAbort \/ ServerEnds \/ Controller \/ Reader

\* The select loop serves every channel that can be read, and the controller
\* blocks in recv until there is an answer.
Spec == Init /\ [][Next]_vars /\ WF_vars(Controller) /\ WF_vars(Reader)

-----------------------------------------------------------------------------
(* Properties.                                                             *)

\* However the stream is cut into chunks, the batch that is executed is the
\* batch that was sent (sendCommands, doRead, the continuations).
BatchArrives ==
  received # <<>> => received = [i \in DOMAIN sent |-> AsReceived(sent[i])]

\* When the controller is free to send, the server waits for a command and
\* nothing is left of the last exchange on the way or in a buffer.
InStep ==
  client = "idle" =>
    /\ c2s = <<>> /\ s2c = <<>> /\ unprocessed = <<>> /\ bin = <<>>
    /\ stack = <<>> /\ want.kind = "line" /\ command = NoCommand

\* An abort that is acknowledged has rolled back: its answer is never one that
\* a batch before it has left behind (abort, cmdRollback).
AbortIsReal == [][client = "aborting" /\ client' = "idle" => saved = 0]_vars
=============================================================================
