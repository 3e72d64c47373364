----------------------------- MODULE ReplyReader -----------------------------
(***************************************************************************)
(* The answer of getNodeStates: how the stub server writes it (the         *)
(* Processor's cmdGetNodeStates and the buffer of IO, server.py) and how   *)
(* the controller reads it back from chunks of any size (controller.py).   *)
(*                                                                         *)
(* A byte is a pair as in BatchProtocol: the text of a line is one byte    *)
(* with a number for what the line says, its newline is another.           *)
(***************************************************************************)
EXTENDS Naturals, Sequences, SequencesExt

CONSTANTS
  Answers,      \* what may be asked for: sequences of node states
  MaxRequests   \* bound on the requests

VARIABLES
  request,      \* the answer the server should give, or <<>> when none is asked for
  requests,     \* the number of requests so far
  towrite, interest,  \* IO.towrite, and whether the selector looks for writes
  s2c,          \* bytes on their way
  chunks,       \* _unprocessed
  mode,         \* where getNodeStates is
  length, data, \* of the string being read
  node,         \* the node whose state is being read
  values,       \* of the property being read
  infos,        \* the nodes read so far
  result        \* the last result

server == <<towrite, interest>>
read   == <<mode, length, data, node, values, infos, result>>
vars   == <<request, requests, server, s2c, chunks, read>>

NL == <<"newline", 0>>

-----------------------------------------------------------------------------
(* cmdGetNodeStates, dumpValue and what they write.                        *)

Line(c, n) == <<<<c, n>>, NL>>
Lines(F(_), s) == FlattenSeq([i \in DOMAIN s |-> F(s[i])])

DumpValue(v) ==
  IF v.type = "s" THEN Line("s", Len(v.data)) \o v.data \o <<NL>> ELSE Line(v.type, 0)

DumpProperty(p) ==
  IF p.many THEN Line("M", p.key) \o Lines(DumpValue, p.vals) \o Line("M", 0)
            ELSE Line("P", p.key) \o DumpValue(p.vals[1])

DumpNode(n) ==
  Line("U", n.uuid)
    \o (IF n.parent = 0 THEN <<>> ELSE Line("^", n.parent))
    \o FlattenSeq([i \in DOMAIN n.children |-> Line("N", n.children[i])])
    \o Lines(DumpProperty, n.props)

\* An unknown uuid is found out before anything is written.
GetNodeStates(ns) == IF ns = <<>> THEN Line("!", 0) ELSE Lines(DumpNode, ns) \o Line(".", 0)

NoNode == [uuid |-> 0, parent |-> 0, children |-> <<>>, props |-> <<>>]

Init ==
  /\ request = <<>> /\ requests = 0
  /\ towrite = <<>> /\ interest = FALSE /\ s2c = <<>> /\ chunks = <<>>
  /\ mode = "idle" /\ length = 0 /\ data = <<>> /\ node = NoNode /\ values = <<>>
  /\ infos = <<>> /\ result = <<>>

\* The controller asks; the server answers in one go, into its buffer.
Ask(ns) ==
  /\ mode = "idle" /\ requests < MaxRequests
  /\ requests' = requests + 1
  /\ request' = ns /\ mode' = "first" /\ infos' = <<>> /\ result' = <<>>
  /\ towrite' = towrite \o GetNodeStates(ns)
  /\ interest' = (interest \/ towrite = <<>>)
  /\ UNCHANGED <<s2c, chunks, length, data, node, values>>

\* Mutant: a short write loses the interest in writing.
DoWriteOnce(n) ==
  /\ interest
  /\ s2c' = s2c \o SubSeq(towrite, 1, n)
  /\ towrite' = SubSeq(towrite, n + 1, Len(towrite))
  /\ interest' = FALSE
  /\ UNCHANGED <<request, requests, chunks, read>>

\* doWrite: the socket takes n bytes; the rest stays for the next time.
DoWrite(n) ==
  /\ interest
  /\ s2c' = s2c \o SubSeq(towrite, 1, n)
  /\ towrite' = SubSeq(towrite, n + 1, Len(towrite))
  /\ interest' = (towrite' # <<>>)
  /\ UNCHANGED <<request, requests, chunks, read>>

-----------------------------------------------------------------------------
(* The controller's buffer: _read, _readline, _extract, _pushback.         *)

\* The first pos bytes of chunk i, with the chunks before it.
Taken(i, pos) == FlattenSeq(SubSeq(chunks, 1, i - 1)) \o SubSeq(chunks[i], 1, pos)

\* _extract: what it leaves in the buffer, no empty chunk in front.
Extract(i, pos, toskip) ==
  chunks' = (IF pos + toskip < Len(chunks[i])
             THEN <<SubSeq(chunks[i], pos + toskip + 1, Len(chunks[i]))>> ELSE <<>>)
            \o SubSeq(chunks, i + 1, Len(chunks))

\* The chunk in which _read(n) ends, and where in it; 0 if it has to receive.
LengthBefore(i) == FoldLeft(LAMBDA x, c : x + Len(c), 0, SubSeq(chunks, 1, i - 1))
ChunkOf(n) == SelectInSeq([i \in DOMAIN chunks |-> LengthBefore(i) + Len(chunks[i]) >= n],
                          LAMBDA enough : enough)
\* The chunk with the end of the line; 0 if there is none.
ChunkOfNL == SelectInSeq(chunks, LAMBDA c : NL \in ToSet(c))

\* What getNodeStates reads now is in the chunks: _read(0) needs none.
HasLine       == mode \notin {"idle", "string", "terminator"} /\ ChunkOfNL > 0
HasData       == mode = "string" /\ (length = 0 \/ ChunkOf(length) > 0)
HasTerminator == mode = "terminator" /\ chunks # <<>>
NewlineIn(i)  == SelectInSeq(chunks[i], LAMBDA b : b = NL) - 1

\* recv, when the chunks are not enough.
Recv(n) ==
  /\ mode # "idle" /\ ~HasLine /\ ~HasData /\ ~HasTerminator
  /\ chunks' = Append(chunks, SubSeq(s2c, 1, n))
  /\ s2c' = SubSeq(s2c, n + 1, Len(s2c))
  /\ UNCHANGED <<request, requests, server, read>>

-----------------------------------------------------------------------------
(* getNodeStates, a line at a time.                                        *)

\* Mutant: the nodes before are forgotten.
InfoLast(n) == <<n>>

\* The node that is complete, under its uuid.
Info(n) == Append(infos, n)

\* A line after "U": "U" again is pushed back, and read as the next node's.
Item(c) ==
  \/ /\ c[1] = "."
     /\ mode' = "idle" /\ infos' = Info(node) /\ result' = Info(node) /\ node' = NoNode
     /\ UNCHANGED <<length, values>>
  \/ /\ c[1] = "U"
     /\ infos' = Info(node) /\ node' = [NoNode EXCEPT !.uuid = c[2]]
     /\ UNCHANGED <<mode, length, values, result>>
  \/ /\ c[1] = "^"
     /\ node' = [node EXCEPT !.parent = c[2]]
     /\ UNCHANGED <<mode, length, values, infos, result>>
  \/ /\ c[1] = "N"
     /\ node' = [node EXCEPT !.children = Append(@, c[2])]
     /\ UNCHANGED <<mode, length, values, infos, result>>
  \/ /\ c[1] \in {"P", "M"}
     /\ mode' = IF c[1] = "P" THEN "value" ELSE "values"
     /\ values' = [many |-> c[1] = "M", key |-> c[2], vals |-> <<>>]
     /\ UNCHANGED <<length, node, infos, result>>

\* A value is there: it is the property's, or the next of its list.
GotValue(v) ==
  IF values.many
  THEN /\ values' = [values EXCEPT !.vals = Append(@, v)] /\ mode' = "values"
       /\ UNCHANGED node
  ELSE /\ node' = [node EXCEPT !.props = Append(@, [values EXCEPT !.vals = <<v>>])]
       /\ values' = <<>> /\ mode' = "item"

\* _getOneValue; "M" is the end of a list.
OneValue(c) ==
  /\ UNCHANGED <<infos, result>>
  /\ \/ /\ c[1] = "M"
        /\ node' = [node EXCEPT !.props = Append(@, values)]
        /\ values' = <<>> /\ mode' = "item" /\ UNCHANGED length
     \/ /\ c[1] = "s"
        /\ mode' = "string" /\ length' = c[2] /\ UNCHANGED <<node, values>>
     \/ /\ c[1] = "l"
        /\ GotValue([type |-> "l", data |-> <<>>]) /\ UNCHANGED length

\* The first line is an error, or that of the first node.
First(c) ==
  IF c[1] = "!"
  THEN mode' = "idle" /\ UNCHANGED <<length, node, values, infos, result>>
  ELSE /\ mode' = "item" /\ node' = [NoNode EXCEPT !.uuid = c[2]]
       /\ UNCHANGED <<length, values, infos, result>>

ReadLine ==
  /\ HasLine
  /\ LET i   == ChunkOfNL
         pos == NewlineIn(i)
         c   == Taken(i, pos)[1]
     IN /\ Extract(i, pos, 1)
        /\ CASE mode = "first" -> First(c)
             [] mode = "item"  -> Item(c)
             [] OTHER          -> OneValue(c)
  /\ UNCHANGED <<request, requests, server, s2c, data>>

\* _readString: the data, then one byte, which has to be a newline.
ReadData ==
  /\ HasData
  /\ IF length = 0
     THEN data' = <<>> /\ UNCHANGED chunks
     ELSE LET i == ChunkOf(length)
          IN /\ data' = Taken(i, length - LengthBefore(i))
             /\ Extract(i, length - LengthBefore(i), 0)
  /\ mode' = "terminator"
  /\ UNCHANGED <<request, requests, server, s2c, length, node, values, infos, result>>

ReadTerminator ==
  /\ HasTerminator
  /\ chunks[1][1] = NL
  /\ Extract(1, 1, 0)
  /\ GotValue([type |-> "s", data |-> data])
  /\ UNCHANGED <<request, requests, server, s2c, length, data, infos, result>>

Server == \E n \in 1..Len(towrite) : DoWrite(n)
Controller == \/ \E n \in 1..Len(s2c) : Recv(n)
              \/ ReadLine \/ ReadData \/ ReadTerminator

Next == (\E ns \in Answers : Ask(ns)) \/ Server \/ Controller

\* The select loop looks for writes where there is interest, and the
\* controller does nothing else before it has its answer.
Spec == Init /\ [][Next]_vars /\ WF_vars(Server) /\ WF_vars(Controller)

-----------------------------------------------------------------------------
(* Properties.                                                             *)

\* However the answer is cut on the way, getNodeStates returns the states the
\* server has written, and leaves nothing of them behind.
ReadsBack ==
  mode = "idle" => /\ result = request
                   /\ chunks = <<>> /\ s2c = <<>> /\ towrite = <<>>
=============================================================================
