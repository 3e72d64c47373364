--------------------------- MODULE MCBatchProtocol ---------------------------
(* Batches for BatchProtocol: a list before a property that is removed, in one *)
(* command or in two. *)
EXTENDS BatchProtocol

Byte == <<"byte", 0>>
Long == Val("l", <<>>)
Text == Val("s", <<NL, Byte>>)
Blob == Val("x", <<Byte, NL>>)
Prop(k, v) == [key |-> k, value |-> v]
Modify(ps) == Command("modify", ps, 0)

MCDeletes == { <<Modify(<<Prop(2, Many(<<Blob, Text>>)), Prop(1, One(Long))>>)>>,
               <<Modify(<<Prop(2, Many(<<Long>>)), Prop(1, One(None))>>)>> }
=============================================================================
