---------------------------- MODULE MCSchemaLoad ----------------------------
(* Small instances of SchemaLoad. *)
EXTENDS SchemaLoad
=============================================================================
