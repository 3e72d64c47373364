------------------------- MODULE MCSpecialAttributes -------------------------
(* Two names, one of them with an "=", and two roles. *)
EXTENDS SpecialAttributes
=============================================================================
