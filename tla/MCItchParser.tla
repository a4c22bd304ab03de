---------------------------- MODULE MCItchParser ----------------------------
(* Model-checking instance of ItchParser. *)
EXTENDS ItchParser
=============================================================================
