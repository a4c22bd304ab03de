--------------------------- MODULE MCPacketExtract --------------------------
(* Model-checking instance of PacketExtract. *)
EXTENDS PacketExtract
=============================================================================
