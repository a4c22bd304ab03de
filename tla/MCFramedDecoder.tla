-------------------------- MODULE MCFramedDecoder --------------------------
(* Model-checking instance of FramedDecoder. *)
EXTENDS FramedDecoder

(* The first byte of a message is its type. *)
MCParse(m) == CASE m[1] = 0 -> "unsupported" [] m[1] = 1 /\ Len(m) = 1 -> "malformed"
                [] OTHER -> "decoded"
=============================================================================
