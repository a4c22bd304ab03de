--------------------------- MODULE MCLookupTable ----------------------------
(* Model-checking instance of LookupTable: a table of nine slots with the  *)
(* homes crowded at its end, so that chains collide and wrap around.       *)
EXTENDS LookupTable

MCHash == [id \in Ids |-> (CASE id \in {1, 2} -> 7 [] id \in {3, 4} -> 8
                              [] id = 5 -> 0 [] id = 6 -> 1) % LookupSize]
=============================================================================
