---------------------------- MODULE MCOrderBook -----------------------------
(* Model-checking instance of OrderBook. *)
EXTENDS OrderBook, TLC

(* Ids are only compared for equality. *)
IdSymmetry == Permutations(Ids)

(* What the next message does depends on the book alone. *)
BookView == book
=============================================================================
