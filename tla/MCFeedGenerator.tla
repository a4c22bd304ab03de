-------------------------- MODULE MCFeedGenerator ---------------------------
(* Model-checking instance of FeedGenerator. *)
EXTENDS FeedGenerator

MCPrices == {1850000 - 100 * k : k \in 0 .. 100} \cup {1850100 + 100 * k : k \in 0 .. 100}
MCQuantities == {50} \cup 100 .. 999
MCIds == LET Numbers == 1 .. 240 IN Numbers \cup {new_id(i) : i \in Numbers}

(* A book for 15 orders per 100 messages, as in the README's first example. *)
Fitting == {<<"mixed", 200>>, <<"mixed", 401>>, <<"sequential", 60>>}
=============================================================================
