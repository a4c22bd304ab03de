-------------------------- MODULE MCThreadedReplay --------------------------
(* Model-checking instance of ThreadedReplay: all messages differ, and the *)
(* counters wrap around.                                                   *)
EXTENDS ThreadedReplay

MCFeed(n) == n
=============================================================================
