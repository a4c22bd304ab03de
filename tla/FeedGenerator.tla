--------------------------- MODULE FeedGenerator ----------------------------
(***************************************************************************)
(* generate_feed's workloads, each message replayed into the order book as *)
(* it is written.  That the parser gives the book the very message that    *)
(* was written is GeneratedMessagesParse of module ItchParser.             *)
(***************************************************************************)
EXTENDS OrderBook

CONSTANT Workloads   \* pairs of a mode and a number of messages
ASSUME WorkloadAssumption == Workloads \subseteq {"mixed", "sequential"} \X Nat

VARIABLES mode, count,  \* the arguments
          emitted, id,
          owed          \* whether the follow-up of the last add is still to be written
genvars == <<vars, mode, count, emitted, id, owed>>

side(i) == IF (i \div 4) % 2 # 0 THEN "buy" ELSE "sell"
offset(i) == (i % 100) * 100
quantity(i) == 100 + (i % 900)
price(i) == IF side(i) = "buy" THEN 1850000 - offset(i) ELSE 1850100 + offset(i)
new_ids == 1000000000
new_id(i) == i + new_ids
new_price(i) == IF side(i) = "buy" THEN price(i) - 100 ELSE price(i) + 100

(* What a workload asks of the book it is replayed into: room for the      *)
(* orders that it leaves there, which are a mixed feed's replaced ones and *)
(* all of a sequential feed's, and levels for as many, or for every price. *)
(* The new ids of a mixed feed start where its other ids have to end.      *)
Quoted(s) == {IF s = "buy" THEN 1850000 - 100 * k ELSE 1850100 + 100 * k : k \in 0 .. 100}
adds(w) == IF w[1] = "sequential" THEN w[2] ELSE (w[2] + 1) \div 2
room(w) == IF w[1] = "sequential" THEN w[2] ELSE (w[2] + 2) \div 8 + 1
ASSUME RoomAssumption ==
    /\ \A s \in Sides : Quoted(s) \subseteq Prices
    /\ {50} \cup 100 .. 999 \subseteq Quantities
    /\ \A w \in Workloads :
          /\ \A i \in 1 .. adds(w) : i \in Ids /\ new_id(i) \in Ids
          /\ MaxOrders >= room(w) /\ (MaxLevels >= room(w) \/ MaxLevels >= 202)
          /\ w[1] = "mixed" => adds(w) <= new_ids

GenInit == /\ Init
           /\ \E w \in Workloads : mode = w[1] /\ count = w[2]
           /\ emitted = 0 /\ id = 1 /\ owed = FALSE

Add == /\ ~owed /\ emitted < count
       /\ AddOrder(Symbol, id, side(id), quantity(id), price(id))
       /\ owed' = ~(mode = "sequential" \/ emitted + 1 = count)
       /\ id' = IF owed' THEN id ELSE id + 1

cancel_half == OrderCancel(id, quantity(id) \div 2)
cancel_all  == OrderCancel(id, quantity(id))
FollowUp ==
    /\ owed
    /\ \/ id % 4 = 0 /\ cancel_all
       \/ id % 4 = 1 /\ OrderExecuted(id, quantity(id))
       \/ id % 4 = 2 /\ OrderDelete(id)
       \/ id % 4 = 3 /\ OrderReplace(id, new_id(id), 50, new_price(id))
    /\ owed' = FALSE /\ id' = id + 1

GenNext == (Add \/ FollowUp) /\ emitted' = emitted + 1 /\ UNCHANGED <<mode, count>>
GenSpec == GenInit /\ [][GenNext]_genvars
-----------------------------------------------------------------------------
Written     == 1 .. id - 1          \* the ids that are dealt with
ReplacedIds == {i \in Written : i % 4 = 3}
LastAdd     == IF emitted = count THEN {i \in {id - 1} : emitted = 2 * i - 1} ELSE {}
LeftInBook  == IF mode = "sequential" THEN Written
               ELSE {new_id(i) : i \in ReplacedIds \ LastAdd} \cup LastAdd

(* A generated feed replays without a refused or ignored message, and what *)
(* it leaves in the book is known: a mixed feed's replaced orders, one for *)
(* every eight messages, which nothing ever takes out again.               *)
FeedReplaysClean ==
    /\ stats.rejected = 0 /\ stats.ignored = 0
    /\ ~owed => {book.orders[o].id : o \in Live(book)} = LeftInBook
=============================================================================
