------------------------------ MODULE BookSpec ------------------------------
(***************************************************************************)
(* What book::OrderBook promises its caller, with no pools, links, hash    *)
(* table or trees: one first-in first-out queue of resting orders per side *)
(* and price, a fixed number of orders and of price levels, and for every  *)
(* message an answer; an answer other than "none" leaves the queues        *)
(* exactly as they were.                                                   *)
(***************************************************************************)
EXTENDS Naturals, Sequences, FiniteSets

CONSTANTS Ids, Prices, Quantities, MaxOrders, MaxLevels, Stocks, Accepts(_)

VARIABLES queue,    \* queue[side][price]: the resting orders, oldest first
          message,  \* the message handled last
          result    \* the answer to it

Sides == {"buy", "sell"}

Messages ==
    [type : {"AddOrder"}, stock : Stocks, id : Ids, side : Sides, quantity : Quantities,
     price : Prices]
    \cup [type : {"OrderExecuted", "OrderCancel"}, id : Ids, quantity : Quantities]
    \cup [type : {"OrderDelete"}, id : Ids]
    \cup [type : {"OrderReplace"}, id : Ids, new_id : Ids, quantity : Quantities, price : Prices]
    \cup [type : {"Other"}]

Resting(q) == {e \in Sides \X Prices \X (1..MaxOrders) : e[3] <= Len(q[e[1]][e[2]])}
At(q, e) == q[e[1]][e[2]][e[3]]
Where(q, id) == {e \in Resting(q) : At(q, e).id = id}

NoRoomAt(q, s, p) ==
    /\ q[s][p] = <<>>
    /\ Cardinality({e \in Sides \X Prices : q[e[1]][e[2]] # <<>>}) >= MaxLevels

Without(q, e) ==
    [q EXCEPT ![e[1]][e[2]] = SubSeq(@, 1, e[3] - 1) \o SubSeq(@, e[3] + 1, Len(@))]
WithLast(q, s, p, id, n) == [q EXCEPT ![s][p] = Append(@, [id |-> id, quantity |-> n])]

Refuse(q, error) == result' = error /\ queue' = q
Accept(q)        == result' = "none" /\ queue' = q
-----------------------------------------------------------------------------
Add(q, m) ==
    IF ~Accepts(m.stock) THEN Refuse(q, "wrong_symbol")
    ELSE IF m.quantity = 0 THEN Refuse(q, "invalid_quantity")
    ELSE IF Where(q, m.id) # {} THEN Refuse(q, "duplicate_order")
    ELSE IF Cardinality(Resting(q)) = MaxOrders THEN Refuse(q, "order_pool_exhausted")
    ELSE IF NoRoomAt(q, m.side, m.price) THEN Refuse(q, "level_pool_exhausted")
    ELSE Accept(WithLast(q, m.side, m.price, m.id, m.quantity))

(* An execution or a partial cancel keeps the order's place in its queue. *)
Reduce(q, e, n) ==
    IF n = 0 \/ n > At(q, e).quantity THEN Refuse(q, "invalid_quantity")
    ELSE IF n = At(q, e).quantity THEN Accept(Without(q, e))
    ELSE Accept([q EXCEPT ![e[1]][e[2]][e[3]].quantity = @ - n])

(* A replaced order keeps its side and loses its place; it is replaced as  *)
(* a whole or left alone.  The level for the new price must be available   *)
(* before the old order gives up its own.                                  *)
Replace(q, e, m) ==
    IF m.quantity = 0 THEN Refuse(q, "invalid_quantity")
    ELSE IF m.new_id # m.id /\ Where(q, m.new_id) # {} THEN Refuse(q, "duplicate_order")
    ELSE IF m.price # e[2] /\ NoRoomAt(q, e[1], m.price) THEN Refuse(q, "level_pool_exhausted")
    ELSE Accept(WithLast(Without(q, e), e[1], m.price, m.new_id, m.quantity))

(* Executions, cancels, deletes and replaces act on a resting order. *)
Lifecycle(q, m) ==
    \/ Where(q, m.id) = {} /\ Refuse(q, "unknown_order")
    \/ \E e \in Where(q, m.id) :
          \/ m.type \in {"OrderExecuted", "OrderCancel"} /\ Reduce(q, e, m.quantity)
          \/ m.type = "OrderDelete" /\ Accept(Without(q, e))
          \/ m.type = "OrderReplace" /\ Replace(q, e, m)
-----------------------------------------------------------------------------
Init == /\ queue = [s \in Sides |-> [p \in Prices |-> <<>>]]
        /\ message = [type |-> "Other"]
        /\ result = "none"

Next == LET q == queue
            m == message'
        IN  /\ message' \in Messages
            /\ \/ m.type = "AddOrder" /\ Add(q, m)
               \/ m.type = "Other" /\ Accept(q)
               \/ m.type \notin {"AddOrder", "Other"} /\ Lifecycle(q, m)

Spec == Init /\ [][Next]_<<queue, message, result>>
=============================================================================
