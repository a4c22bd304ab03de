----------------------------- MODULE OrderBook ------------------------------
(***************************************************************************)
(* book::OrderBook: fixed pools of orders and price levels, intrusive      *)
(* doubly linked FIFO queues, the id lookup and the per-side price index.  *)
(*                                                                         *)
(* The free lists are the sequences that free_next threads through the     *)
(* pools.  The id lookup is the dictionary that module LookupTable shows   *)
(* the hash table to be, and the price index the one that module LevelTree *)
(* shows the two AVL trees to be.  Every operation takes a book and        *)
(* returns a book, in the order of the statements of the C++ function.     *)
(***************************************************************************)
EXTENDS Integers, Sequences, FiniteSets, Functions

CONSTANTS Ids, Prices, Quantities,  \* the values the messages carry
          MaxOrders, MaxLevels,     \* the constructor's capacities
          Stocks, Symbol,           \* stocks on the feed, and the book's symbol
          NoId                      \* the id of a slot that holds no order

none == -1
AnySymbol == "any"                  \* the empty symbol_

ASSUME CapacityAssumption == MaxOrders \in Nat \ {0} /\ MaxLevels \in Nat \ {0}
ASSUME ValueAssumption ==
    /\ Prices \subseteq Nat /\ Quantities \subseteq Nat
    /\ NoId \notin Ids /\ Symbol \in Stocks \cup {AnySymbol}

Sides      == {"buy", "sell"}
OrderIndex == 0 .. MaxOrders - 1
LevelIndex == 0 .. MaxLevels - 1
LookupSize == IF 2 * MaxOrders + 1 > 8 THEN 2 * MaxOrders + 1 ELSE 8

BookErrors == {"none", "duplicate_order", "unknown_order", "invalid_quantity",
               "order_pool_exhausted", "lookup_full", "level_pool_exhausted", "wrong_symbol"}

BlankOrder == [id |-> NoId, price |-> 0, quantity |-> 0, side |-> "unset", level |-> none,
               prev |-> none, next |-> none, active |-> FALSE]
BlankLevel == [price |-> 0, total_quantity |-> 0, order_count |-> 0,
               head |-> none, tail |-> none, active |-> FALSE]

VARIABLES book,    \* the OrderBook object
          stats,   \* the message counters of BookStats
          result,  \* the BookError process() returned last
          message  \* the message it was called with
vars == <<book, stats, result, message>>
-----------------------------------------------------------------------------
(* The two pools. *)
acquire_order(b) ==
    [b EXCEPT !.orders[Head(b.free_order)] = [BlankOrder EXCEPT !.active = TRUE],
              !.free_order = Tail(@)]

release_order_leaks(b, o) == [b EXCEPT !.orders[o] = BlankOrder]
release_order(b, o) ==
    [b EXCEPT !.orders[o] = BlankOrder, !.free_order = <<o>> \o @]

level_find(b, side, p) == b.index[side][p]

level_get_or_add(b, side, p) ==
    IF level_find(b, side, p) # none \/ b.free_level = <<>> THEN b
    ELSE LET n == Head(b.free_level) IN
         [b EXCEPT !.levels[n] = [BlankLevel EXCEPT !.price = p, !.active = TRUE],
                   !.free_level = Tail(@),
                   !.index[side][p] = n,
                   !.active_levels = @ + 1]

level_remove_keeps_entry(b, side, l) ==
    [b EXCEPT !.levels[l] = BlankLevel, !.free_level = <<l>> \o @, !.active_levels = @ - 1]
level_remove(b, side, l) ==
    [b EXCEPT !.index[side][b.levels[l].price] = none,
              !.levels[l] = BlankLevel,
              !.free_level = <<l>> \o @,
              !.active_levels = @ - 1]

remove_if_empty(b, side, l) ==
    IF b.levels[l].order_count = 0 THEN level_remove(b, side, l) ELSE b
-----------------------------------------------------------------------------
(* The intrusive FIFO queue of a level. *)
set_next(b, o, x) == IF o = none THEN b ELSE [b EXCEPT !.orders[o].next = x]
set_prev(b, o, x) == IF o = none THEN b ELSE [b EXCEPT !.orders[o].prev = x]

append_in_front(b, l, o) ==
    LET level  == b.levels[l]
        linked == [b EXCEPT !.orders[o] = [@ EXCEPT !.prev = none, !.next = level.head]]
    IN  [set_prev(linked, level.head, o) EXCEPT !.levels[l] =
            [level EXCEPT !.tail = IF level.head = none THEN o ELSE @,
                          !.head = o,
                          !.total_quantity = @ + b.orders[o].quantity,
                          !.order_count = @ + 1]]
append(b, l, o) ==
    LET level  == b.levels[l]
        linked == [b EXCEPT !.orders[o] = [@ EXCEPT !.prev = level.tail, !.next = none]]
    IN  [set_next(linked, level.tail, o) EXCEPT !.levels[l] =
            [level EXCEPT !.head = IF level.tail = none THEN o ELSE @,
                          !.tail = o,
                          !.total_quantity = @ + b.orders[o].quantity,
                          !.order_count = @ + 1]]

unlink_one_way(b, l, o) ==
    LET before == b.orders[o].prev
        after  == b.orders[o].next
    IN  [set_next(b, before, after) EXCEPT !.levels[l] =
            [b.levels[l] EXCEPT !.head = IF before = none THEN after ELSE @,
                                !.tail = IF after = none THEN before ELSE @,
                                !.total_quantity = @ - b.orders[o].quantity,
                                !.order_count = @ - 1]]
unlink(b, l, o) ==
    LET before == b.orders[o].prev
        after  == b.orders[o].next
    IN  [set_prev(set_next(b, before, after), after, before) EXCEPT !.levels[l] =
            [b.levels[l] EXCEPT !.head = IF before = none THEN after ELSE @,
                                !.tail = IF after = none THEN before ELSE @,
                                !.total_quantity = @ - b.orders[o].quantity,
                                !.order_count = @ - 1]]

lookup_find(b, id)      == b.lookup[id]
lookup_insert(b, id, o) == [b EXCEPT !.lookup[id] = o]
lookup_erase(b, id)     == [b EXCEPT !.lookup[id] = none]
lookup_is_full(b)       == Cardinality({i \in Ids : b.lookup[i] # none}) >= LookupSize
-----------------------------------------------------------------------------
(* The operations: each returns the new book and a BookError. *)
Return(b, e) == [book |-> b, error |-> e]

add(b, id, side, q, p) ==
    IF q = 0 THEN Return(b, "invalid_quantity")
    ELSE IF lookup_find(b, id) # none THEN Return(b, "duplicate_order")
    ELSE IF b.free_order = <<>> THEN Return(b, "order_pool_exhausted")
    ELSE LET o  == Head(b.free_order)
             b1 == level_get_or_add(acquire_order(b), side, p)
             l  == level_find(b1, side, p)
             b2 == [b1 EXCEPT !.orders[o] = [@ EXCEPT !.id = id, !.side = side, !.quantity = q,
                                                      !.price = p, !.level = l]]
         IN  IF l = none THEN Return(release_order(b1, o), "level_pool_exhausted")
             ELSE IF lookup_is_full(b2)
                  THEN Return(release_order(remove_if_empty(b2, side, l), o), "lookup_full")
             ELSE Return([append(lookup_insert(b2, id, o), l, o)
                             EXCEPT !.active_orders = @ + 1], "none")

drop_releases_first(b, o) ==
    LET side == b.orders[o].side
        l    == b.orders[o].level
        b1   == release_order(unlink(b, l, o), o)
        id   == b1.orders[o].id
        b2   == IF id = NoId THEN b1 ELSE lookup_erase(b1, id)
    IN  remove_if_empty([b2 EXCEPT !.active_orders = @ - 1], side, l)

(* The tail that reduce() and erase() share: take an order out of its      *)
(* queue, the lookup and the pool, and its level with it if it was the     *)
(* last one.                                                               *)
drop(b, o) ==
    LET side == b.orders[o].side
        l    == b.orders[o].level
        id   == b.orders[o].id
        b1   == release_order(lookup_erase(unlink(b, l, o), id), o)
    IN  remove_if_empty([b1 EXCEPT !.active_orders = @ - 1], side, l)

reduce_unchecked(b, o, q) ==
    IF q = 0 THEN Return(b, "invalid_quantity")
    ELSE LET b1 == [b EXCEPT !.levels[b.orders[o].level].total_quantity = @ - q,
                             !.orders[o].quantity = @ - q]
         IN  Return(IF b1.orders[o].quantity = 0 THEN drop(b1, o) ELSE b1, "none")
reduce_order_only(b, o, q) ==
    IF q = 0 \/ q > b.orders[o].quantity THEN Return(b, "invalid_quantity")
    ELSE LET b1 == [b EXCEPT !.orders[o].quantity = @ - q]
         IN  Return(IF b1.orders[o].quantity = 0 THEN drop(b1, o) ELSE b1, "none")
reduce(b, o, q) ==
    IF q = 0 \/ q > b.orders[o].quantity THEN Return(b, "invalid_quantity")
    ELSE LET b1 == [b EXCEPT !.levels[b.orders[o].level].total_quantity = @ - q,
                             !.orders[o].quantity = @ - q]
         IN  Return(IF b1.orders[o].quantity = 0 THEN drop(b1, o) ELSE b1, "none")

execute(b, id, q) ==
    IF lookup_find(b, id) = none THEN Return(b, "unknown_order")
    ELSE reduce(b, lookup_find(b, id), q)

cancel(b, id, q) == execute(b, id, q)

erase(b, id) ==
    IF lookup_find(b, id) = none THEN Return(b, "unknown_order")
    ELSE Return(drop(b, lookup_find(b, id)), "none")

replace_unreserved(b, oldid, newid, q, p) ==
    LET old == lookup_find(b, oldid) IN
    IF old = none THEN Return(b, "unknown_order")
    ELSE IF q = 0 THEN Return(b, "invalid_quantity")
    ELSE IF newid # oldid /\ lookup_find(b, newid) # none THEN Return(b, "duplicate_order")
    ELSE add(erase(b, oldid).book, newid, b.orders[old].side, q, p)
replace(b, oldid, newid, q, p) ==
    LET old == lookup_find(b, oldid) IN
    IF old = none THEN Return(b, "unknown_order")
    ELSE IF q = 0 THEN Return(b, "invalid_quantity")
    ELSE IF newid # oldid /\ lookup_find(b, newid) # none THEN Return(b, "duplicate_order")
    ELSE IF /\ p # b.orders[old].price
            /\ level_find(b, b.orders[old].side, p) = none
            /\ b.free_level = <<>>
         THEN Return(b, "level_pool_exhausted")
    ELSE add(erase(b, oldid).book, newid, b.orders[old].side, q, p)
-----------------------------------------------------------------------------
(* process(): one action per kind of message. *)
Counter(e) == IF e = "none" THEN "accepted"
              ELSE IF e \in {"wrong_symbol", "unknown_order"} THEN "ignored" ELSE "rejected"

Finish(m, r) ==
    /\ message' = m /\ book' = r.book /\ result' = r.error
    /\ stats' = [stats EXCEPT ![Counter(r.error)] = @ + 1]

symbol_matches(stock) == Symbol = AnySymbol \/ stock = Symbol

AddOrder(stock, id, side, q, p) ==
    Finish([type |-> "AddOrder", stock |-> stock, id |-> id, side |-> side,
            quantity |-> q, price |-> p],
           IF symbol_matches(stock) THEN add(book, id, side, q, p)
           ELSE Return(book, "wrong_symbol"))
OrderExecuted(id, q) ==
    Finish([type |-> "OrderExecuted", id |-> id, quantity |-> q], execute(book, id, q))
OrderCancel(id, q) ==
    Finish([type |-> "OrderCancel", id |-> id, quantity |-> q], cancel(book, id, q))
OrderDelete(id) ==
    Finish([type |-> "OrderDelete", id |-> id], erase(book, id))
OrderReplace(oldid, newid, q, p) ==
    Finish([type |-> "OrderReplace", id |-> oldid, new_id |-> newid,
            quantity |-> q, price |-> p], replace(book, oldid, newid, q, p))
OtherMessage ==
    Finish([type |-> "Other"], Return(book, "none"))

Init ==
    /\ book = [orders |-> [o \in OrderIndex |-> BlankOrder],
               free_order |-> [i \in 1 .. MaxOrders |-> i - 1],
               levels |-> [l \in LevelIndex |-> BlankLevel],
               free_level |-> [i \in 1 .. MaxLevels |-> i - 1],
               index |-> [s \in Sides |-> [p \in Prices |-> none]],
               lookup |-> [id \in Ids |-> none],
               active_orders |-> 0, active_levels |-> 0]
    /\ stats = [accepted |-> 0, ignored |-> 0, rejected |-> 0]
    /\ message = [type |-> "Other"]
    /\ result = "none"

Next ==
    \/ \E stock \in Stocks, id \in Ids, side \in Sides, q \in Quantities, p \in Prices :
          AddOrder(stock, id, side, q, p)
    \/ \E id \in Ids, q \in Quantities : OrderExecuted(id, q) \/ OrderCancel(id, q)
    \/ \E id \in Ids : OrderDelete(id)
    \/ \E oldid, newid \in Ids, q \in Quantities, p \in Prices : OrderReplace(oldid, newid, q, p)
    \/ OtherMessage

Spec == Init /\ [][Next]_vars
-----------------------------------------------------------------------------
OrderType == [id : Ids \cup {NoId}, price : Nat, quantity : Nat, side : Sides \cup {"unset"},
              level : LevelIndex \cup {none}, prev : OrderIndex \cup {none},
              next : OrderIndex \cup {none}, active : BOOLEAN]
LevelType == [price : Nat, total_quantity : Int, order_count : Int,
              head : OrderIndex \cup {none}, tail : OrderIndex \cup {none}, active : BOOLEAN]
BookType  == [orders : [OrderIndex -> OrderType], free_order : Seq(OrderIndex),
              levels : [LevelIndex -> LevelType], free_level : Seq(LevelIndex),
              index : [Sides -> [Prices -> LevelIndex \cup {none}]],
              lookup : [Ids -> OrderIndex \cup {none}],
              active_orders : Int, active_levels : Int]
(* The types of the pools, links, index and counters: process() never      *)
(* leaves an index outside its pool or a negative quantity.                *)
TypeOK == /\ book \in BookType /\ result \in BookErrors
          /\ stats \in [accepted : Nat, ignored : Nat, rejected : Nat]

Live(b)      == {o \in OrderIndex : b.orders[o].active}
Members(b, l) == {o \in Live(b) : b.orders[o].level = l}
Lists(s, S)  == /\ \A i \in DOMAIN s : s[i] \in S
                /\ \A x \in S : \E i \in DOMAIN s : s[i] = x
                /\ \A i, j \in DOMAIN s : s[i] = s[j] => i = j

(* What holds of a book b between two calls, part by part.                 *)
PoolsWhole(b) ==
    /\ Lists(b.free_order, OrderIndex \ Live(b))
    /\ Lists(b.free_level, {l \in LevelIndex : ~b.levels[l].active})
    /\ \A o \in OrderIndex \ Live(b) : b.orders[o] = BlankOrder

LookupAgrees(b) ==
    /\ \A id \in Ids : b.lookup[id] # none =>
          b.lookup[id] \in Live(b) /\ b.orders[b.lookup[id]].id = id
    /\ \A o \in Live(b) : b.orders[o].id \in Ids /\ b.lookup[b.orders[o].id] = o

IndexAgrees(b) ==
    /\ \A s \in Sides, p \in Prices : b.index[s][p] # none =>
          b.levels[b.index[s][p]].active /\ b.levels[b.index[s][p]].price = p
    /\ \A s, t \in Sides, p, r \in Prices :
          b.index[s][p] # none /\ b.index[s][p] = b.index[t][r] => s = t /\ p = r
    /\ \A l \in LevelIndex : b.levels[l].active =>
          \E s \in Sides, p \in Prices : b.index[s][p] = l
    /\ \A o \in Live(b) :
          LET r == b.orders[o] IN r.side \in Sides /\ r.price \in Prices /\ r.level # none
                                  /\ r.level = b.index[r.side][r.price]

LinksAgree(b) ==
    \A o \in Live(b) :
        LET r == b.orders[o] IN
        /\ IF r.prev = none THEN b.levels[r.level].head = o
           ELSE r.prev \in Members(b, r.level) /\ b.orders[r.prev].next = o
        /\ IF r.next = none THEN b.levels[r.level].tail = o
           ELSE r.next \in Members(b, r.level) /\ b.orders[r.next].prev = o

EndsAt(b, l) ==
    /\ b.levels[l].head \in Members(b, l) /\ b.orders[b.levels[l].head].prev = none
    /\ b.levels[l].tail \in Members(b, l) /\ b.orders[b.levels[l].tail].next = none

Quantity(b) == [o \in OrderIndex |-> b.orders[o].quantity]
TotalsAt(b, l) ==
    /\ b.levels[l].order_count = Cardinality(Members(b, l))
    /\ b.levels[l].total_quantity = SumFunctionOnSet(Quantity(b), Members(b, l))
PoolsCounted(b) ==
    /\ b.active_orders = Cardinality(Live(b))
    /\ b.active_levels = Cardinality({l \in LevelIndex : b.levels[l].active})

(* No slot leaks and none is handed out twice: after any sequence of       *)
(* messages, failed adds and replaces included, each free list holds       *)
(* exactly the inactive slots of its pool, each of them once, and nothing  *)
(* of a former order is left in a free slot.                               *)
PoolsExact == PoolsWhole(book)

(* lookup_find(id) is the live order with that id and nothing else: no     *)
(* lookup entry survives its order, points at a reused slot, or is missing.*)
LookupExact == LookupAgrees(book)

(* The price index and the levels agree: a (side, price) entry leads to an *)
(* active level of that price, an active level is reached from exactly one *)
(* entry, and a live order rests on the level of its own side and price.   *)
IndexExact == IndexAgrees(book)

(* append() and unlink() keep every level's doubly linked queue whole: the *)
(* two directions agree, links stay inside the level, and head and tail    *)
(* are the only orders without a predecessor or a successor.               *)
QueuesLinked ==
    /\ LinksAgree(book)
    /\ \A l \in LevelIndex : book.levels[l].active => EndsAt(book, l)

(* What best_bid(), best_ask() and depth() report is true: a level's       *)
(* total_quantity and order_count are those of the orders resting on it,   *)
(* no order rests with quantity zero and no empty level is left in the     *)
(* index, and the two counters of stats() are the sizes of the pools' use. *)
TotalsExact ==
    /\ \A l \in LevelIndex : book.levels[l].active =>
          Members(book, l) # {} /\ TotalsAt(book, l)
    /\ \A o \in Live(book) : book.orders[o].quantity > 0
    /\ PoolsCounted(book)

(* A call that reports an error has no effect, down to the order of the    *)
(* free lists: add() gives back the slot it took when the level pool is    *)
(* exhausted, and replace() never erases the old order without adding the  *)
(* new one.                                                                *)
ErrorsChangeNothing == [][result' # "none" => book' = book]_vars

(* The queue of a level, walked from head along next. *)
Fifo(b, l) ==
    LET at[k \in 1 .. MaxOrders] ==
            IF k = 1 THEN b.levels[l].head
            ELSE IF at[k - 1] = none THEN none ELSE b.orders[at[k - 1]].next
        length == Cardinality({k \in 1 .. MaxOrders : at[k] # none})
    IN  [k \in 1 .. length |-> [id |-> b.orders[at[k]].id, quantity |-> b.orders[at[k]].quantity]]

Spec_queue ==
    [s \in Sides |-> [p \in Prices |->
        IF book.index[s][p] = none THEN <<>> ELSE Fifo(book, book.index[s][p])]]

Promise == INSTANCE BookSpec WITH queue <- Spec_queue, Accepts <- symbol_matches

(* The pools, links and indexes implement the abstract book: same answers, *)
(* same time priority at every price, replace() all or nothing.            *)
ImplementsBookSpec == Promise!Spec
=============================================================================
