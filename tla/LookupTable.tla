---------------------------- MODULE LookupTable -----------------------------
(***************************************************************************)
(* book::OrderBook's id lookup: an open-addressing hash table with linear  *)
(* probing, from which lookup_erase() deletes by shifting the entries that *)
(* follow back into the hole.  The shift runs one slot per step; every     *)
(* other operation is one step.  dict is what the table stands for: the    *)
(* dictionary that module OrderBook uses.                                  *)
(*                                                                         *)
(* No statement of the program assigns the state tombstone, so a slot is   *)
(* empty (its id is NoId) or occupied.                                     *)
(***************************************************************************)
EXTENDS Integers, FiniteSets

CONSTANTS Ids, Orders, MaxOrders,
          hash,                     \* the home position of each id
          NoId, NoOrder

LookupSize_is_pool_size == MaxOrders
LookupSize == IF 2 * MaxOrders + 1 > 8 THEN 2 * MaxOrders + 1 ELSE 8
Positions == 0 .. LookupSize - 1

ASSUME PoolAssumption == MaxOrders \in Nat \ {0}
ASSUME HashAssumption == hash \in [Ids -> Positions]
ASSUME NoneAssumption == NoId \notin Ids /\ NoOrder \notin Orders

VARIABLES lookup_id,     \* the id of each slot, NoId in an empty one
          lookup_order,  \* the order of each slot
          hole, scan,    \* the two positions of the shift loop
          pc,            \* "idle", or "shift" inside that loop
          dict           \* the order each id was inserted with
vars == <<lookup_id, lookup_order, hole, scan, pc, dict>>

after_clamped(pos) == IF pos + 1 < LookupSize THEN pos + 1 ELSE pos
after(pos) == (pos + 1) % LookupSize
Live == {id \in Ids : dict[id] # NoOrder}
-----------------------------------------------------------------------------
(* The probe loop of lookup_find(), lookup_insert() and lookup_erase():    *)
(* from the home position to the first slot that is empty or holds id.     *)
probe(id, n) == (hash[id] + n) % LookupSize
stops(id, n) == lookup_id[probe(id, n)] \in {id, NoId}
ends(id, n)  == stops(id, n) /\ \A m \in 0 .. n - 1 : ~stops(id, m)

lookup_find(id) ==
    IF \E n \in Positions : ends(id, n)
    THEN lookup_order[probe(id, CHOOSE n \in Positions : ends(id, n))]
    ELSE NoOrder

(* add() calls it for an id that lookup_find() did not find and an order   *)
(* that acquire_order() took from the pool of MaxOrders.                   *)
lookup_insert(id, o) ==
    /\ pc = "idle" /\ dict[id] = NoOrder /\ Cardinality(Live) < MaxOrders
    /\ IF \E n \in Positions : ends(id, n) /\ lookup_id[probe(id, n)] = NoId
       THEN /\ \E n \in Positions :
                  /\ ends(id, n)
                  /\ lookup_id'    = [lookup_id EXCEPT ![probe(id, n)] = id]
                  /\ lookup_order' = [lookup_order EXCEPT ![probe(id, n)] = o]
            /\ dict' = [dict EXCEPT ![id] = o]
       ELSE UNCHANGED <<lookup_id, lookup_order, dict>>  \* false: lookup_full
    /\ UNCHANGED <<hole, scan, pc>>

(* An id that is not in the table is left alone; otherwise the shift loop  *)
(* starts at the slot after the one that held it.                          *)
lookup_erase(id) ==
    /\ pc = "idle"
    /\ \E n \in Positions :
          /\ ends(id, n) /\ lookup_id[probe(id, n)] = id
          /\ hole' = probe(id, n)
          /\ scan' = after(probe(id, n))
    /\ pc' = "shift"
    /\ dict' = [dict EXCEPT ![id] = NoOrder]
    /\ UNCHANGED <<lookup_id, lookup_order>>

(* The entry at scan may not stay beyond the hole: its home is not in the  *)
(* cyclic interval after hole, up to scan.                                 *)
crosses_ignoring_wrap == hash[lookup_id[scan]] <= hole
crosses ==
    LET home == hash[lookup_id[scan]]
    IN  IF hole <= scan THEN home <= hole \/ home > scan ELSE home <= hole /\ home > scan

shift ==
    /\ pc = "shift" /\ lookup_id[scan] # NoId
    /\ \/ crosses /\ lookup_id' = [lookup_id EXCEPT ![hole] = lookup_id[scan]]
                  /\ lookup_order' = [lookup_order EXCEPT ![hole] = lookup_order[scan]]
                  /\ hole' = scan
       \/ ~crosses /\ UNCHANGED <<lookup_id, lookup_order, hole>>
    /\ scan' = after(scan)
    /\ UNCHANGED <<pc, dict>>

clear_hole ==
    /\ pc = "shift" /\ lookup_id[scan] = NoId
    /\ lookup_id'    = [lookup_id EXCEPT ![hole] = NoId]
    /\ lookup_order' = [lookup_order EXCEPT ![hole] = NoOrder]
    /\ pc' = "idle"
    /\ UNCHANGED <<hole, scan, dict>>

Init ==
    /\ lookup_id    = [pos \in Positions |-> NoId]
    /\ lookup_order = [pos \in Positions |-> NoOrder]
    /\ hole = 0 /\ scan = 0 /\ pc = "idle"
    /\ dict = [id \in Ids |-> NoOrder]

Next ==
    \/ \E id \in Ids, o \in Orders : lookup_insert(id, o)
    \/ \E id \in Ids : lookup_erase(id)
    \/ shift
    \/ clear_hole

Spec == Init /\ [][Next]_vars
(* The loop is sequential code: it is never left unfinished. *)
FairSpec == Spec /\ WF_vars(shift \/ clear_hole)
-----------------------------------------------------------------------------
(* Every slot is empty or holds an id and an order, and the loop's         *)
(* positions are slots.                                                    *)
TypeOK ==
    /\ lookup_id \in [Positions -> Ids \cup {NoId}]
    /\ lookup_order \in [Positions -> Orders \cup {NoOrder}]
    /\ hole \in Positions /\ scan \in Positions /\ pc \in {"idle", "shift"}
    /\ dict \in [Ids -> Orders \cup {NoOrder}]

(* lookup_find() answers for every id what was inserted last and not yet   *)
(* erased, whatever inserts, erases and shifts across the end of the table *)
(* came before: no erase cuts another id's probe chain, loses an entry,    *)
(* leaves two copies of one or leaves a dead one behind.                   *)
FindExact == pc = "idle" => \A id \in Ids : lookup_find(id) = dict[id]

(* There is always an empty slot: add() never reports lookup_full, every   *)
(* probe loop stops before it has gone round, and so does the shift loop,  *)
(* which has no other bound.                                               *)
NeverFull == \E pos \in Positions : lookup_id[pos] = NoId

(* The shift loop of lookup_erase() ends. *)
ShiftEnds == pc = "shift" ~> pc = "idle"
-----------------------------------------------------------------------------
(* What holds inside the loop.  The slot at hole is a copy of an entry     *)
(* that has been erased or moved; the other slots are the table.           *)
Held(pos) == lookup_id[pos] # NoId /\ ~(pc = "shift" /\ pos = hole)

(* pos is met on the way from a to b, b itself excluded. *)
Between(a, pos, b) == IF a <= b THEN a <= pos /\ pos < b ELSE a <= pos \/ pos < b

(* One entry per id, and it carries the order dict has. *)
EntriesExact ==
    /\ \A pos \in Positions : Held(pos) =>
          /\ dict[lookup_id[pos]] # NoOrder
          /\ lookup_order[pos] = dict[lookup_id[pos]]
    /\ \A p, q \in Positions : Held(p) /\ Held(q) /\ lookup_id[p] = lookup_id[q] => p = q
    /\ \A id \in Live : \E pos \in Positions : Held(pos) /\ lookup_id[pos] = id
    /\ \A pos \in Positions : lookup_id[pos] = NoId => lookup_order[pos] = NoOrder

(* No empty slot on the way from an entry's home to the entry. *)
ChainsWhole ==
    \A pos, q \in Positions :
        Held(pos) /\ Between(hash[lookup_id[pos]], q, pos) => lookup_id[q] # NoId

(* While the loop runs, the slots from hole up to scan are occupied, and   *)
(* the entries whose chain passes through the hole are still ahead.        *)
ShiftInv ==
    pc = "shift" =>
        /\ hole # scan
        /\ \A q \in Positions : Between(hole, q, scan) => lookup_id[q] # NoId
        /\ \A pos \in Positions :
              Held(pos) /\ Between(hash[lookup_id[pos]], hole, pos) => ~Between(hole, pos, scan)

(* acquire_order() never hands out more than the pool. *)
PoolBound == IsFiniteSet(Live) /\ Cardinality(Live) <= MaxOrders

(* The invariant of the table and of lookup_erase()'s loop: the parts      *)
(* above hold between operations and between any two turns of the loop.    *)
LoopInv == TypeOK /\ PoolBound /\ EntriesExact /\ ChainsWhole /\ NeverFull /\ ShiftInv
=============================================================================
