------------------------------ MODULE SpscRing ------------------------------
(***************************************************************************)
(* queue::SpscRing<T, Capacity>: one producer thread, one consumer thread, *)
(* two free-running counters that wrap, and release/acquire atomics.       *)
(*                                                                         *)
(* pushed and popped count the stores to producer_head_ and consumer_tail_;*)
(* the atomics hold these counts modulo Wrap.  A thread reads its own      *)
(* counter exactly, and an atomic load of the other's may return any value *)
(* from the one it read last up to the newest one: head_acquired and       *)
(* tail_acquired are the counts read last.  A load with memory_order_      *)
(* acquire makes what the other thread did before that store visible.      *)
(* The n-th item pushed, from 0, is Feed(n).                               *)
(***************************************************************************)
EXTENDS Integers

CONSTANTS Capacity,   \* slots of storage_
          Wrap,       \* 2^64, the range of the counters
          Laps,       \* Wrap \div Capacity
          MaxItems,   \* how many items the producer pushes
          Feed(_),    \* the items, in order
          Blank       \* a slot never written, or moved from

ASSUME CapacityAssumption == Capacity \in Nat /\ Capacity >= 2
ASSUME WrapAssumption == Laps \in Nat /\ Laps >= 2 /\ Wrap \in Nat /\ Wrap = Capacity * Laps
ASSUME ItemsAssumption == MaxItems \in Nat

VARIABLES storage_, producer_head_, consumer_tail_,
          p_pc, tail_acquired,          \* the producer inside try_push()
          c_pc, head_acquired, output,  \* the consumer inside try_pop()
          pushed, popped
ringVars == <<storage_, producer_head_, consumer_tail_, p_pc, tail_acquired,
              c_pc, head_acquired, output, pushed, popped>>

slot_short_mask(counter) == counter % (Capacity - 1)
(* mask is Capacity - 1 and Capacity a power of two. *)
slot(counter) == counter % Capacity

(* head - tail in std::uint64_t. *)
distance(head, tail) == (head - tail) % Wrap
-----------------------------------------------------------------------------
(* try_push(value) *)
try_push_load_relaxed(t) ==
    /\ p_pc = "idle" /\ pushed < MaxItems
    /\ p_pc' = IF distance(producer_head_, t % Wrap) >= Capacity THEN "idle" ELSE "write"
    /\ UNCHANGED <<storage_, producer_head_, consumer_tail_, tail_acquired, c_pc,
                   head_acquired, output, pushed, popped>>
try_push_load_off_by_one(t) ==
    /\ p_pc = "idle" /\ pushed < MaxItems
    /\ tail_acquired' = t
    /\ p_pc' = IF distance(producer_head_, t % Wrap) > Capacity THEN "idle" ELSE "write"
    /\ UNCHANGED <<storage_, producer_head_, consumer_tail_, c_pc, head_acquired, output,
                   pushed, popped>>
try_push_load(t) ==
    /\ p_pc = "idle" /\ pushed < MaxItems
    /\ tail_acquired' = t
    /\ p_pc' = IF distance(producer_head_, t % Wrap) >= Capacity THEN "idle" ELSE "write"
    /\ UNCHANGED <<storage_, producer_head_, consumer_tail_, c_pc, head_acquired, output,
                   pushed, popped>>

try_push_write ==
    /\ p_pc = "write"
    /\ storage_' = [storage_ EXCEPT ![slot(producer_head_)] = Feed(pushed)]
    /\ p_pc' = "publish"
    /\ UNCHANGED <<producer_head_, consumer_tail_, tail_acquired, c_pc, head_acquired,
                   output, pushed, popped>>

try_push_publish ==
    /\ p_pc = "publish"
    /\ producer_head_' = (producer_head_ + 1) % Wrap
    /\ pushed' = pushed + 1
    /\ p_pc' = "idle"
    /\ UNCHANGED <<storage_, consumer_tail_, tail_acquired, c_pc, head_acquired, output, popped>>

(* try_pop(output).  The move may leave the item behind. *)
try_pop_load(h) ==
    /\ c_pc = "idle"
    /\ head_acquired' = h
    /\ c_pc' = IF consumer_tail_ = h % Wrap THEN "idle" ELSE "read"
    /\ UNCHANGED <<storage_, producer_head_, consumer_tail_, p_pc, tail_acquired, output,
                   pushed, popped>>

try_pop_read ==
    /\ c_pc = "read"
    /\ output' = storage_[slot(consumer_tail_)]
    /\ \E left \in {storage_[slot(consumer_tail_)], Blank} :
          storage_' = [storage_ EXCEPT ![slot(consumer_tail_)] = left]
    /\ c_pc' = "publish"
    /\ UNCHANGED <<producer_head_, consumer_tail_, p_pc, tail_acquired, head_acquired,
                   pushed, popped>>

try_pop_publish ==
    /\ c_pc = "publish"
    /\ consumer_tail_' = (consumer_tail_ + 1) % Wrap
    /\ popped' = popped + 1
    /\ c_pc' = "idle"
    /\ UNCHANGED <<storage_, producer_head_, p_pc, tail_acquired, head_acquired, output, pushed>>

(* empty() and size() in the consumer thread, and any other acquire load   *)
(* there that synchronizes with the producer.                              *)
empty_load(h) ==
    /\ c_pc = "idle"
    /\ head_acquired' = h
    /\ UNCHANGED <<storage_, producer_head_, consumer_tail_, p_pc, tail_acquired, c_pc,
                   output, pushed, popped>>

try_push == (\E t \in tail_acquired .. popped : try_push_load(t))
            \/ try_push_write \/ try_push_publish
try_pop  == (\E h \in head_acquired .. pushed : try_pop_load(h))
            \/ try_pop_read \/ try_pop_publish
empty    == \E h \in head_acquired .. pushed : empty_load(h)

RingInit ==
    /\ storage_ = [i \in 0 .. Capacity - 1 |-> Blank]
    /\ producer_head_ = 0 /\ consumer_tail_ = 0 /\ pushed = 0 /\ popped = 0
    /\ p_pc = "idle" /\ tail_acquired = 0
    /\ c_pc = "idle" /\ head_acquired = 0 /\ output = Blank

RingSpec == RingInit /\ [][try_push \/ try_pop \/ empty]_ringVars
-----------------------------------------------------------------------------
RingTypeOK ==
    /\ DOMAIN storage_ = 0 .. Capacity - 1
    /\ producer_head_ \in 0 .. Wrap - 1 /\ consumer_tail_ \in 0 .. Wrap - 1
    /\ p_pc \in {"idle", "write", "publish"} /\ c_pc \in {"idle", "read", "publish"}
    /\ pushed \in Nat /\ popped \in Nat /\ tail_acquired \in Nat /\ head_acquired \in Nat

(* Behind the other properties: the atomics hold the counts, the counts    *)
(* loaded lag behind but never by more than the ring holds, and every item *)
(* between popped and pushed is in its slot or in output.                  *)
RingInv ==
    /\ RingTypeOK
    /\ producer_head_ = pushed % Wrap /\ consumer_tail_ = popped % Wrap
    /\ tail_acquired <= popped /\ popped <= head_acquired /\ head_acquired <= pushed
    /\ pushed <= tail_acquired + Capacity
    /\ p_pc # "idle" => pushed < tail_acquired + Capacity /\ pushed < MaxItems
    /\ pushed <= MaxItems
    /\ c_pc # "idle" => popped < head_acquired
    /\ \A n \in popped .. pushed - 1 :
          storage_[slot(n)] = Feed(n) \/ (n = popped /\ c_pc = "publish")
    /\ p_pc = "publish" => storage_[slot(pushed)] = Feed(pushed)
    /\ c_pc = "publish" => output = Feed(popped)

(* No data race on storage_, whatever stale counters the threads load: the *)
(* threads never access one slot at the same time, the read of the slot's  *)
(* previous item happens before the producer overwrites it, and the write  *)
(* of an item happens before the consumer reads it.                        *)
NoDataRace ==
    /\ p_pc = "write" /\ c_pc = "read" => slot(producer_head_) # slot(consumer_tail_)
    /\ p_pc = "write" => pushed - Capacity < tail_acquired
    /\ c_pc = "read" => popped < head_acquired

(* Every item comes out once and in the order it went in, also after the   *)
(* counters wrapped around.                                                *)
Fifo == c_pc = "publish" => output = Feed(popped)

(* empty() and size() as either thread computes them, from its own counter *)
(* and any value its load of the other one may return: size() stays within *)
(* the capacity, never the huge number of an underflow, and the consumer   *)
(* finds the ring empty only when it has taken all it can see.             *)
SizeWithinCapacity ==
    /\ \A t \in tail_acquired .. popped : distance(producer_head_, t % Wrap) <= Capacity
    /\ \A h \in head_acquired .. pushed :
          /\ distance(h % Wrap, consumer_tail_) <= Capacity
          /\ (consumer_tail_ = h % Wrap) <=> popped = h
=============================================================================
