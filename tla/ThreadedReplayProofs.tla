------------------------ MODULE ThreadedReplayProofs ------------------------
(***************************************************************************)
(* The ring: for every capacity and counter width, every number of items   *)
(* and every staleness of the loads, no data race, and first in first out. *)
(* Threaded replay: for every feed, capacity and interleaving it gives the *)
(* book what single-threaded replay gives it.                              *)
(***************************************************************************)
EXTENDS ThreadedReplay, TLAPS

(* Division with remainder. *)
LEMMA DivMod ==
  ASSUME NEW n \in Int, NEW c \in Nat, c > 0
  PROVE  n % c \in 0 .. c - 1 /\ \E d \in Int : n = c * d + (n % c)
  <1>1. n % c \in 0 .. c - 1 BY SMT
  <1>2. n \div c \in Int BY SMT
  <1>3. n = c * (n \div c) + (n % c) BY SMT
  <1> QED BY <1>1, <1>2, <1>3

(* A nonzero multiple of c is at least c away from zero. *)
LEMMA MultipleBound ==
  ASSUME NEW c \in Nat, c > 0, NEW d \in Int
  PROVE  (d >= 1 => c * d >= c) /\ (d <= -1 => c * d <= -c)
  <1>1. d >= 1 => c * d >= c BY SMT
  <1>2. d <= -1 => c * d <= -c BY SMT
  <1> QED BY <1>1, <1>2

(* The remainder is the one number below c that a multiple of c leaves. *)
LEMMA ModUnique ==
  ASSUME NEW c \in Nat, c > 0, NEW q \in Int, NEW r \in 0 .. c - 1, NEW x \in Int, x = c * q + r
  PROVE  x % c = r
  <1>1. PICK d \in Int : x = c * d + (x % c) BY DivMod
  <1>2. x % c \in 0 .. c - 1 BY DivMod
  <1>3. c * (q - d) = (x % c) - r
    <2>1. c * (q - d) = c * q - c * d BY SMT
    <2> QED BY <1>1, <1>2, <2>1
  <1>4. ~(q - d >= 1) /\ ~(q - d <= -1) BY <1>2, <1>3, MultipleBound
  <1>5. q = d BY <1>4
  <1> QED BY <1>1, <1>2, <1>5

(* The range of the counters exceeds the capacity. *)
LEMMA WrapFacts == Wrap \in Nat /\ Wrap > Capacity /\ Capacity > 0 /\ Capacity \in Nat
  <1>1. Capacity * Laps >= Capacity * 2 BY CapacityAssumption, WrapAssumption, SMT
  <1> QED BY <1>1, CapacityAssumption, WrapAssumption

(* DivMod for the counters. *)
LEMMA WrapDiv ==
  ASSUME NEW n \in Nat
  PROVE  n % Wrap \in 0 .. Wrap - 1 /\ \E d \in Int : n = Wrap * d + (n % Wrap)
  <1>1. n \in Int /\ Wrap \in Nat /\ Wrap > 0 BY WrapFacts
  <1> QED BY <1>1, DivMod, Zenon

(* The same for the slots. *)
LEMMA CapacityDiv ==
  ASSUME NEW n \in Nat
  PROVE  n % Capacity \in 0 .. Capacity - 1 /\ \E d \in Int : n = Capacity * d + (n % Capacity)
  <1>1. n \in Int /\ Capacity \in Nat /\ Capacity > 0 BY WrapFacts
  <1> QED BY <1>1, DivMod, Zenon

(* The distance of two wrapped counters is that of the counts. *)
LEMMA DistanceExact ==
  ASSUME NEW a \in Nat, NEW b \in Nat, b <= a, a - b <= Capacity
  PROVE  distance(a % Wrap, b % Wrap) = a - b
  <1>1. PICK d \in Int : a = Wrap * d + (a % Wrap) BY WrapDiv
  <1>2. PICK e \in Int : b = Wrap * e + (b % Wrap) BY WrapDiv
  <1>3. a % Wrap \in 0 .. Wrap - 1 /\ b % Wrap \in 0 .. Wrap - 1 BY WrapDiv
  <1>4. Wrap * (e - d) = Wrap * e - Wrap * d BY WrapFacts, SMT
  <1>5. e - d \in Int BY <1>1, <1>2
  <1>6. Wrap * (e - d) \in Int BY <1>5, WrapFacts
  <1>7. (a % Wrap) - (b % Wrap) = Wrap * (e - d) + (a - b)
    BY <1>1, <1>2, <1>3, <1>4, <1>6, WrapFacts
  <1>8. a - b \in 0 .. Wrap - 1 BY WrapFacts
  <1>9. (a % Wrap) - (b % Wrap) \in Int BY <1>3
  <1> QED BY <1>5, <1>7, <1>8, <1>9, ModUnique, WrapFacts DEF distance

(* Incrementing the wrapped counter counts one more. *)
LEMMA WrapNext ==
  ASSUME NEW a \in Nat
  PROVE  ((a % Wrap) + 1) % Wrap = (a + 1) % Wrap
  <1>1. PICK d \in Int : a = Wrap * d + (a % Wrap) BY WrapDiv
  <1>2. a % Wrap \in 0 .. Wrap - 1 BY WrapDiv
  <1>3. Wrap * (d + 1) = Wrap * d + Wrap BY WrapFacts, SMT
  <1>4. CASE (a % Wrap) + 1 < Wrap
    <2>1. (a % Wrap) + 1 \in 0 .. Wrap - 1 BY <1>2, <1>4, WrapFacts
    <2>2. a + 1 = Wrap * d + ((a % Wrap) + 1) BY <1>1, <1>2, WrapFacts
    <2>3. (a + 1) % Wrap = (a % Wrap) + 1 BY <2>1, <2>2, ModUnique, WrapFacts
    <2>4. ((a % Wrap) + 1) % Wrap = (a % Wrap) + 1 BY <2>1, WrapFacts
    <2> QED BY <2>3, <2>4
  <1>5. CASE (a % Wrap) + 1 = Wrap
    <2>1. a + 1 = Wrap * (d + 1) + 0 BY <1>1, <1>2, <1>3, <1>5, WrapFacts
    <2>2. (a + 1) % Wrap = 0
      <3>1. d + 1 \in Int /\ 0 \in 0 .. Wrap - 1 /\ a + 1 \in Int /\ Wrap \in Nat /\ Wrap > 0
        BY WrapFacts
      <3> QED BY <2>1, <3>1, ModUnique, Zenon
    <2>3. Wrap % Wrap = 0 BY WrapFacts, SMT
    <2> QED BY <1>5, <2>2, <2>3
  <1> QED BY <1>2, <1>4, <1>5, WrapFacts

(* The counters wrap at a multiple of Capacity: the slot of an item does   *)
(* not depend on it.                                                       *)
LEMMA SlotOfCount ==
  ASSUME NEW a \in Nat
  PROVE  slot(a % Wrap) = slot(a) /\ slot(a) \in 0 .. Capacity - 1
  <1>1. PICK d \in Int : a = Wrap * d + (a % Wrap) BY WrapDiv
  <1>2. a % Wrap \in 0 .. Wrap - 1 BY WrapDiv
  <1>3. PICK e \in Int : (a % Wrap) = Capacity * e + ((a % Wrap) % Capacity)
    <2>1. a % Wrap \in Nat BY <1>2, WrapFacts
    <2> QED BY <2>1, CapacityDiv, Zenon
  <1>4. (a % Wrap) % Capacity \in 0 .. Capacity - 1
    <2>1. a % Wrap \in Nat BY <1>2, WrapFacts
    <2> QED BY <2>1, CapacityDiv, Zenon
  <1>5. Laps * d + e \in Int BY WrapAssumption
  <1>6. Capacity * (Laps * d + e) = Wrap * d + Capacity * e
    BY WrapAssumption, CapacityAssumption, SMT
  <1>7. a = Capacity * (Laps * d + e) + ((a % Wrap) % Capacity)
    BY <1>1, <1>2, <1>3, <1>4, <1>6, WrapFacts
  <1>8. a \in Int /\ Capacity \in Nat /\ Capacity > 0 BY WrapFacts
  <1>9. a % Capacity = (a % Wrap) % Capacity
    <2>1. PICK q \in Int : q = Laps * d + e BY <1>5
    <2>2. PICK r \in 0 .. Capacity - 1 : r = (a % Wrap) % Capacity BY <1>4
    <2>3. a = Capacity * q + r BY <1>7, <2>1, <2>2
    <2>4. a % Capacity = r BY <1>8, <2>3, ModUnique, SMT
    <2> QED BY <2>2, <2>4
  <1> QED BY <1>4, <1>9 DEF slot

(* Items less than a lap apart have slots of their own. *)
LEMMA SlotsDiffer ==
  ASSUME NEW a \in Nat, NEW b \in Nat, a < b, b - a < Capacity
  PROVE  slot(a) # slot(b)
  <1> SUFFICES ASSUME a % Capacity = b % Capacity PROVE FALSE BY DEF slot
  <1>1. PICK d \in Int : a = Capacity * d + (a % Capacity) BY CapacityDiv
  <1>2. PICK e \in Int : b = Capacity * e + (b % Capacity) BY CapacityDiv
  <1>3. a % Capacity \in Int BY CapacityDiv
  <1>4. Capacity * (e - d) = Capacity * e - Capacity * d BY WrapFacts, SMT
  <1>5. Capacity * (e - d) = b - a BY <1>1, <1>2, <1>3, <1>4, WrapFacts
  <1>6. ~(e - d >= 1) /\ ~(e - d <= -1) BY <1>5, MultipleBound, WrapFacts
  <1>7. e = d BY <1>6
  <1> QED BY <1>1, <1>2, <1>3, <1>7
-----------------------------------------------------------------------------
(* The ring starts empty. *)
LEMMA RingInitInv == RingInit => RingInv
  <1> SUFFICES ASSUME RingInit PROVE RingInv OBVIOUS
  <1>1. 0 % Wrap = 0 BY WrapFacts
  <1> QED BY <1>1, WrapFacts, ItemsAssumption DEF RingInit, RingInv, RingTypeOK

(* try_push() keeps the invariant: a stale tail only makes the ring look   *)
(* fuller than it is.                                                      *)
LEMMA PushLoadInv ==
  ASSUME RingInv, NEW t \in tail_acquired .. popped, try_push_load(t)
  PROVE  RingInv'
  <1>1. t \in Nat /\ t <= pushed /\ pushed - t <= Capacity /\ pushed \in Nat
    BY WrapFacts DEF RingInv, RingTypeOK
  <1>2. distance(producer_head_, t % Wrap) = pushed - t BY <1>1, DistanceExact DEF RingInv
  <1> QED BY <1>1, <1>2, WrapFacts DEF RingInv, RingTypeOK, try_push_load

(* The write goes to a slot that holds no unread item. *)
LEMMA PushWriteInv == RingInv /\ try_push_write => RingInv'
  <1> SUFFICES ASSUME RingInv, try_push_write PROVE RingInv' OBVIOUS
  <1>1. /\ pushed \in Nat /\ popped \in Nat /\ pushed - popped < Capacity
        /\ UNCHANGED <<producer_head_, consumer_tail_, tail_acquired, c_pc, head_acquired,
                       output, pushed, popped>>
        /\ p_pc = "write" /\ p_pc' = "publish"
    BY WrapFacts DEF RingInv, RingTypeOK, try_push_write
  <1>2. slot(producer_head_) = slot(pushed) /\ slot(pushed) \in 0 .. Capacity - 1
    BY <1>1, SlotOfCount DEF RingInv
  <1>3. storage_' = [storage_ EXCEPT ![slot(pushed)] = Feed(pushed)] BY <1>2 DEF try_push_write
  <1>4. storage_'[slot(pushed)] = Feed(pushed) BY <1>2, <1>3 DEF RingInv, RingTypeOK
  <1>5. ASSUME NEW n \in popped .. pushed - 1 PROVE storage_'[slot(n)] = storage_[slot(n)]
    <2>1. n \in Nat /\ n < pushed /\ pushed - n < Capacity BY <1>1, WrapFacts
    <2>2. slot(n) # slot(pushed) BY <1>1, <2>1, SlotsDiffer
    <2>3. slot(n) \in 0 .. Capacity - 1 BY <2>1, SlotOfCount
    <2> QED BY <1>3, <2>2, <2>3 DEF RingInv, RingTypeOK
  <1>6. DOMAIN storage_' = DOMAIN storage_ BY <1>3
  <1> QED BY <1>1, <1>4, <1>5, <1>6 DEF RingInv, RingTypeOK

(* The release store makes the item one of the ring's. *)
LEMMA PushPublishInv == RingInv /\ try_push_publish => RingInv'
  <1> SUFFICES ASSUME RingInv, try_push_publish PROVE RingInv' OBVIOUS
  <1>1. pushed \in Nat /\ pushed' = pushed + 1 BY DEF RingInv, RingTypeOK, try_push_publish
  <1>2. producer_head_' = pushed' % Wrap BY <1>1, WrapNext DEF RingInv, try_push_publish
  <1>3. producer_head_' \in 0 .. Wrap - 1
    <2>1. pushed' \in Nat BY <1>1
    <2> QED BY <1>2, <2>1, WrapDiv
  <1>4. \A n \in popped .. pushed :
           storage_[slot(n)] = Feed(n) \/ (n = popped /\ c_pc = "publish")
    <2>1. \A n \in popped .. pushed : n = pushed \/ n \in popped .. pushed - 1
      BY <1>1 DEF RingInv, RingTypeOK
    <2> QED BY <2>1 DEF RingInv, try_push_publish
  <1>5. (pushed + 1) - 1 = pushed BY <1>1
  <1> QED BY <1>1, <1>2, <1>3, <1>4, <1>5, WrapFacts, ItemsAssumption
       DEF RingInv, RingTypeOK, try_push_publish

(* The consumer finds the ring empty exactly when it has popped all the    *)
(* pushes it sees.                                                         *)
LEMMA RingSees ==
  ASSUME RingInv, NEW h \in head_acquired .. pushed
  PROVE  (consumer_tail_ = h % Wrap) <=> popped = h
  <1>1. h \in Nat /\ popped \in Nat /\ popped <= h /\ h - popped <= Capacity
    BY WrapFacts DEF RingInv, RingTypeOK
  <1>2. distance(h % Wrap, popped % Wrap) = h - popped BY <1>1, DistanceExact
  <1>3. ASSUME h % Wrap = popped % Wrap PROVE h = popped
    <2>1. popped % Wrap \in 0 .. Wrap - 1 BY <1>1, WrapDiv
    <2>2. distance(h % Wrap, popped % Wrap) = 0 BY <1>3, <2>1, WrapFacts DEF distance
    <2> QED BY <1>1, <1>2, <2>2
  <1> QED BY <1>1, <1>3 DEF RingInv

(* try_pop() keeps it: a stale head only hides items. *)
LEMMA PopLoadInv ==
  ASSUME RingInv, NEW h \in head_acquired .. pushed, try_pop_load(h)
  PROVE  RingInv'
  <1>1. h \in Nat /\ popped \in Nat /\ popped <= h /\ h - popped <= Capacity
    BY WrapFacts DEF RingInv, RingTypeOK
  <1>2. (consumer_tail_ = h % Wrap) <=> popped = h BY RingSees
  <1> QED BY <1>1, <1>2, WrapFacts DEF RingInv, RingTypeOK, try_pop_load

(* The read takes the oldest item and leaves a moved-from slot. *)
LEMMA PopReadInv == RingInv /\ try_pop_read => RingInv'
  <1> SUFFICES ASSUME RingInv, try_pop_read PROVE RingInv' OBVIOUS
  <1>1. /\ pushed \in Nat /\ popped \in Nat /\ popped < pushed /\ pushed - popped <= Capacity
        /\ UNCHANGED <<producer_head_, consumer_tail_, tail_acquired, p_pc, head_acquired,
                       pushed, popped>>
        /\ c_pc = "read" /\ c_pc' = "publish"
    BY WrapFacts DEF RingInv, RingTypeOK, try_pop_read
  <1>2. slot(consumer_tail_) = slot(popped) /\ slot(popped) \in 0 .. Capacity - 1
    BY <1>1, SlotOfCount DEF RingInv
  <1>3. output' = Feed(popped)
    <2>1. popped \in popped .. pushed - 1 BY <1>1
    <2> QED BY <1>1, <1>2, <2>1 DEF RingInv, try_pop_read
  <1>4. PICK left : storage_' = [storage_ EXCEPT ![slot(popped)] = left]
    BY <1>2 DEF try_pop_read
  <1>5. ASSUME NEW n \in Nat, popped < n, n - popped < Capacity
        PROVE  storage_'[slot(n)] = storage_[slot(n)]
    <2>1. slot(n) # slot(popped) BY <1>1, <1>5, SlotsDiffer
    <2>2. slot(n) \in 0 .. Capacity - 1 BY SlotOfCount
    <2> QED BY <1>4, <2>1, <2>2 DEF RingInv, RingTypeOK
  <1>6. \A n \in popped .. pushed - 1 : storage_'[slot(n)] = Feed(n) \/ n = popped
    <2> SUFFICES ASSUME NEW n \in popped .. pushed - 1, n # popped
                 PROVE  storage_'[slot(n)] = Feed(n)
      OBVIOUS
    <2>1. n \in Nat /\ popped < n /\ n - popped < Capacity BY <1>1, WrapFacts
    <2> QED BY <1>1, <1>5, <2>1 DEF RingInv
  <1>7. p_pc = "publish" => storage_'[slot(pushed)] = Feed(pushed)
    <2> SUFFICES ASSUME p_pc = "publish" PROVE storage_'[slot(pushed)] = Feed(pushed) OBVIOUS
    <2>1. pushed - popped < Capacity BY <1>1, WrapFacts DEF RingInv, RingTypeOK
    <2> QED BY <1>1, <1>5, <2>1 DEF RingInv
  <1>8. DOMAIN storage_' = DOMAIN storage_ BY <1>4
  <1> QED BY <1>1, <1>3, <1>6, <1>7, <1>8 DEF RingInv, RingTypeOK

(* The release store gives the slot back. *)
LEMMA PopPublishInv == RingInv /\ try_pop_publish => RingInv'
  <1> SUFFICES ASSUME RingInv, try_pop_publish PROVE RingInv' OBVIOUS
  <1>1. popped \in Nat /\ popped' = popped + 1 BY DEF RingInv, RingTypeOK, try_pop_publish
  <1>2. consumer_tail_' = popped' % Wrap BY <1>1, WrapNext DEF RingInv, try_pop_publish
  <1>3. consumer_tail_' \in 0 .. Wrap - 1
    <2>1. popped' \in Nat BY <1>1
    <2> QED BY <1>2, <2>1, WrapDiv
  <1>4. \A n \in popped + 1 .. pushed - 1 : storage_[slot(n)] = Feed(n)
    <2>1. \A n \in popped + 1 .. pushed - 1 : n # popped /\ n \in popped .. pushed - 1
      BY <1>1 DEF RingInv, RingTypeOK
    <2> QED BY <2>1 DEF RingInv
  <1> QED BY <1>1, <1>2, <1>3, <1>4, WrapFacts DEF RingInv, RingTypeOK, try_pop_publish

(* Every step of either thread keeps RingInv. *)
LEMMA RingStepInv == RingInv /\ [try_push \/ try_pop \/ empty]_ringVars => RingInv'
  <1> SUFFICES ASSUME RingInv, [try_push \/ try_pop \/ empty]_ringVars PROVE RingInv' OBVIOUS
  <1>1. CASE UNCHANGED ringVars BY <1>1 DEF ringVars, RingInv, RingTypeOK, slot
  <1>2. CASE try_push BY <1>2, PushLoadInv, PushWriteInv, PushPublishInv DEF try_push
  <1>3. CASE try_pop BY <1>3, PopLoadInv, PopReadInv, PopPublishInv DEF try_pop
  <1>4. CASE empty BY <1>4 DEF empty, empty_load, RingInv, RingTypeOK, slot
  <1> QED BY <1>1, <1>2, <1>3, <1>4

(* The inductive invariant of the ring. *)
THEOREM RingInvariant == RingSpec => []RingInv
  BY RingInitInv, RingStepInv, PTL DEF RingSpec

(* The threads never touch one slot at the same time, and every access     *)
(* happens after the other thread's last one to that slot.                 *)
THEOREM RingRaceFree == RingSpec => []NoDataRace
  <1>1. RingInv => NoDataRace
    <2> SUFFICES ASSUME RingInv PROVE NoDataRace OBVIOUS
    <2>1. p_pc = "write" => pushed - Capacity < tail_acquired
      BY WrapFacts DEF RingInv, RingTypeOK
    <2>2. c_pc = "read" => popped < head_acquired BY DEF RingInv
    <2>3. ASSUME p_pc = "write", c_pc = "read"
          PROVE  slot(producer_head_) # slot(consumer_tail_)
      <3>1. /\ popped \in Nat /\ pushed \in Nat /\ popped < pushed
            /\ pushed - popped < Capacity
        BY <2>3, WrapFacts DEF RingInv, RingTypeOK
      <3>2. slot(popped) # slot(pushed) BY <3>1, SlotsDiffer
      <3> QED BY <3>1, <3>2, SlotOfCount DEF RingInv
    <2> QED BY <2>1, <2>2, <2>3 DEF NoDataRace
  <1> QED BY <1>1, RingInvariant, PTL

(* The n-th successful try_pop() returns the n-th item pushed. *)
THEOREM RingFifo == RingSpec => []Fifo
  <1>1. RingInv => Fifo BY DEF RingInv, Fifo
  <1> QED BY <1>1, RingInvariant, PTL

(* size() is within the capacity and empty() is right about what the       *)
(* caller can see, in spite of stale loads and wrapped counters.           *)
THEOREM RingSize == RingSpec => []SizeWithinCapacity
  <1>1. RingInv => SizeWithinCapacity
    <2> SUFFICES ASSUME RingInv PROVE SizeWithinCapacity OBVIOUS
    <2>1. ASSUME NEW t \in tail_acquired .. popped
          PROVE  distance(producer_head_, t % Wrap) <= Capacity
      <3>1. t \in Nat /\ pushed \in Nat /\ t <= pushed /\ pushed - t <= Capacity
        BY WrapFacts DEF RingInv, RingTypeOK
      <3>2. distance(producer_head_, t % Wrap) = pushed - t BY <3>1, DistanceExact DEF RingInv
      <3> QED BY <3>1, <3>2
    <2>2. ASSUME NEW h \in head_acquired .. pushed
          PROVE  /\ distance(h % Wrap, consumer_tail_) <= Capacity
                 /\ (consumer_tail_ = h % Wrap) <=> popped = h
      <3>1. h \in Nat /\ popped \in Nat /\ popped <= h /\ h - popped <= Capacity
        BY WrapFacts DEF RingInv, RingTypeOK
      <3>2. distance(h % Wrap, consumer_tail_) = h - popped BY <3>1, DistanceExact DEF RingInv
      <3> QED BY <3>1, <3>2, RingSees
    <2> QED BY <2>1, <2>2 DEF SizeWithinCapacity
  <1> QED BY <1>1, RingInvariant, PTL
-----------------------------------------------------------------------------
(* Every step of the two threads is a step of the ring or leaves it alone. *)
LEMMA StepUsesRing ==
  ASSUME RingTypeOK, head_acquired <= pushed, [Next]_vars
  PROVE  [try_push \/ try_pop \/ empty]_ringVars
  <1>1. CASE UNCHANGED vars BY <1>1 DEF vars
  <1>2. CASE Decode \/ Fail \/ EndOfFeed \/ StoreDone \/ Process \/ Join
    BY <1>2 DEF Decode, Fail, EndOfFeed, StoreDone, Process, Join
  <1>3. CASE PushStore BY <1>3 DEF PushStore, try_push
  <1>4. CASE \E t \in tail_acquired .. popped : PushLoad(t) BY <1>4 DEF PushLoad, try_push
  <1>5. CASE \E seen \in {done_seen, producer_done} : LoadDone(seen)
    <2>1. pushed \in head_acquired .. pushed BY DEF RingTypeOK
    <2> QED BY <1>5, <2>1 DEF LoadDone, empty
  <1>6. CASE \E h \in head_acquired .. pushed : PopLoad(h) BY <1>6 DEF PopLoad, try_pop
  <1>7. CASE TestEmpty BY <1>7 DEF TestEmpty, empty
  <1>8. CASE PopTake BY <1>8 DEF PopTake, try_pop
  <1> QED BY <1>1, <1>2, <1>3, <1>4, <1>5, <1>6, <1>7, <1>8 DEF Next, ProducerStep, ConsumerStep

(* Hence the ring's invariant holds in the replay. *)
LEMMA StepKeepsRing == RingInv /\ [Next]_vars => RingInv'
  <1> SUFFICES ASSUME RingInv, [Next]_vars PROVE RingInv' OBVIOUS
  <1>1. RingTypeOK /\ head_acquired <= pushed BY DEF RingInv
  <1> QED BY <1>1, StepUsesRing, RingStepInv

(* The threads start with an empty ring and an empty log. *)
LEMMA InitReplay == Init => ReplayInv
  <1> SUFFICES ASSUME Init PROVE ReplayInv OBVIOUS
  <1>1. RingInv BY RingInitInv DEF Init
  <1>2. TypeOK
    <2> DEFINE S == {Feed(n) : n \in 0 .. MaxItems - 1}
    <2>1. \A T : <<>> \in Seq(T) OBVIOUS
    <2>2. applied \in Seq(S) BY <2>1, Zenon DEF Init
    <2> HIDE DEF S
    <2>3. /\ producer = "decode" /\ consumer = "test_done"
          /\ producer_done = FALSE /\ producer_error = FALSE /\ done_seen = FALSE
      BY DEF Init
    <2> QED BY <2>2, <2>3 DEF TypeOK, Where, S
  <1> QED BY <1>1, <1>2 DEF Init, RingInit, ReplayInv, InFeedOrder, ErrorsReachCaller

(* What the producer does leaves the consumer's side of ReplayInv alone:   *)
(* it pushes only before producer_done is set.                             *)
LEMMA ProducerKeeps == ReplayInv /\ ProducerStep => ReplayInv'
  <1> SUFFICES ASSUME ReplayInv, ProducerStep PROVE ReplayInv' OBVIOUS
  <1>1. RingInv'
    <2>1. [Next]_vars BY DEF Next
    <2> QED BY <2>1, StepKeepsRing DEF ReplayInv
  <1>2. CASE Decode
    BY <1>1, <1>2 DEF ReplayInv, TypeOK, InFeedOrder, ErrorsReachCaller, Decode, ringVars
  <1>3. CASE Fail
    BY <1>1, <1>3 DEF ReplayInv, TypeOK, InFeedOrder, ErrorsReachCaller, Fail, ringVars
  <1>4. CASE EndOfFeed
    BY <1>1, <1>4 DEF ReplayInv, TypeOK, InFeedOrder, ErrorsReachCaller, EndOfFeed, ringVars
  <1>5. CASE StoreDone
    BY <1>1, <1>5 DEF ReplayInv, TypeOK, InFeedOrder, ErrorsReachCaller, StoreDone, ringVars
  <1>6. CASE PushStore /\ try_push_write
    BY <1>1, <1>6 DEF ReplayInv, TypeOK, InFeedOrder, ErrorsReachCaller, PushStore,
                      try_push_write, try_push_publish
  <1>7. CASE PushStore /\ try_push_publish
    BY <1>1, <1>7 DEF ReplayInv, TypeOK, InFeedOrder, ErrorsReachCaller, PushStore,
                      try_push_write, try_push_publish
  <1>8. CASE \E t \in tail_acquired .. popped : PushLoad(t)
    BY <1>1, <1>8 DEF ReplayInv, TypeOK, InFeedOrder, ErrorsReachCaller, PushLoad,
                      try_push_load, replayVars
  <1> QED BY <1>2, <1>3, <1>4, <1>5, <1>6, <1>7, <1>8 DEF ProducerStep, PushStore

(* Every step of the calling thread keeps ReplayInv. *)
LEMMA ConsumerKeeps == ReplayInv /\ ConsumerStep => ReplayInv'
  <1> SUFFICES ASSUME ReplayInv, ConsumerStep PROVE ReplayInv' OBVIOUS
  <1>1. RingInv'
    <2>1. [Next]_vars BY DEF Next
    <2> QED BY <2>1, StepKeepsRing DEF ReplayInv
  <1>2. ASSUME NEW seen \in {done_seen, producer_done}, LoadDone(seen) PROVE ReplayInv'
    <2>1. CASE seen
      BY <1>1, <1>2, <2>1 DEF ReplayInv, TypeOK, InFeedOrder, ErrorsReachCaller, LoadDone,
                              empty_load, Where
    <2>2. CASE ~seen
      BY <1>1, <1>2, <2>2 DEF ReplayInv, TypeOK, InFeedOrder, ErrorsReachCaller, LoadDone,
                              ringVars, Where
    <2> QED BY <2>1, <2>2
  <1>3. CASE TestEmpty
    <2>1. PICK h \in head_acquired .. pushed :
             /\ empty_load(h) /\ consumer' = IF consumer_tail_ = h % Wrap THEN "join" ELSE "pop"
      BY <1>3 DEF TestEmpty
    <2>2. h = pushed /\ pushed \in Nat /\ producer_done
      BY <1>3, <2>1 DEF TestEmpty, ReplayInv, RingInv, RingTypeOK
    <2>3. consumer_tail_ = h % Wrap => popped = h BY <2>1, RingSees DEF ReplayInv
    <2> QED BY <1>1, <1>3, <2>1, <2>2, <2>3 DEF ReplayInv, TypeOK, InFeedOrder,
                      ErrorsReachCaller, TestEmpty, empty_load, Where
  <1>4. ASSUME NEW h \in head_acquired .. pushed, PopLoad(h) PROVE ReplayInv'
    BY <1>1, <1>4 DEF ReplayInv, TypeOK, InFeedOrder, ErrorsReachCaller, PopLoad,
                      try_pop_load, Where
  <1>5. CASE PopTake /\ try_pop_read
    BY <1>1, <1>5 DEF ReplayInv, TypeOK, InFeedOrder, ErrorsReachCaller, PopTake,
                      try_pop_read, try_pop_publish, Where
  <1>6. CASE PopTake /\ try_pop_publish
    BY <1>1, <1>6 DEF ReplayInv, RingInv, RingTypeOK, TypeOK, InFeedOrder, ErrorsReachCaller,
                      PopTake, try_pop_read, try_pop_publish, Where
  <1>7. CASE Process
    <2>1. /\ applied' = Append(applied, output) /\ UNCHANGED ringVars
          /\ Len(applied) = popped - 1 /\ output = Feed(popped - 1)
          /\ popped \in Nat /\ popped >= 1 /\ popped <= MaxItems
      BY <1>7, ItemsAssumption DEF Process, ReplayInv, RingInv, RingTypeOK
    <2> DEFINE S == {Feed(n) : n \in 0 .. MaxItems - 1}
    <2>2. output \in S BY <2>1, ItemsAssumption
    <2>3. applied \in Seq(S) BY DEF ReplayInv, TypeOK
    <2> HIDE DEF S
    <2>4. /\ applied' \in Seq(S) /\ Len(applied') = popped
          /\ \A i \in 1 .. Len(applied) : applied'[i] = applied[i]
          /\ applied'[popped] = output
      BY <2>1, <2>2, <2>3
    <2>5. TypeOK' BY <1>7, <2>4 DEF Process, ReplayInv, TypeOK, Where, S
    <2>6. InFeedOrder'
      <3> SUFFICES ASSUME NEW i \in 1 .. popped PROVE applied'[i] = Feed(i - 1)
        BY <2>4 DEF InFeedOrder
      <3>1. i = popped \/ i \in 1 .. popped - 1 BY <2>1
      <3> QED BY <2>1, <2>4, <3>1 DEF ReplayInv, InFeedOrder
    <2> QED BY <1>1, <1>7, <2>1, <2>4, <2>5, <2>6 DEF ReplayInv, ErrorsReachCaller, Process,
                                                      ringVars
  <1>8. CASE Join
    <2>1. Len(applied) = popped /\ popped = pushed /\ (producer_error \/ pushed = MaxItems)
      BY <1>8 DEF Join, ReplayInv
    <2> QED BY <1>1, <1>8, <2>1 DEF ReplayInv, TypeOK, InFeedOrder, ErrorsReachCaller, Join,
                                    ringVars, Where
  <1> QED BY <1>2, <1>3, <1>4, <1>5, <1>6, <1>7, <1>8 DEF ConsumerStep, PopTake

(* The invariant that ties the threads' places, the flag and the ring      *)
(* together, for every capacity and every length of the feed.              *)
THEOREM ReplayInvariant == Spec => []ReplayInv
  <1>1. ReplayInv /\ UNCHANGED vars => ReplayInv'
    BY DEF vars, ringVars, replayVars, ReplayInv, RingInv, RingTypeOK, TypeOK, InFeedOrder,
           ErrorsReachCaller, slot
  <1>2. ReplayInv /\ [Next]_vars => ReplayInv' BY <1>1, ProducerKeeps, ConsumerKeeps DEF Next
  <1> QED BY <1>2, InitReplay, PTL DEF Spec

(* The book gets the messages of the feed in their order. *)
THEOREM ReplayInFeedOrder == Spec => []InFeedOrder
  <1>1. ReplayInv => InFeedOrder BY DEF ReplayInv
  <1> QED BY <1>1, ReplayInvariant, PTL

(* Nothing pushed is lost when the loop ends. *)
THEOREM ReplayLosesNothing == Spec => []NothingLost
  <1>1. ReplayInv => NothingLost BY DEF ReplayInv, NothingLost
  <1> QED BY <1>1, ReplayInvariant, PTL

(* A result means the whole feed was replayed, an exception an error. *)
THEOREM ReplayReportsErrors == Spec => []ErrorsReachCaller
  <1>1. ReplayInv => ErrorsReachCaller BY DEF ReplayInv
  <1> QED BY <1>1, ReplayInvariant, PTL
=============================================================================
