------------------------ MODULE FeedGeneratorProofs -------------------------
(***************************************************************************)
(* For feeds of any length: a generated feed replays into a book with room *)
(* for it without a refused or ignored message, and leaves in it the       *)
(* orders that FeedReplaysClean names.                                     *)
(***************************************************************************)
EXTENDS FeedGenerator, OrderBookProofs

(* The ids in the book, and those that the replacements of the ids up to n *)
(* have left there.                                                        *)
Found(b) == {i \in Ids : b.lookup[i] # none}
Left(n) == {new_id(i) : i \in {j \in 1 .. n : j % 4 = 3}}

(* Orders rest at the generator's prices only. *)
OnQuotes(b) == \A s \in Sides, p \in Prices : b.index[s][p] # none => p \in Quoted(s)

(* Where the generator is: a sequential feed, or a mixed one between two   *)
(* ids, before a follow-up, and at an end without the last follow-up.      *)
Sequential ==
    /\ mode = "sequential" /\ ~owed /\ emitted = id - 1
    /\ Found(book) = 1 .. id - 1 /\ book.active_orders = id - 1
Between ==
    /\ mode = "mixed" /\ ~owed /\ emitted = 2 * (id - 1)
    /\ Found(book) = Left(id - 1) /\ book.active_orders = id \div 4
Owing ==
    /\ mode = "mixed" /\ owed /\ emitted = 2 * id - 1 /\ emitted < count
    /\ Found(book) = Left(id - 1) \cup {id} /\ book.active_orders = id \div 4 + 1
    /\ book.orders[book.lookup[id]].quantity = quantity(id)
    /\ book.orders[book.lookup[id]].side = side(id)
CutShort ==
    /\ mode = "mixed" /\ ~owed /\ emitted = count /\ emitted = 2 * (id - 1) - 1
    /\ Found(book) = Left(id - 2) \cup {id - 1}

Arguments ==
    /\ <<mode, count>> \in Workloads /\ emitted \in Nat /\ emitted <= count
    /\ id \in Nat /\ id >= 1 /\ owed \in BOOLEAN
Clean == /\ stats \in [accepted : Nat, ignored : Nat, rejected : Nat]
         /\ stats.rejected = 0 /\ stats.ignored = 0
GenInv == /\ Arguments /\ Clean /\ BookInv(book) /\ OnQuotes(book)
          /\ Sequential \/ Between \/ Owing \/ CutShort
-----------------------------------------------------------------------------
(* The generator's numbers. *)
LEMMA Numbers ==
    ASSUME NEW i \in Nat
    PROVE  /\ side(i) \in Sides /\ quantity(i) \in 100 .. 999 /\ quantity(i) \in Quantities
           /\ price(i) \in Quoted(side(i)) /\ new_price(i) \in Quoted(side(i))
           /\ price(i) \in Prices /\ new_price(i) \in Prices /\ 50 \in Quantities
  <1>1. side(i) \in Sides BY DEF side, Sides
  <1>2. i % 900 \in 0 .. 899 /\ i % 100 \in 0 .. 99 OBVIOUS
  <1>3. quantity(i) \in 100 .. 999 BY <1>2 DEF quantity
  <1>4. PICK k \in 0 .. 99 : k = i % 100 BY <1>2
  <1>5. price(i) \in Quoted(side(i)) /\ new_price(i) \in Quoted(side(i))
    <2>1. offset(i) = k * 100 BY <1>4 DEF offset
    <2>2. k \in 0 .. 100 /\ k + 1 \in 0 .. 100 OBVIOUS
    <2>3. CASE side(i) = "buy"
      <3>1. price(i) = 1850000 - 100 * k /\ new_price(i) = 1850000 - 100 * (k + 1)
        BY <2>1, <2>3, SMT DEF price, new_price
      <3> QED BY <2>2, <2>3, <3>1, SMT DEF Quoted
    <2>4. CASE side(i) # "buy"
      <3>1. price(i) = 1850100 + 100 * k /\ new_price(i) = 1850100 + 100 * (k + 1)
        BY <2>1, <2>4, SMT DEF price, new_price
      <3> QED BY <2>2, <2>4, <3>1, SMT DEF Quoted
    <2> QED BY <2>3, <2>4
  <1> QED BY <1>1, <1>3, <1>5, RoomAssumption

Quotes == {x \in Sides \X Prices : x[2] \in Quoted(x[1])}

(* There are 101 prices on each side. *)
LEMMA QuotesFinite == IsFiniteSet(Quotes) /\ Cardinality(Quotes) <= 202
  <1> DEFINE N == 0 .. 201
             f == [k \in N |-> IF k <= 100 THEN <<"buy", 1850000 - 100 * k>>
                               ELSE <<"sell", 1850100 + 100 * (k - 101)>>]
  <1>1. ASSUME NEW k \in N PROVE f[k] \in Quotes
    <2>1. CASE k <= 100
      <3>1. f[k] = <<"buy", 1850000 - 100 * k>> BY <2>1, SMT
      <3>2. k \in 0 .. 100 BY <2>1
      <3>3. 1850000 - 100 * k \in Quoted("buy") BY <3>2, SMT DEF Quoted
      <3>4. "buy" \in Sides /\ 1850000 - 100 * k \in Prices BY <3>3, RoomAssumption, SMT DEF Sides
      <3> HIDE DEF f
      <3> QED BY <3>1, <3>3, <3>4 DEF Quotes
    <2>2. CASE ~(k <= 100)
      <3>1. f[k] = <<"sell", 1850100 + 100 * (k - 101)>> BY <2>2, SMT
      <3>2. k - 101 \in 0 .. 100 BY <2>2
      <3>3. 1850100 + 100 * (k - 101) \in Quoted("sell") BY <3>2, SMT DEF Quoted
      <3>4. "sell" \in Sides /\ 1850100 + 100 * (k - 101) \in Prices
        BY <3>3, RoomAssumption, SMT DEF Sides
      <3> HIDE DEF f
      <3> QED BY <3>1, <3>3, <3>4 DEF Quotes
    <2> QED BY <2>1, <2>2
  <1>2. ASSUME NEW x \in Quotes PROVE \E k \in N : f[k] = x
    <2>1. x = <<x[1], x[2]>> /\ x[1] \in Sides /\ x[2] \in Quoted(x[1]) BY DEF Quotes
    <2>2. PICK k \in 0 .. 100 :
             x[2] = IF x[1] = "buy" THEN 1850000 - 100 * k ELSE 1850100 + 100 * k
      BY <2>1, SMT DEF Quoted
    <2>3. CASE x[1] = "buy"
      <3>1. k \in N /\ f[k] = <<"buy", 1850000 - 100 * k>> BY SMT
      <3>2. x[2] = 1850000 - 100 * k BY <2>2, <2>3
      <3> HIDE DEF f, N
      <3>3. f[k] = <<x[1], x[2]>> BY <2>3, <3>1, <3>2, SMTT(30)
      <3> QED BY <2>1, <3>1, <3>3
    <2>4. CASE x[1] # "buy"
      <3>1. x[1] = "sell" BY <2>1, <2>4 DEF Sides
      <3>2. k + 101 \in N /\ ~(k + 101 <= 100) /\ (k + 101) - 101 = k OBVIOUS
      <3>3. f[k + 101] = <<"sell", 1850100 + 100 * ((k + 101) - 101)>> BY <3>2, SMT
      <3>4. x[2] = 1850100 + 100 * k BY <2>2, <2>4
      <3> HIDE DEF f, N
      <3>5. f[k + 101] = <<x[1], x[2]>> BY <3>1, <3>2, <3>3, <3>4, SMTT(30)
      <3> QED BY <2>1, <3>2, <3>5
    <2> QED BY <2>3, <2>4
  <1>3. f \in [N -> Quotes] BY <1>1
  <1> HIDE DEF f
  <1>4. f \in Surjection(N, Quotes) BY <1>2, <1>3, Fun_IsSurj
  <1>5. IsFiniteSet(N) /\ Cardinality(N) = 202
    <2>1. 0 \in Int /\ 201 \in Int /\ ~(0 > 201) /\ 201 - 0 + 1 = 202 OBVIOUS
    <2>2. IsFiniteSet(0 .. 201) /\ Cardinality(0 .. 201) = IF 0 > 201 THEN 0 ELSE 201 - 0 + 1
      BY <2>1, FS_Interval
    <2> QED BY <2>1, <2>2
  <1> HIDE DEF N
  <1> QED BY <1>4, <1>5, FS_Surjection
-----------------------------------------------------------------------------
(* The pools have a slot left. *)
LEMMA OrderLeft ==
    ASSUME NEW b, BookInv(b), b.active_orders < MaxOrders
    PROVE  b.free_order # <<>>
  <1> SUFFICES ASSUME b.free_order = <<>> PROVE FALSE OBVIOUS
  <1>1. Lists(b.free_order, OrderIndex \ Live(b)) /\ b.active_orders = Cardinality(Live(b))
    BY DEF BookInv, Nearly, PoolsWhole, PoolsCounted
  <1>2. OrderIndex \ Live(b) = {} BY <1>1 DEF Lists
  <1>3. Live(b) = OrderIndex BY <1>2 DEF Live
  <1> QED BY <1>1, <1>3, IndexFacts, CapacityAssumption

(* The levels of the pool. *)
LEMMA LevelCount == Cardinality(LevelIndex) = MaxLevels
  BY CapacityAssumption, FS_Interval DEF LevelIndex

(* An active level has an order, and no two have the same. *)
LEMMA FewLevels ==
    ASSUME NEW b, BookInv(b), b.free_level = <<>>
    PROVE  MaxLevels <= b.active_orders /\ b.active_orders \in Nat
  <1> DEFINE L == Live(b)
             f == [o \in L |-> b.orders[o].level]
  <1>1. b.active_orders = Cardinality(L) /\ L \subseteq OrderIndex /\ b \in BookType
    BY DEF BookInv, Nearly, PoolsCounted, Live
  <1>2. IsFiniteSet(L) BY <1>1, IndexFacts, FS_Subset
  <1>3. \A l \in LevelIndex : b.levels[l].active
    <2>1. Lists(b.free_level, {l \in LevelIndex : ~b.levels[l].active})
      BY DEF BookInv, Nearly, PoolsWhole
    <2> QED BY <2>1 DEF Lists
  <1>4. ASSUME NEW l \in LevelIndex PROVE \E o \in L : f[o] = l
    <2>1. l # none BY IndexFacts
    <2>2. Members(b, l) # {} BY <1>3, <2>1 DEF BookInv, Nearly
    <2> QED BY <2>2 DEF Members
  <1>5. ASSUME NEW o \in L PROVE f[o] \in LevelIndex
    <2>1. b.orders[o] \in OrderType BY <1>1, BookFields
    <2>2. b.orders[o].level # none BY DEF BookInv, Nearly, IndexAgrees
    <2> QED BY <2>1, <2>2 DEF OrderType
  <1>6. f \in [L -> LevelIndex] BY <1>5
  <1> HIDE DEF f
  <1>7. f \in Surjection(L, LevelIndex) BY <1>4, <1>6, Fun_IsSurj
  <1> HIDE DEF L
  <1>8. Cardinality(LevelIndex) <= Cardinality(L) BY <1>2, <1>7, FS_Surjection
  <1> QED BY <1>1, <1>2, <1>8, LevelCount, FS_CardinalityType

(* A price without a level is not among those that have one. *)
LEMMA FewPrices ==
    ASSUME NEW b, BookInv(b), OnQuotes(b), b.free_level = <<>>, NEW s \in Sides, NEW p \in Prices,
           p \in Quoted(s), b.index[s][p] = none
    PROVE  MaxLevels <= 201
  <1> DEFINE Q == Quotes \ {<<s, p>>}
             f == [l \in LevelIndex |-> CHOOSE x \in Sides \X Prices : b.index[x[1]][x[2]] = l]
  <1>1. ASSUME NEW l \in LevelIndex PROVE f[l] \in Q /\ b.index[f[l][1]][f[l][2]] = l
    <2>1. Lists(b.free_level, {k \in LevelIndex : ~b.levels[k].active})
      BY DEF BookInv, Nearly, PoolsWhole
    <2>2. b.levels[l].active BY <2>1 DEF Lists
    <2>3. \E t \in Sides, q \in Prices : b.index[t][q] = l
      BY <2>2 DEF BookInv, Nearly, IndexAgrees
    <2>4. \E x \in Sides \X Prices : b.index[x[1]][x[2]] = l
      <3>1. PICK t \in Sides, q \in Prices : b.index[t][q] = l BY <2>3
      <3>2. <<t, q>> \in Sides \X Prices /\ b.index[<<t, q>>[1]][<<t, q>>[2]] = l BY <3>1
      <3> QED BY <3>2
    <2>5. f[l] \in Sides \X Prices /\ b.index[f[l][1]][f[l][2]] = l BY <2>4
    <2> HIDE DEF f
    <2>6. l # none BY IndexFacts
    <2>7. f[l][1] \in Sides /\ f[l][2] \in Prices BY <2>5
    <2>8. f[l][2] \in Quoted(f[l][1]) BY <2>5, <2>6, <2>7 DEF OnQuotes
    <2>9. f[l] # <<s, p>> BY <2>5, <2>6
    <2> QED BY <2>5, <2>8, <2>9 DEF Quotes
  <1> HIDE DEF f
  <1>2. f \in [LevelIndex -> Q] BY <1>1 DEF f
  <1>3. \A k, l \in LevelIndex : f[k] = f[l] => k = l BY <1>1
  <1>4. f \in Injection(LevelIndex, Q) BY <1>2, <1>3 DEF Injection, IsInjective
  <1>5. <<s, p>> \in Quotes BY DEF Quotes
  <1>6. IsFiniteSet(Q) /\ Cardinality(Q) = Cardinality(Quotes) - 1
    BY <1>5, QuotesFinite, FS_RemoveElement
  <1> HIDE DEF Q
  <1>7. Cardinality(LevelIndex) <= Cardinality(Q) BY <1>4, <1>6, FS_Injection
  <1>8. Cardinality(Quotes) \in Nat BY QuotesFinite, FS_CardinalityType
  <1> QED BY <1>6, <1>7, <1>8, LevelCount, QuotesFinite, CapacityAssumption

(* So a price has a level, or the pool has one for it. *)
LEMMA LevelLeft ==
    ASSUME NEW b, BookInv(b), OnQuotes(b), NEW s \in Sides, NEW p \in Prices, p \in Quoted(s),
           b.active_orders < MaxLevels \/ MaxLevels >= 202
    PROVE  b.index[s][p] # none \/ b.free_level # <<>>
  <1> SUFFICES ASSUME b.index[s][p] = none, b.free_level = <<>> PROVE FALSE OBVIOUS
  <1>1. MaxLevels <= b.active_orders /\ b.active_orders \in Nat BY FewLevels
  <1>2. MaxLevels <= 201 BY FewPrices
  <1> QED BY <1>1, <1>2, CapacityAssumption
-----------------------------------------------------------------------------
(* An accepted add: the id is found, one order more is in the book.        *)
LEMMA AddOutcome ==
    ASSUME NEW b, BookInv(b), OnQuotes(b), NEW i \in Ids, NEW s \in Sides, NEW q \in Quantities,
           NEW p \in Prices, p \in Quoted(s), q # 0, b.lookup[i] = none, b.free_order # <<>>,
           b.index[s][p] # none \/ b.free_level # <<>>, NEW r, r = add(b, i, s, q, p)
    PROVE  /\ r.error = "none" /\ BookInv(r.book) /\ OnQuotes(r.book)
           /\ r.book.active_orders = b.active_orders + 1
           /\ Found(r.book) = Found(b) \cup {i}
           /\ r.book.orders[r.book.lookup[i]].quantity = q
           /\ r.book.orders[r.book.lookup[i]].side = s
  <1> DEFINE a == level_get_or_add(b, s, p)
             o == Head(b.free_order)
             c == r.book
  <1>0. b \in BookType BY DEF BookInv, Nearly
  <1>1. r.error = "none" /\ Rests(a, c, o, a.index[s][p], i, s, q, p) BY AddRests
  <1>2. BookInv(c) BY AddSound DEF Sound
  <1>3. /\ a.lookup = b.lookup /\ a.active_orders = b.active_orders
        /\ \A t \in Sides, w \in Prices : a.index[t][w] # none =>
              b.index[t][w] # none \/ (t = s /\ w = p)
    <2>1. CASE level_find(b, s, p) # none \/ b.free_level = <<>>
      BY <2>1 DEF level_get_or_add
    <2>2. CASE ~(level_find(b, s, p) # none \/ b.free_level = <<>>)
      <3>1. b.index \in [Sides -> [Prices -> LevelIndex \cup {none}]] BY <1>0, BookFields
      <3>2. /\ a.lookup = b.lookup /\ a.active_orders = b.active_orders
            /\ a.index = [b.index EXCEPT ![s][p] = Head(b.free_level)]
        BY <1>0, <2>2 DEF level_get_or_add, BookType
      <3> HIDE DEF a
      <3> QED BY <3>1, <3>2
    <2> QED BY <2>1, <2>2
  <1> HIDE DEF a
  <1>4. /\ c.index = a.index /\ c.lookup = [b.lookup EXCEPT ![i] = o]
        /\ c.active_orders = b.active_orders + 1
        /\ c.orders[o].quantity = q /\ c.orders[o].side = s
    <2>1. a \in BookType BY LevelReady DEF a, Nearly
    <2>2. /\ c = [a EXCEPT !.orders = c.orders, !.levels = c.levels,
                           !.free_order = Tail(a.free_order),
                           !.lookup = [a.lookup EXCEPT ![i] = o],
                           !.active_orders = a.active_orders + 1]
          /\ c.orders[o].quantity = q /\ c.orders[o].side = s
      BY <1>1 DEF Rests
    <2> HIDE DEF c, o
    <2> QED BY <1>3, <2>1, <2>2 DEF BookType
  <1>5. OnQuotes(c) BY <1>3, <1>4 DEF OnQuotes
  <1>6. o # none
    <2>1. Lists(b.free_order, OrderIndex \ Live(b)) /\ b.free_order \in Seq(OrderIndex)
      BY <1>0, BookFields DEF BookInv, Nearly, PoolsWhole
    <2> QED BY <2>1, TakeListed, IndexFacts
  <1>7. b.lookup \in [Ids -> OrderIndex \cup {none}] BY <1>0, BookFields
  <1>8. c.lookup[i] = o /\ \A j \in Ids : j # i => c.lookup[j] = b.lookup[j] BY <1>4, <1>7
  <1>9. Found(c) = Found(b) \cup {i} BY <1>6, <1>8 DEF Found
  <1> QED BY <1>1, <1>2, <1>4, <1>5, <1>8, <1>9

(* An order that is dropped: its id is not found any more.                 *)
LEMMA DropOutcome ==
    ASSUME NEW b, NEW o, Nearly(b, none, o), o \in Live(b), OnQuotes(b), NEW c, c = drop(b, o),
           NEW i \in Ids, i = b.orders[o].id
    PROVE  /\ BookInv(c) /\ OnQuotes(c) /\ c.active_orders = b.active_orders - 1
           /\ Found(c) = Found(b) \ {i}
  <1> DEFINE s == b.orders[o].side
             l == b.orders[o].level
  <1>0. b \in BookType /\ IndexAgrees(b) BY DEF Nearly
  <1>1. BookInv(c) /\ c.lookup = [b.lookup EXCEPT ![i] = none] BY DropKeeps
  <1>2. PICK d : Leaves(b, d, o) /\ c = remove_if_empty(d, s, l) BY DropLeaves
  <1>3. /\ s \in Sides /\ l \in LevelIndex
        /\ b.index \in [Sides -> [Prices -> LevelIndex \cup {none}]]
        /\ b.levels[l].price \in Prices
    <2>1. b.orders[o] \in OrderType BY <1>0, BookFields DEF Live
    <2>2. /\ s \in Sides /\ l # none /\ b.orders[o].price \in Prices
          /\ l = b.index[s][b.orders[o].price]
      BY <1>0 DEF IndexAgrees
    <2>3. b.levels[l].price = b.orders[o].price
      <3>1. PICK v \in Prices : v = b.orders[o].price BY <2>2
      <3>2. s \in Sides /\ b.index[s][v] = l /\ l # none BY <2>2, <3>1
      <3> HIDE DEF s, l
      <3>3. b.levels[b.index[s][v]].price = v BY <1>0, <3>2 DEF IndexAgrees
      <3> QED BY <3>1, <3>2, <3>3
    <2> QED BY <1>0, <2>1, <2>2, <2>3, BookFields DEF OrderType
  <1>4. d \in BookType /\ d.index = b.index /\ d.active_orders = b.active_orders - 1
        /\ d.levels[l].price = b.levels[l].price
    <2>1. Nearly(d, l, none) BY <1>2, LeaveKeeps
    <2>2. d \in BookType BY <2>1 DEF Nearly
    <2> QED BY <1>0, <1>2, <2>2 DEF Leaves, BookType
  <1>5. /\ c.active_orders = d.active_orders
        /\ \A t \in Sides, w \in Prices : c.index[t][w] # none => b.index[t][w] # none
    <2>1. CASE d.levels[l].order_count = 0
      <3>1. c = level_remove(d, s, l) BY <1>2, <2>1 DEF remove_if_empty
      <3>2. /\ c.active_orders = d.active_orders
            /\ c.index = [b.index EXCEPT ![s][b.levels[l].price] = none]
        BY <1>4, <3>1 DEF level_remove, BookType
      <3>3. PICK v \in Prices : v = b.levels[l].price BY <1>3
      <3> HIDE DEF s, l
      <3>4. c.index = [b.index EXCEPT ![s][v] = none] BY <3>2, <3>3
      <3>5. ASSUME NEW t \in Sides, NEW w \in Prices, b.index[t][w] = none
            PROVE  c.index[t][w] = none
        BY <1>3, <3>4, <3>5
      <3> QED BY <3>2, <3>5
    <2>2. CASE d.levels[l].order_count # 0
      BY <1>2, <1>4, <2>2 DEF remove_if_empty
    <2> QED BY <2>1, <2>2
  <1>6. OnQuotes(c) BY <1>5 DEF OnQuotes
  <1>7. b.lookup \in [Ids -> OrderIndex \cup {none}] BY <1>0, BookFields
  <1>8. Found(c) = Found(b) \ {i} BY <1>1, <1>7 DEF Found
  <1> QED BY <1>1, <1>4, <1>5, <1>6, <1>8

(* What the lookup finds. *)
LEMMA FoundOrder ==
    ASSUME NEW b, BookInv(b), NEW i \in Ids, i \in Found(b)
    PROVE  b.lookup[i] \in Live(b) /\ b.orders[b.lookup[i]].id = i /\ b.lookup[i] # none
  BY DEF Found, BookInv, Nearly, LookupAgrees

(* An order that is out of the book with nothing else changed. *)
Gone(b, r, i) == /\ r.error = "none" /\ BookInv(r.book) /\ OnQuotes(r.book)
                 /\ r.book.active_orders = b.active_orders - 1
                 /\ Found(r.book) = Found(b) \ {i}

(* A deleted order is gone. *)
LEMMA EraseOutcome ==
    ASSUME NEW b, BookInv(b), OnQuotes(b), NEW i \in Ids, i \in Found(b)
    PROVE  Gone(b, erase(b, i), i)
  <1>1. b.lookup[i] \in Live(b) /\ b.orders[b.lookup[i]].id = i /\ b.lookup[i] # none
    BY FoundOrder
  <1>2. erase(b, i) = Return(drop(b, b.lookup[i]), "none") BY <1>1 DEF erase, lookup_find
  <1>3. Nearly(b, none, b.lookup[i]) BY WholeIsNearly
  <1> QED BY <1>1, <1>2, <1>3, DropOutcome DEF Gone, Return

(* An order that is executed or cancelled whole is gone. *)
LEMMA ExecuteOutcome ==
    ASSUME NEW b, BookInv(b), OnQuotes(b), NEW i \in Ids, i \in Found(b), NEW q \in Quantities,
           q # 0, q = b.orders[b.lookup[i]].quantity
    PROVE  Gone(b, execute(b, i, q), i)
  <1> DEFINE o == b.lookup[i]
             c == [b EXCEPT !.levels[b.orders[o].level].total_quantity = @ - q,
                            !.orders[o].quantity = @ - q]
  <1>1. o \in Live(b) /\ b.orders[o].id = i /\ o # none BY FoundOrder
  <1>2. q \in Nat /\ q <= b.orders[o].quantity BY ValueAssumption
  <1>3. Shrinks(b, c, o, q) BY <1>1, <1>2, ReduceShrinks
  <1>4. execute(b, i, q) = Return(IF c.orders[o].quantity = 0 THEN drop(c, o) ELSE c, "none")
    <2>1. ~(q = 0 \/ q > b.orders[o].quantity) BY <1>2
    <2>2. execute(b, i, q) = reduce(b, o, q) BY <1>1 DEF execute, lookup_find
    <2>3. reduce(b, o, q) = Return(IF c.orders[o].quantity = 0 THEN drop(c, o) ELSE c, "none")
      <3> HIDE DEF o
      <3> QED BY <2>1 DEF reduce
    <2> QED BY <2>2, <2>3
  <1> HIDE DEF c
  <1>5. Nearly(c, none, o) /\ o \in Live(c) BY <1>1, <1>2, <1>3, ShrinkKeeps
  <1>6. /\ c.orders[o].quantity = 0 /\ c.orders[o].id = i /\ c.active_orders = b.active_orders
        /\ c.lookup = b.lookup /\ c.index = b.index
    <2>1. o \in OrderIndex BY <1>1 DEF Live
    <2>2. /\ c.orders[o].quantity = b.orders[o].quantity - q /\ c.orders[o].id = b.orders[o].id
          /\ c.active_orders = b.active_orders /\ c.lookup = b.lookup /\ c.index = b.index
      <3> HIDE DEF o
      <3> QED BY <1>3, <2>1 DEF Shrinks
    <2>3. b.orders[o].quantity - q = 0 BY <1>2
    <2> QED BY <1>1, <2>2, <2>3
  <1>7. OnQuotes(c) /\ Found(c) = Found(b) BY <1>6 DEF OnQuotes, Found
  <1>8. execute(b, i, q) = Return(drop(c, o), "none") BY <1>4, <1>6
  <1> QED BY <1>5, <1>6, <1>7, <1>8, DropOutcome DEF Gone, Return

(* The replaced order is gone and the new one is there. *)
LEMMA ReplaceOutcome ==
    ASSUME NEW b, BookInv(b), OnQuotes(b), NEW i \in Ids, NEW j \in Ids, i \in Found(b),
           j \notin Found(b), NEW q \in Quantities, q # 0, NEW p \in Prices,
           p \in Quoted(b.orders[b.lookup[i]].side),
           b.active_orders < MaxLevels \/ MaxLevels >= 202,
           NEW r, r = replace(b, i, j, q, p)
    PROVE  /\ r.error = "none" /\ BookInv(r.book) /\ OnQuotes(r.book)
           /\ r.book.active_orders = b.active_orders
           /\ Found(r.book) = (Found(b) \ {i}) \cup {j}
  <1> DEFINE o == b.lookup[i]
             s == b.orders[o].side
             c == drop(b, o)
  <1>1. o \in Live(b) /\ b.orders[o].id = i /\ o # none BY FoundOrder
  <1>2. s \in Sides BY <1>1 DEF BookInv, Nearly, IndexAgrees
  <1>3. b.index[s][p] # none \/ b.free_level # <<>> BY <1>2, LevelLeft
  <1>4. erase(b, i) = Return(c, "none") BY <1>1 DEF erase, lookup_find
  <1>5. b.lookup[j] = none BY DEF Found
  <1>6. r = add(c, j, s, q, p)
    <2>1. erase(b, i).book = c BY <1>4 DEF Return
    <2> QED BY <1>1, <1>3, <1>5, <2>1 DEF replace, lookup_find, level_find
  <1>7. Nearly(b, none, o) BY WholeIsNearly
  <1> HIDE DEF c
  <1>8. /\ BookInv(c) /\ OnQuotes(c) /\ c.active_orders = b.active_orders - 1
        /\ Found(c) = Found(b) \ {i}
    BY <1>1, <1>7, DropOutcome DEF c
  <1>9. c.free_order # <<>> /\ (c.index[s][p] # none \/ c.free_level # <<>>)
    <2>1. /\ BookInv(c) /\ c.free_order # <<>>
          /\ c.lookup = [b.lookup EXCEPT ![b.orders[o].id] = none]
          /\ \A w \in Prices :
                \/ w = b.orders[o].price
                \/ b.index[b.orders[o].side][w] # none \/ b.free_level # <<>>
                => c.index[b.orders[o].side][w] # none \/ c.free_level # <<>>
      <3>1. c = drop(b, o) BY DEF c
      <3> HIDE DEF o
      <3> QED BY <1>1, <1>7, <3>1, DropKeeps
    <2> HIDE DEF o
    <2> QED BY <1>3, <2>1
  <1>10. c.lookup[j] = none BY <1>8 DEF Found
  <1> HIDE DEF s
  <1>11. /\ r.error = "none" /\ BookInv(r.book) /\ OnQuotes(r.book)
         /\ r.book.active_orders = c.active_orders + 1 /\ Found(r.book) = Found(c) \cup {j}
    <2>1. p \in Quoted(s) BY DEF s
    <2> QED BY <1>2, <1>6, <1>8, <1>9, <1>10, <2>1, AddOutcome
  <1>12. b.active_orders \in Int BY BookFields DEF BookInv, Nearly, BookType
  <1> QED BY <1>8, <1>11, <1>12
-----------------------------------------------------------------------------
(* Where the new ids start. *)
LEMMA NewIds == new_ids \in Nat BY SMT DEF new_ids

(* The numbers of a workload: an id that is added is one of the workload's,*)
(* and a mixed feed's ids are below its new ones.                          *)
LEMMA AddsRoom ==
    ASSUME Arguments, emitted < count,
           \/ mode = "sequential" /\ emitted = id - 1
           \/ mode = "mixed" /\ emitted = 2 * (id - 1)
           \/ mode = "mixed" /\ emitted = 2 * id - 1
    PROVE  /\ id \in Ids /\ new_id(id) \in Ids
           /\ mode = "sequential" => id - 1 < MaxOrders
                                     /\ (id - 1 < MaxLevels \/ MaxLevels >= 202)
           /\ mode = "mixed" => /\ id <= new_ids /\ id \div 4 < MaxOrders
                                /\ id \div 4 < MaxLevels \/ MaxLevels >= 202
           /\ emitted = 2 * id - 1 /\ id % 4 = 3 /\ mode = "mixed" =>
                 id \div 4 + 1 < MaxLevels \/ MaxLevels >= 202
  <1> DEFINE w == <<mode, count>>
  <1>1. /\ w \in Workloads /\ count \in Nat /\ mode \in {"mixed", "sequential"}
        /\ id \in Nat /\ id >= 1
    BY WorkloadAssumption DEF Arguments
  <1>2. w[1] = mode /\ w[2] = count OBVIOUS
  <1>3. /\ \A i \in 1 .. adds(w) : i \in Ids /\ new_id(i) \in Ids
        /\ MaxOrders >= room(w) /\ (MaxLevels >= room(w) \/ MaxLevels >= 202)
        /\ mode = "mixed" => adds(w) <= new_ids
    BY <1>1, <1>2, RoomAssumption
  <1>4. CASE mode = "sequential"
    <2>1. adds(w) = count /\ room(w) = count BY <1>2, <1>4 DEF adds, room
    <2>2. emitted = id - 1 BY <1>4
    <2> HIDE DEF w
    <2>3. id \in 1 .. adds(w) /\ id - 1 < room(w) BY <1>1, <2>1, <2>2
    <2>4. room(w) \in Nat BY <1>1, <2>1
    <2> QED BY <1>1, <1>3, <1>4, <2>3, <2>4, CapacityAssumption
  <1>5. CASE mode = "mixed"
    <2>1. adds(w) = (count + 1) \div 2 /\ room(w) = (count + 2) \div 8 + 1
      BY <1>2, <1>5 DEF adds, room
    <2>2. emitted = 2 * (id - 1) \/ emitted = 2 * id - 1 BY <1>5
    <2> HIDE DEF w
    <2>3. id \in 1 .. adds(w) /\ id \div 4 < room(w) /\ room(w) \in Nat
      BY <1>1, <2>1, <2>2
    <2>4. emitted = 2 * id - 1 /\ id % 4 = 3 => id \div 4 + 1 < room(w) BY <1>1, <2>1, <2>2
    <2>5. id \div 4 \in Nat BY <1>1
    <2>6. adds(w) \in Nat BY <1>1, <2>1
    <2>7. id \in Ids /\ new_id(id) \in Ids BY <1>3, <2>3
    <2>8. id <= new_ids BY <1>1, <1>3, <1>5, <2>3, <2>6, NewIds
    <2>9. /\ id \div 4 < MaxOrders /\ (id \div 4 < MaxLevels \/ MaxLevels >= 202)
          /\ emitted = 2 * id - 1 /\ id % 4 = 3 =>
                id \div 4 + 1 < MaxLevels \/ MaxLevels >= 202
      <3>1. PICK k \in Nat : k = id \div 4 BY <2>5
      <3>2. PICK m \in Nat : m = room(w) BY <2>3
      <3> QED BY <1>3, <2>3, <2>4, <3>1, <3>2, CapacityAssumption
    <2> QED BY <1>5, <2>7, <2>8, <2>9
  <1> QED BY <1>1, <1>4, <1>5

(* What is left of ids up to n, one id later. *)
LEMMA LeftGrows ==
    ASSUME NEW n \in Nat
    PROVE  /\ Left(n + 1) = IF (n + 1) % 4 = 3 THEN Left(n) \cup {new_id(n + 1)} ELSE Left(n)
           /\ \A x \in Left(n) : x \in Nat /\ x > new_ids /\ x < new_id(n + 1)
  <1>0. new_ids \in Nat BY NewIds
  <1>1. \A x : x \in Left(n) <=> \E i \in 1 .. n : i % 4 = 3 /\ x = i + new_ids
    BY DEF Left, new_id
  <1>2. \A x : x \in Left(n + 1) <=> \E i \in 1 .. n + 1 : i % 4 = 3 /\ x = i + new_ids
    BY DEF Left, new_id
  <1>3. 1 .. n + 1 = (1 .. n) \cup {n + 1} OBVIOUS
  <1>4. new_id(n + 1) = (n + 1) + new_ids BY DEF new_id
  <1>5. \A x : x \in Left(n + 1) <=> x \in Left(n) \/ ((n + 1) % 4 = 3 /\ x = new_id(n + 1))
    BY <1>0, <1>1, <1>2, <1>3, <1>4
  <1>6. \A x \in Left(n) : x \in Nat /\ x > new_ids /\ x < new_id(n + 1) BY <1>0, <1>1, <1>4
  <1>7. CASE (n + 1) % 4 = 3 BY <1>5, <1>6, <1>7
  <1>8. CASE (n + 1) % 4 # 3 BY <1>5, <1>6, <1>8
  <1> QED BY <1>7, <1>8

(* An accepted message leaves the counters of the others alone. *)
LEMMA CleanStep ==
    ASSUME Clean, NEW m, NEW r, Finish(m, r), r.error = "none"
    PROVE  Clean' /\ book' = r.book
  <1>1. Counter("none") = "accepted" BY DEF Counter
  <1>2. stats' = [stats EXCEPT !["accepted"] = @ + 1] BY <1>1 DEF Finish
  <1> QED BY <1>2 DEF Clean, Finish
-----------------------------------------------------------------------------
(* add(): the id is new, and the book has room for it. *)
LEMMA WriteAdd ==
    ASSUME GenInv, Add, emitted' = emitted + 1, UNCHANGED <<mode, count>>
    PROVE  GenInv'
  <1> DEFINE r == add(book, id, side(id), quantity(id), price(id))
  <1>1. /\ ~owed /\ emitted < count /\ AddOrder(Symbol, id, side(id), quantity(id), price(id))
        /\ owed' = ~(mode = "sequential" \/ emitted + 1 = count)
        /\ id' = IF owed' THEN id ELSE id + 1
    BY DEF Add
  <1>2. /\ Arguments /\ Clean /\ BookInv(book) /\ OnQuotes(book) /\ (Sequential \/ Between)
        /\ count \in Nat
    BY <1>1, WorkloadAssumption DEF GenInv, Owing, CutShort, Arguments
  <1>3. id \in Nat /\ id >= 1 /\ emitted \in Nat BY <1>2 DEF Arguments
  <1>4. /\ id \in Ids /\ book.active_orders < MaxOrders
        /\ book.active_orders < MaxLevels \/ MaxLevels >= 202
        /\ mode = "mixed" => id <= new_ids
    <2>1. CASE Sequential BY <1>1, <1>2, <2>1, AddsRoom DEF Sequential
    <2>2. CASE Between BY <1>1, <1>2, <2>2, AddsRoom DEF Between
    <2> QED BY <1>2, <2>1, <2>2
  <1>5. id \notin Found(book)
    <2>1. CASE Sequential BY <1>3, <2>1 DEF Sequential
    <2>2. CASE Between
      <3>0. id - 1 \in Nat BY <1>3
      <3>1. \A x \in Left(id - 1) : x \in Nat /\ x > new_ids BY <3>0, LeftGrows
      <3> QED BY <1>3, <1>4, <2>2, <3>1, NewIds DEF Between
    <2> QED BY <1>2, <2>1, <2>2
  <1>6. /\ side(id) \in Sides /\ quantity(id) \in Quantities /\ quantity(id) # 0
        /\ price(id) \in Prices /\ price(id) \in Quoted(side(id))
    <2>1. quantity(id) \in 100 .. 999 BY <1>3, Numbers
    <2>2. quantity(id) # 0 BY <2>1
    <2> QED BY <1>3, <2>2, Numbers
  <1>7. /\ r.error = "none" /\ BookInv(r.book) /\ OnQuotes(r.book)
        /\ r.book.active_orders = book.active_orders + 1
        /\ Found(r.book) = Found(book) \cup {id}
        /\ r.book.orders[r.book.lookup[id]].quantity = quantity(id)
        /\ r.book.orders[r.book.lookup[id]].side = side(id)
    <2>1. book.free_order # <<>> BY <1>2, <1>4, OrderLeft
    <2>2. book.index[side(id)][price(id)] # none \/ book.free_level # <<>>
      BY <1>2, <1>4, <1>6, LevelLeft
    <2>3. book.lookup[id] = none BY <1>4, <1>5 DEF Found
    <2> QED BY <1>2, <1>4, <1>6, <2>1, <2>2, <2>3, AddOutcome
  <1>8. \E m : Finish(m, r) BY <1>1 DEF AddOrder, symbol_matches
  <1> HIDE DEF r
  <1>9. Clean' /\ book' = r.book BY <1>2, <1>7, <1>8, CleanStep
  <1>10. Arguments' /\ BookInv(book)' /\ OnQuotes(book)'
    <2>1. owed' \in BOOLEAN /\ id' \in Nat /\ id' >= 1 BY <1>1, <1>3
    <2>2. <<mode, count>>' \in Workloads BY <1>2 DEF Arguments
    <2>3. emitted' \in Nat /\ emitted' <= count' BY <1>1, <1>2, <1>3
    <2>4. Arguments' BY <2>1, <2>2, <2>3 DEF Arguments
    <2>5. BookInv(book') /\ OnQuotes(book') BY <1>7, <1>9
    <2> QED BY <2>4, <2>5
  <1>11. Found(book') = Found(book) \cup {id} /\ book'.active_orders = book.active_orders + 1
    BY <1>7, <1>9
  <1>12. (Sequential \/ Between \/ Owing \/ CutShort)'
    <2>1. CASE Sequential
      <3>1. id' = id + 1 /\ ~owed' /\ mode' = "sequential" BY <1>1, <2>1 DEF Sequential
      <3>2. Found(book') = 1 .. id' - 1 BY <1>3, <1>11, <2>1, <3>1 DEF Sequential
      <3>3. emitted' = id' - 1 /\ book'.active_orders = id' - 1
        BY <1>3, <1>11, <2>1, <3>1 DEF Sequential
      <3>4. Sequential' BY <3>1, <3>2, <3>3 DEF Sequential
      <3> QED BY <3>4
    <2>2. CASE Between /\ emitted + 1 = count
      <3>1. id' = id + 1 /\ ~owed' /\ mode' = "mixed" BY <1>1, <2>2 DEF Between
      <3>2. id' - 2 = id - 1 /\ id' - 1 = id BY <1>3, <3>1
      <3>3. Found(book') = Left(id' - 2) \cup {id' - 1} BY <1>11, <2>2, <3>2 DEF Between
      <3>4. emitted' = count' /\ emitted' = 2 * (id' - 1) - 1 BY <1>3, <2>2, <3>1 DEF Between
      <3>5. CutShort' BY <3>1, <3>3, <3>4 DEF CutShort
      <3> QED BY <3>5
    <2>3. CASE Between /\ emitted + 1 # count
      <3>1. id' = id /\ owed' /\ mode' = "mixed" BY <1>1, <2>3 DEF Between
      <3>2. Found(book') = Left(id' - 1) \cup {id'} BY <1>11, <2>3, <3>1 DEF Between
      <3>3. emitted' = 2 * id' - 1 /\ emitted' < count' /\ book'.active_orders = id' \div 4 + 1
        BY <1>1, <1>2, <1>3, <1>11, <2>3, <3>1 DEF Between
      <3>4. /\ book'.orders[book'.lookup[id']].quantity = quantity(id')
            /\ book'.orders[book'.lookup[id']].side = side(id')
        BY <1>7, <1>9, <3>1
      <3>5. Owing' BY <3>1, <3>2, <3>3, <3>4 DEF Owing
      <3> QED BY <3>5
    <2> QED BY <1>2, <2>1, <2>2, <2>3
  <1> QED BY <1>9, <1>10, <1>12 DEF GenInv

(* The follow-up: the order is there with its whole quantity, and the new  *)
(* id is not.                                                              *)
LEMMA WriteFollowUp ==
    ASSUME GenInv, FollowUp, emitted' = emitted + 1, UNCHANGED <<mode, count>>
    PROVE  GenInv'
  <1>1. owed /\ ~owed' /\ owed' \in BOOLEAN /\ id' = id + 1 BY DEF FollowUp
  <1>2. /\ Arguments /\ Clean /\ BookInv(book) /\ OnQuotes(book) /\ Owing /\ count \in Nat
    BY <1>1, WorkloadAssumption DEF GenInv, Sequential, Between, CutShort, Arguments
  <1>3. id \in Nat /\ id >= 1 /\ emitted \in Nat BY <1>2 DEF Arguments
  <1>4. /\ id \in Ids /\ new_id(id) \in Ids /\ id <= new_ids
        /\ id % 4 = 3 => book.active_orders < MaxLevels \/ MaxLevels >= 202
    BY <1>2, AddsRoom DEF Owing
  <1>5. \A x \in Left(id - 1) : x \in Nat /\ x > new_ids /\ x < new_id(id)
    <2>1. id - 1 \in Nat /\ (id - 1) + 1 = id BY <1>3
    <2>2. \A x \in Left(id - 1) : x \in Nat /\ x > new_ids /\ x < new_id((id - 1) + 1)
      BY <2>1, LeftGrows
    <2> QED BY <2>1, <2>2
  <1>6. /\ id \notin Left(id - 1) /\ new_id(id) \notin Left(id - 1) /\ new_id(id) # id
    BY <1>3, <1>4, <1>5, NewIds DEF new_id
  <1>7. /\ Found(book) = Left(id - 1) \cup {id} /\ id \in Found(book) /\ mode = "mixed"
        /\ new_id(id) \notin Found(book) /\ book.active_orders = id \div 4 + 1
        /\ quantity(id) = book.orders[book.lookup[id]].quantity
        /\ side(id) = book.orders[book.lookup[id]].side
    BY <1>2, <1>6 DEF Owing
  <1>8. /\ quantity(id) \in Quantities /\ quantity(id) # 0 /\ 50 \in Quantities
        /\ new_price(id) \in Prices /\ new_price(id) \in Quoted(side(id))
    <2>1. quantity(id) \in 100 .. 999 BY <1>3, Numbers
    <2>2. quantity(id) # 0 BY <2>1
    <2> QED BY <1>3, <2>2, Numbers
  <1>9. /\ Clean' /\ BookInv(book') /\ OnQuotes(book')
        /\ book'.active_orders = id' \div 4 /\ Found(book') = Left(id)
    <2>0. /\ Left(id) = IF id % 4 = 3 THEN Left(id - 1) \cup {new_id(id)} ELSE Left(id - 1)
          /\ id' \div 4 = IF id % 4 = 3 THEN id \div 4 + 1 ELSE id \div 4
          /\ (id \div 4 + 1) - 1 = id \div 4 /\ id % 4 \in 0 .. 3
      <3>1. id - 1 \in Nat /\ (id - 1) + 1 = id BY <1>3
      <3>2. Left((id - 1) + 1) = IF ((id - 1) + 1) % 4 = 3
                                 THEN Left(id - 1) \cup {new_id((id - 1) + 1)} ELSE Left(id - 1)
        BY <3>1, LeftGrows
      <3>3. Left(id) = IF id % 4 = 3 THEN Left(id - 1) \cup {new_id(id)} ELSE Left(id - 1)
        BY <3>1, <3>2
      <3>4. (id + 1) \div 4 = IF id % 4 = 3 THEN id \div 4 + 1 ELSE id \div 4 BY <1>3
      <3>5. (id \div 4 + 1) - 1 = id \div 4 /\ id % 4 \in 0 .. 3 BY <1>3
      <3> QED BY <1>1, <3>3, <3>4, <3>5
    <2>1. ASSUME NEW r, Gone(book, r, id), \E m : Finish(m, r), id % 4 # 3
          PROVE  /\ Clean' /\ BookInv(book') /\ OnQuotes(book')
                 /\ book'.active_orders = id' \div 4 /\ Found(book') = Left(id)
      <3>1. Clean' /\ book' = r.book BY <1>2, <2>1, CleanStep DEF Gone
      <3>2. Found(r.book) = Left(id - 1) BY <1>6, <1>7, <2>1 DEF Gone
      <3> QED BY <1>7, <2>0, <2>1, <3>1, <3>2 DEF Gone
    <2>2. CASE (id % 4 = 0 /\ cancel_all) \/ (id % 4 = 1 /\ OrderExecuted(id, quantity(id)))
      <3>1. Gone(book, execute(book, id, quantity(id)), id)
        BY <1>2, <1>4, <1>7, <1>8, ExecuteOutcome
      <3>2. \E m : Finish(m, execute(book, id, quantity(id)))
        BY <2>2 DEF cancel_all, OrderCancel, OrderExecuted, cancel
      <3>3. id % 4 # 3 BY <2>2
      <3> QED BY <2>1, <3>1, <3>2, <3>3
    <2>3. CASE id % 4 = 2 /\ OrderDelete(id)
      <3>1. Gone(book, erase(book, id), id) BY <1>2, <1>4, <1>7, EraseOutcome
      <3>2. \E m : Finish(m, erase(book, id)) BY <2>3 DEF OrderDelete
      <3>3. id % 4 # 3 BY <2>3
      <3> QED BY <2>1, <3>1, <3>2, <3>3
    <2>4. CASE id % 4 = 3 /\ OrderReplace(id, new_id(id), 50, new_price(id))
      <3> DEFINE r == replace(book, id, new_id(id), 50, new_price(id))
      <3>1. /\ r.error = "none" /\ BookInv(r.book) /\ OnQuotes(r.book)
            /\ r.book.active_orders = book.active_orders
            /\ Found(r.book) = (Found(book) \ {id}) \cup {new_id(id)}
        <4>1. 50 # 0 OBVIOUS
        <4> QED BY <1>2, <1>4, <1>7, <1>8, <2>4, <4>1, ReplaceOutcome
      <3>2. \E m : Finish(m, r) BY <2>4 DEF OrderReplace
      <3> HIDE DEF r
      <3>3. Clean' /\ book' = r.book BY <1>2, <3>1, <3>2, CleanStep
      <3>4. Found(r.book) = Left(id) BY <1>6, <1>7, <2>0, <2>4, <3>1
      <3>5. book'.active_orders = id' \div 4 BY <1>7, <2>0, <2>4, <3>1, <3>3
      <3> QED BY <3>1, <3>3, <3>4, <3>5
    <2>5. \/ (id % 4 = 0 /\ cancel_all) \/ (id % 4 = 1 /\ OrderExecuted(id, quantity(id)))
          \/ id % 4 = 2 /\ OrderDelete(id)
          \/ id % 4 = 3 /\ OrderReplace(id, new_id(id), 50, new_price(id))
      BY DEF FollowUp
    <2> QED BY <2>2, <2>3, <2>4, <2>5
  <1>10. Arguments'
    <2>1. id' \in Nat /\ id' >= 1 BY <1>1, <1>3
    <2>2. <<mode, count>>' \in Workloads BY <1>2 DEF Arguments
    <2>3. emitted' \in Nat /\ emitted' <= count' BY <1>2, <1>3 DEF Owing
    <2> QED BY <1>1, <2>1, <2>2, <2>3 DEF Arguments
  <1>11. Between'
    <2>1. id' - 1 = id BY <1>1, <1>3
    <2>2. emitted' = 2 * (id' - 1) BY <1>2, <1>3, <2>1 DEF Owing
    <2>3. mode' = "mixed" /\ ~owed' BY <1>1, <1>7
    <2>4. Found(book') = Left(id' - 1) BY <1>9, <2>1
    <2> QED BY <1>9, <2>2, <2>3, <2>4 DEF Between
  <1>12. BookInv(book)' /\ OnQuotes(book)' BY <1>9
  <1> QED BY <1>9, <1>10, <1>11, <1>12 DEF GenInv
-----------------------------------------------------------------------------
(* Before the first message the book is empty. *)
LEMMA GenInitInv == GenInit => GenInv
  <1> SUFFICES ASSUME GenInit PROVE GenInv OBVIOUS
  <1>1. Init /\ emitted = 0 /\ id = 1 /\ owed = FALSE BY DEF GenInit
  <1>2. <<mode, count>> \in Workloads /\ mode \in {"mixed", "sequential"} /\ count \in Nat
    <2>1. PICK w \in Workloads : mode = w[1] /\ count = w[2] BY DEF GenInit
    <2>2. w \in {"mixed", "sequential"} \X Nat BY WorkloadAssumption
    <2>3. w = <<w[1], w[2]>> /\ w[1] \in {"mixed", "sequential"} /\ w[2] \in Nat BY <2>2
    <2>4. w = <<mode, count>> BY <2>1, <2>3
    <2> QED BY <2>1, <2>3, <2>4
  <1>3. Arguments
    <2>1. owed \in BOOLEAN BY <1>1
    <2>2. emitted \in Nat /\ emitted <= count /\ id \in Nat /\ id >= 1 BY <1>1, <1>2
    <2> QED BY <1>2, <2>1, <2>2 DEF Arguments
  <1>4. BookInv(book) BY <1>1, FreshBook
  <1>5. /\ \A i \in Ids : book.lookup[i] = none
        /\ \A s \in Sides, p \in Prices : book.index[s][p] = none
        /\ book.active_orders = 0
    BY <1>1 DEF Init
  <1>6. Clean BY <1>1 DEF Init, Clean
  <1>7. Found(book) = {} /\ OnQuotes(book) BY <1>5 DEF Found, OnQuotes
  <1>8. Left(0) = {} BY DEF Left
  <1>9. Sequential \/ Between
    <2>1. id - 1 = 0 /\ 1 .. id - 1 = {} /\ id \div 4 = 0 /\ 2 * (id - 1) = 0 BY <1>1
    <2>2. CASE mode = "sequential" BY <1>1, <1>5, <1>7, <2>1, <2>2 DEF Sequential
    <2>3. CASE mode = "mixed" BY <1>1, <1>5, <1>7, <1>8, <2>1, <2>3 DEF Between
    <2> QED BY <1>2, <2>2, <2>3
  <1> QED BY <1>3, <1>4, <1>6, <1>7, <1>9 DEF GenInv

(* The state of the book is known at every message of a feed. *)
THEOREM GenInvariance == GenSpec => []GenInv
  <1>1. GenInv /\ [GenNext]_genvars => GenInv'
    <2> SUFFICES ASSUME GenInv, [GenNext]_genvars PROVE GenInv' OBVIOUS
    <2>1. CASE GenNext
      <3>1. (Add \/ FollowUp) /\ emitted' = emitted + 1 /\ UNCHANGED <<mode, count>>
        BY <2>1 DEF GenNext
      <3>2. CASE Add BY <3>1, <3>2, WriteAdd
      <3>3. CASE FollowUp BY <3>1, <3>3, WriteFollowUp
      <3> QED BY <3>1, <3>2, <3>3
    <2>2. CASE UNCHANGED genvars
      BY <2>2 DEF genvars, vars, GenInv, Arguments, Clean, Sequential, Between, Owing, CutShort
    <2> QED BY <2>1, <2>2
  <1> QED BY <1>1, GenInitInv, PTL DEF GenSpec

(* A generated feed of any length, replayed into a book with room for it,  *)
(* meets no refusal, and the orders it leaves are exactly the replaced     *)
(* ones, the last one added without a follow-up, or all of a sequential    *)
(* feed.                                                                   *)
THEOREM FeedAlwaysReplaysClean == GenSpec => []FeedReplaysClean
  <1>1. GenInv => FeedReplaysClean
    <2> SUFFICES ASSUME GenInv PROVE FeedReplaysClean OBVIOUS
    <2>1. stats.rejected = 0 /\ stats.ignored = 0 BY DEF GenInv, Clean
    <2>2. {book.orders[o].id : o \in Live(book)} = Found(book)
      <3>1. LookupAgrees(book) BY DEF GenInv, BookInv, Nearly
      <3>2. \A o \in Live(book) : book.orders[o].id \in Found(book)
        <4>1. \A o \in Live(book) : o # none BY IndexFacts DEF Live
        <4> QED BY <3>1, <4>1 DEF LookupAgrees, Found
      <3>3. \A i \in Found(book) : \E o \in Live(book) : i = book.orders[o].id
        BY <3>1 DEF LookupAgrees, Found
      <3> QED BY <3>2, <3>3
    <2>3. id \in Nat /\ id >= 1 /\ emitted \in Nat BY DEF GenInv, Arguments
    <2>4. ASSUME ~owed PROVE Found(book) = LeftInBook
      <3>1. CASE Sequential BY <3>1 DEF Sequential, LeftInBook, Written
      <3>2. CASE Between
        <4>1. LastAdd = {}
          <5>1. \A i \in {id - 1} : emitted # 2 * i - 1 BY <2>3, <3>2 DEF Between
          <5> QED BY <5>1 DEF LastAdd
        <4>2. mode # "sequential" BY <3>2 DEF Between
        <4>3. LeftInBook = Left(id - 1) BY <4>1, <4>2 DEF LeftInBook, ReplacedIds, Written, Left
        <4> QED BY <3>2, <4>3 DEF Between
      <3>3. CASE CutShort
        <4>1. LastAdd = {id - 1}
          <5>1. emitted = count /\ emitted = 2 * (id - 1) - 1 BY <3>3 DEF CutShort
          <5> QED BY <5>1 DEF LastAdd
        <4>2. mode # "sequential" BY <3>3 DEF CutShort
        <4>3. ReplacedIds \ LastAdd = {j \in 1 .. id - 2 : j % 4 = 3}
          BY <2>3, <4>1 DEF ReplacedIds, Written
        <4>4. LeftInBook = Left(id - 2) \cup {id - 1} BY <4>1, <4>2, <4>3 DEF LeftInBook, Left
        <4> QED BY <3>3, <4>4 DEF CutShort
      <3> QED BY <2>4, <3>1, <3>2, <3>3 DEF GenInv, Owing
    <2> QED BY <2>1, <2>2, <2>4 DEF FeedReplaysClean
  <1> QED BY <1>1, GenInvariance, PTL
=============================================================================
