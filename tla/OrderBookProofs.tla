-------------------------- MODULE OrderBookProofs ---------------------------
(***************************************************************************)
(* For every capacity of the pools and every set of ids, prices and        *)
(* quantities, the pools, links, indexes and totals of the order book are  *)
(* exact after every message, and the book implements BookSpec.            *)
(***************************************************************************)
EXTENDS OrderBook, Functions, FiniteSetTheorems, WellFoundedInduction, SequenceTheorems,
        FunctionTheorems, TLAPS

(***************************************************************************)
(* Induction without an induction rule: a set of naturals has a least      *)
(* element, so a statement that fails somewhere fails somewhere first.     *)
(* From it, what the recursive definition of a sum over a finite set       *)
(* computes.                                                               *)
(***************************************************************************)

(* A least counterexample exists. *)
LEMMA LeastNat ==
    ASSUME NEW T \in SUBSET Nat, T # {}
    PROVE  \E n \in T : \A m \in T : n <= m
  <1> DEFINE R == OpToRel(<, Nat)
  <1>1. IsWellFoundedOn(R, Nat) BY NatLessThanWellFounded
  <1>2. \A x, y \in Nat : x < y => <<x, y>> \in R BY DEF OpToRel
  <1> HIDE DEF R
  <1>3. PICK n \in T : \A m \in T : ~(<<m, n>> \in R) BY <1>1, WFMin
  <1>4. ASSUME NEW m \in T PROVE n <= m
    <2>1. m \in Nat /\ n \in Nat OBVIOUS
    <2>2. ~(m < n) BY <1>2, <1>3, <2>1
    <2> QED BY <2>1, <2>2
  <1> QED BY <1>4
-----------------------------------------------------------------------------
(* The element that the fold takes next, and its recursion: g[s] is the    *)
(* sum of f over s, for the sets s in D.                                   *)
pick(s) == CHOOSE x \in s : TRUE
Step(g, f, s) == IF s = {} THEN 0 ELSE f[pick(s)] + g[s \ {pick(s)}]
Sums(g, f, D) == g = [s \in D |-> Step(g, f, s)]
Agree(f, h, T) == \A x \in T : f[x] = h[x]
Smaller(S, n) == {s \in SUBSET S : Cardinality(s) <= n}

(* The definition of the fold, as a choice among the solutions. *)
LEMMA SumUnfolds ==
    ASSUME NEW f, NEW S
    PROVE  SumFunctionOnSet(f, S) = (CHOOSE g : Sums(g, f, SUBSET S))[S]
  BY DEF SumFunctionOnSet, FoldFunctionOnSet, MapThenFoldSet, Sums, Step, pick

(* What is taken from a subset of a finite set leaves a smaller one. *)
LEMMA PickFacts ==
    ASSUME NEW S, IsFiniteSet(S), NEW s \in SUBSET S, s # {}
    PROVE  /\ pick(s) \in s /\ s \ {pick(s)} \in SUBSET S
           /\ Cardinality(s) \in Nat /\ Cardinality(s \ {pick(s)}) \in Nat
           /\ Cardinality(s \ {pick(s)}) = Cardinality(s) - 1
  <1>1. pick(s) \in s BY DEF pick
  <1>2. IsFiniteSet(s) BY FS_Subset
  <1>3. /\ Cardinality(s \ {pick(s)}) = Cardinality(s) - 1 /\ IsFiniteSet(s \ {pick(s)})
    BY <1>1, <1>2, FS_RemoveElement
  <1> QED BY <1>1, <1>2, <1>3, FS_CardinalityType

(* Solutions exist up to any size, by adding one size to a solution. *)
LEMMA SolutionUpTo ==
    ASSUME NEW S, IsFiniteSet(S), NEW f, \A x \in S : f[x] \in Int, NEW n \in Nat
    PROVE  \E g \in [Smaller(S, n) -> Int] : Sums(g, f, Smaller(S, n))
  <1> DEFINE Has(k) == \E g \in [Smaller(S, k) -> Int] : Sums(g, f, Smaller(S, k))
             Bad == {k \in Nat : ~Has(k)}
  <1>1. Has(0)
    <2> DEFINE g == [s \in Smaller(S, 0) |-> 0]
    <2>1. \A s \in Smaller(S, 0) : s = {}
      <3> TAKE s \in Smaller(S, 0)
      <3>1. s \in SUBSET S /\ Cardinality(s) <= 0 BY DEF Smaller
      <3>2. IsFiniteSet(s) BY <3>1, FS_Subset
      <3> QED BY <3>1, <3>2, FS_CardinalityType, FS_EmptySet
    <2>2. \A s \in Smaller(S, 0) : Step(g, f, s) = 0 BY <2>1 DEF Step
    <2>3. g \in [Smaller(S, 0) -> Int] /\ Sums(g, f, Smaller(S, 0)) BY <2>2 DEF Sums
    <2> QED BY <2>3
  <1>2. ASSUME NEW k \in Nat, Has(k) PROVE Has(k + 1)
    <2>1. PICK h \in [Smaller(S, k) -> Int] : Sums(h, f, Smaller(S, k)) BY <1>2
    <2> DEFINE g == [s \in Smaller(S, k + 1) |->
                        IF Cardinality(s) <= k THEN h[s] ELSE Step(h, f, s)]
    <2>2. ASSUME NEW s \in Smaller(S, k + 1)
          PROVE  /\ g[s] \in Int
                 /\ g[s] = Step(g, f, s)
      <3>1. s \in SUBSET S /\ Cardinality(s) <= k + 1 BY DEF Smaller
      <3>2. CASE s = {}
        <4>1. Cardinality(s) <= k BY <3>2, FS_EmptySet
        <4>2. s \in Smaller(S, k) BY <3>1, <4>1 DEF Smaller
        <4>3. h[s] = Step(h, f, s) BY <2>1, <4>2 DEF Sums
        <4> QED BY <3>2, <4>1, <4>2, <4>3 DEF Step
      <3>3. CASE s # {}
        <4> DEFINE x == pick(s)
                   r == s \ {x}
        <4>1. /\ x \in s /\ r \in SUBSET S /\ Cardinality(s) \in Nat
              /\ Cardinality(r) \in Nat /\ Cardinality(r) = Cardinality(s) - 1
          BY <3>1, <3>3, PickFacts
        <4>2. r \in Smaller(S, k) /\ r \in Smaller(S, k + 1) /\ Cardinality(r) <= k
          BY <3>1, <4>1 DEF Smaller
        <4>3. g[r] = h[r] BY <4>2
        <4>4. Step(g, f, s) = Step(h, f, s) BY <4>3 DEF Step
        <4>5. Cardinality(s) <= k => h[s] = Step(h, f, s)
          BY <2>1, <3>1 DEF Sums, Smaller
        <4>6. g[s] = Step(g, f, s) BY <4>4, <4>5
        <4>7. Step(h, f, s) \in Int
          <5>1. f[x] \in Int /\ h[r] \in Int BY <3>1, <4>1, <4>2
          <5> QED BY <5>1, <3>3 DEF Step
        <4> QED BY <4>4, <4>6, <4>7
      <3> QED BY <3>2, <3>3
    <2>3. g \in [Smaller(S, k + 1) -> Int] BY <2>2
    <2>4. Sums(g, f, Smaller(S, k + 1)) BY <2>2 DEF Sums
    <2> HIDE DEF g
    <2> QED BY <2>3, <2>4
  <1> HIDE DEF Has
  <1>3. SUFFICES ASSUME Bad # {} PROVE FALSE BY DEF Has
  <1>4. PICK k \in Bad : \A j \in Bad : k <= j BY <1>3, LeastNat
  <1>5. k \in Nat /\ ~Has(k) /\ k # 0 BY <1>1, <1>4
  <1>6. k - 1 \in Nat /\ Has(k - 1) BY <1>4, <1>5
  <1>7. Has((k - 1) + 1) BY <1>2, <1>6
  <1> QED BY <1>5, <1>7

(* Two solutions agree where they are both defined, if what they sum does. *)
LEMMA SolutionsAgree ==
    ASSUME NEW S, IsFiniteSet(S), NEW T \in SUBSET S, NEW f, NEW h, Agree(f, h, T),
           NEW F, Sums(F, f, SUBSET S), NEW H, Sums(H, h, SUBSET T)
    PROVE  Agree(F, H, SUBSET T)
  <1> DEFINE Bad == {k \in Nat : \E s \in SUBSET T : Cardinality(s) = k /\ F[s] # H[s]}
  <1>0. IsFiniteSet(T) BY FS_Subset
  <1>1. SUFFICES ASSUME NEW s0 \in SUBSET T, F[s0] # H[s0] PROVE FALSE BY DEF Agree
  <1>2. Cardinality(s0) \in Bad BY <1>0, <1>1, FS_Subset, FS_CardinalityType
  <1>3. PICK k \in Bad : \A j \in Bad : k <= j BY <1>2, LeastNat
  <1>4. PICK s \in SUBSET T : Cardinality(s) = k /\ F[s] # H[s] BY <1>3
  <1>5. F[s] = Step(F, f, s) /\ H[s] = Step(H, h, s) BY DEF Sums
  <1>6. s # {} BY <1>4, <1>5 DEF Step
  <1>7. /\ pick(s) \in s /\ s \ {pick(s)} \in SUBSET T /\ Cardinality(s \ {pick(s)}) \in Nat
        /\ Cardinality(s \ {pick(s)}) = Cardinality(s) - 1
    BY <1>0, <1>6, PickFacts
  <1>8. F[s \ {pick(s)}] = H[s \ {pick(s)}] BY <1>3, <1>4, <1>7
  <1> QED BY <1>4, <1>5, <1>7, <1>8 DEF Step, Agree

(* The sum as a solution. *)
LEMMA SumSolves ==
    ASSUME NEW S, IsFiniteSet(S), NEW f, \A x \in S : f[x] \in Int
    PROVE  \E g \in [SUBSET S -> Int] : Sums(g, f, SUBSET S) /\ SumFunctionOnSet(f, S) = g[S]
  <1> DEFINE n == Cardinality(S)
  <1>1. n \in Nat BY FS_CardinalityType
  <1>2. Smaller(S, n) = SUBSET S BY FS_Subset DEF Smaller
  <1>3. PICK g \in [SUBSET S -> Int] : Sums(g, f, SUBSET S)
    <2>1. \E g \in [Smaller(S, n) -> Int] : Sums(g, f, Smaller(S, n)) BY <1>1, SolutionUpTo
    <2> QED BY <1>2, <2>1
  <1> DEFINE c == CHOOSE c : Sums(c, f, SUBSET S)
  <1>4. Sums(c, f, SUBSET S) BY <1>3
  <1>5. SumFunctionOnSet(f, S) = c[S] BY SumUnfolds
  <1> HIDE DEF c
  <1>6. Agree(c, g, SUBSET S)
    <2>1. S \in SUBSET S /\ Agree(f, f, S) BY DEF Agree
    <2> QED BY <1>3, <1>4, <2>1, SolutionsAgree
  <1> QED BY <1>3, <1>5, <1>6 DEF Agree

(* The sum over no element, and its type. *)
LEMMA SumEmpty == ASSUME NEW f PROVE SumFunctionOnSet(f, {}) = 0
  <1>1. PICK g \in [SUBSET {} -> Int] : Sums(g, f, SUBSET {}) /\ SumFunctionOnSet(f, {}) = g[{}]
    BY SumSolves, FS_EmptySet
  <1> QED BY <1>1 DEF Sums, Step

(* A sum of integers is one. *)
LEMMA SumType ==
    ASSUME NEW S, IsFiniteSet(S), NEW f, \A x \in S : f[x] \in Int
    PROVE  SumFunctionOnSet(f, S) \in Int
  <1>1. PICK g \in [SUBSET S -> Int] : Sums(g, f, SUBSET S) /\ SumFunctionOnSet(f, S) = g[S]
    BY SumSolves
  <1> QED BY <1>1

(* A sum depends only on the values summed. *)
LEMMA SumAgree ==
    ASSUME NEW S, IsFiniteSet(S), NEW f, NEW h,
           \A x \in S : f[x] \in Int /\ f[x] = h[x]
    PROVE  SumFunctionOnSet(f, S) = SumFunctionOnSet(h, S)
  <1>1. PICK F \in [SUBSET S -> Int] : Sums(F, f, SUBSET S) /\ SumFunctionOnSet(f, S) = F[S]
    BY SumSolves
  <1>2. PICK H \in [SUBSET S -> Int] : Sums(H, h, SUBSET S) /\ SumFunctionOnSet(h, S) = H[S]
    BY SumSolves
  <1>3. Agree(F, H, SUBSET S)
    <2>1. S \in SUBSET S /\ Agree(f, h, S) BY DEF Agree
    <2> QED BY <1>1, <1>2, <2>1, SolutionsAgree
  <1> QED BY <1>1, <1>2, <1>3 DEF Agree

(* The sum without the element that the fold takes first ... *)
LEMMA SumPick ==
    ASSUME NEW S, IsFiniteSet(S), S # {}, NEW f, \A x \in S : f[x] \in Int
    PROVE  SumFunctionOnSet(f, S) = f[pick(S)] + SumFunctionOnSet(f, S \ {pick(S)})
  <1> DEFINE T == S \ {pick(S)}
  <1>1. pick(S) \in S /\ T \in SUBSET S /\ IsFiniteSet(T) BY PickFacts, FS_Subset
  <1>2. PICK F \in [SUBSET S -> Int] : Sums(F, f, SUBSET S) /\ SumFunctionOnSet(f, S) = F[S]
    BY SumSolves
  <1>3. PICK H \in [SUBSET T -> Int] : Sums(H, f, SUBSET T) /\ SumFunctionOnSet(f, T) = H[T]
    BY <1>1, SumSolves
  <1>4. Agree(F, H, SUBSET T)
    <2> HIDE DEF T
    <2>1. Agree(f, f, T) BY DEF Agree
    <2> QED BY <1>1, <1>2, <1>3, <2>1, SolutionsAgree
  <1>5. F[S] = f[pick(S)] + F[T] BY <1>2 DEF Sums, Step
  <1> QED BY <1>2, <1>3, <1>4, <1>5 DEF Agree

(* ... and without any element: the order of summation does not matter. *)
LEMMA SumRemove ==
    ASSUME NEW S, IsFiniteSet(S), NEW f, \A x \in S : f[x] \in Int, NEW e \in S
    PROVE  SumFunctionOnSet(f, S) = f[e] + SumFunctionOnSet(f, S \ {e})
  <1> DEFINE Good(s) == \A x \in s :
                 SumFunctionOnSet(f, s) = f[x] + SumFunctionOnSet(f, s \ {x})
             Bad == {k \in Nat : \E s \in SUBSET S : Cardinality(s) = k /\ ~Good(s)}
  <1>1. SUFFICES ASSUME ~Good(S) PROVE FALSE OBVIOUS
  <1> HIDE DEF Good
  <1>2. Cardinality(S) \in Bad BY <1>1, FS_CardinalityType
  <1>3. PICK k \in Bad : \A j \in Bad : k <= j BY <1>2, LeastNat
  <1>4. PICK s \in SUBSET S : Cardinality(s) = k /\ ~Good(s) BY <1>3
  <1>5. IsFiniteSet(s) BY FS_Subset
  <1>6. PICK x \in s : SumFunctionOnSet(f, s) # f[x] + SumFunctionOnSet(f, s \ {x})
    BY <1>4 DEF Good
  <1> DEFINE c == pick(s)
             t == (s \ {x}) \ {c}
  <1>7. SumFunctionOnSet(f, s) = f[c] + SumFunctionOnSet(f, s \ {c}) BY <1>5, <1>6, SumPick
  <1>8. c \in s /\ x # c BY <1>6, <1>7 DEF pick
  <1>9. ASSUME NEW y \in s PROVE Good(s \ {y})
    <2>1. s \ {y} \in SUBSET S OBVIOUS
    <2>2. IsFiniteSet(s \ {y}) /\ Cardinality(s \ {y}) = k - 1 BY <1>4, <1>5, FS_RemoveElement
    <2>3. k - 1 \in Nat BY <2>2, FS_CardinalityType
    <2>4. k - 1 \notin Bad BY <1>3, <2>3
    <2> QED BY <2>1, <2>2, <2>3, <2>4
  <1>10. SumFunctionOnSet(f, s \ {c}) = f[x] + SumFunctionOnSet(f, t)
    <2>1. (s \ {c}) \ {x} = t OBVIOUS
    <2>2. Good(s \ {c}) /\ x \in s \ {c} BY <1>8, <1>9
    <2> QED BY <2>1, <2>2 DEF Good
  <1>11. SumFunctionOnSet(f, s \ {x}) = f[c] + SumFunctionOnSet(f, t) BY <1>8, <1>9 DEF Good
  <1>12. IsFiniteSet(t) /\ t \in SUBSET S BY <1>5, FS_Subset
  <1>13. f[x] \in Int /\ f[c] \in Int BY <1>8
  <1>14. SumFunctionOnSet(f, t) \in Int BY <1>12, SumType
  <1> HIDE DEF c, t
  <1> QED BY <1>6, <1>7, <1>10, <1>11, <1>13, <1>14
-----------------------------------------------------------------------------

(* The queues have no cycle: along next, orders are ever younger.  The     *)
(* links alone do not say so, and without it taking out the only order     *)
(* that is both head and tail could leave others behind.                   *)
Ranked(b) ==
    \E age \in [OrderIndex -> Nat] :
        \A o \in Live(b) : b.orders[o].next # none => age[o] < age[b.orders[o].next]

QueueAt(b, l) ==
    IF Members(b, l) = {} THEN b.levels[l].head = none /\ b.levels[l].tail = none
    ELSE EndsAt(b, l)

(* A book in the middle of a call: level e may have no order, and order z  *)
(* may have no quantity left.                                              *)
Nearly(b, e, z) ==
    /\ b \in BookType /\ PoolsWhole(b) /\ LookupAgrees(b) /\ IndexAgrees(b)
    /\ LinksAgree(b) /\ Ranked(b) /\ PoolsCounted(b)
    /\ \A l \in LevelIndex : b.levels[l].active =>
          TotalsAt(b, l) /\ QueueAt(b, l) /\ (l # e => Members(b, l) # {})
    /\ \A o \in Live(b) : o # z => b.orders[o].quantity > 0

BookInv(b) == Nearly(b, none, none)
-----------------------------------------------------------------------------
(* The slots of the pools, and the range of none. *)
LEMMA IndexFacts ==
    /\ none \notin OrderIndex /\ none \notin LevelIndex
    /\ IsFiniteSet(OrderIndex) /\ IsFiniteSet(LevelIndex)
    /\ Cardinality(OrderIndex) = MaxOrders
  <1>1. IsFiniteSet(OrderIndex) /\ Cardinality(OrderIndex) = MaxOrders
    BY CapacityAssumption, FS_Interval DEF OrderIndex
  <1>2. IsFiniteSet(LevelIndex) BY CapacityAssumption, FS_Interval DEF LevelIndex
  <1> QED BY <1>1, <1>2 DEF none, OrderIndex, LevelIndex

(* The live orders and levels are finite sets of slots. *)
LEMMA SlotsFinite ==
    ASSUME NEW b
    PROVE  /\ IsFiniteSet(Live(b))
           /\ IsFiniteSet({l \in LevelIndex : b.levels[l].active})
           /\ \A l : IsFiniteSet(Members(b, l))
  <1>1. Live(b) \in SUBSET OrderIndex BY DEF Live
  <1>2. {l \in LevelIndex : b.levels[l].active} \in SUBSET LevelIndex OBVIOUS
  <1>3. \A l : Members(b, l) \in SUBSET OrderIndex BY DEF Members, Live
  <1> QED BY <1>1, <1>2, <1>3, IndexFacts, FS_Subset

(* The first free slot is taken from the list, or put in front of it. *)
LEMMA TakeListed ==
    ASSUME NEW s, NEW S, NEW T, s \in Seq(T), s # <<>>, Lists(s, S)
    PROVE  /\ Head(s) \in S /\ Tail(s) \in Seq(T)
           /\ Lists(Tail(s), S \ {Head(s)})
  <1>1. /\ Len(s) \in Nat \ {0} /\ DOMAIN s = 1 .. Len(s) /\ Head(s) = s[1]
        /\ Tail(s) \in Seq(T) /\ DOMAIN Tail(s) = 1 .. Len(s) - 1
        /\ \A i \in 1 .. Len(s) - 1 : Tail(s)[i] = s[i + 1]
    OBVIOUS
  <1>2. \A i \in DOMAIN Tail(s) : Tail(s)[i] \in S \ {Head(s)} BY <1>1 DEF Lists
  <1>3. ASSUME NEW x \in S \ {Head(s)} PROVE \E i \in DOMAIN Tail(s) : Tail(s)[i] = x
    <2>1. PICK i \in DOMAIN s : s[i] = x BY DEF Lists
    <2>2. i - 1 \in DOMAIN Tail(s) /\ Tail(s)[i - 1] = x BY <1>1, <2>1
    <2> QED BY <2>2
  <1>4. \A i, j \in DOMAIN Tail(s) : Tail(s)[i] = Tail(s)[j] => i = j BY <1>1 DEF Lists
  <1> QED BY <1>1, <1>2, <1>3, <1>4 DEF Lists

(* A slot given back is listed in front of the others. *)
LEMMA PutListed ==
    ASSUME NEW s, NEW S, NEW T, s \in Seq(T), NEW x \in T, x \notin S, Lists(s, S)
    PROVE  <<x>> \o s \in Seq(T) /\ Lists(<<x>> \o s, S \cup {x})
  <1> DEFINE r == <<x>> \o s
  <1>1. /\ r \in Seq(T) /\ Len(s) \in Nat /\ DOMAIN r = 1 .. Len(s) + 1 /\ DOMAIN s = 1 .. Len(s)
        /\ r[1] = x /\ \A i \in 1 .. Len(s) : r[i + 1] = s[i]
    OBVIOUS
  <1>2. \A i \in 2 .. Len(s) + 1 : i - 1 \in 1 .. Len(s) /\ r[i] = s[i - 1]
    <2> TAKE i \in 2 .. Len(s) + 1
    <2>1. i - 1 \in 1 .. Len(s) /\ (i - 1) + 1 = i BY <1>1
    <2> QED BY <1>1, <2>1
  <1> HIDE DEF r
  <1>3. \A i \in DOMAIN r : i = 1 \/ i \in 2 .. Len(s) + 1 BY <1>1
  <1>4. \A i \in DOMAIN r : r[i] \in S \cup {x} BY <1>1, <1>2, <1>3 DEF Lists
  <1>5. ASSUME NEW y \in S \cup {x} PROVE \E i \in DOMAIN r : r[i] = y
    <2>1. CASE y = x BY <1>1, <2>1
    <2>2. CASE y \in S
      <3>1. PICK i \in DOMAIN s : s[i] = y BY <2>2 DEF Lists
      <3> QED BY <1>1, <3>1
    <2> QED BY <2>1, <2>2
  <1>6. ASSUME NEW i \in DOMAIN r, NEW j \in DOMAIN r, r[i] = r[j] PROVE i = j
    <2>1. \A k \in 2 .. Len(s) + 1 : r[k] \in S BY <1>1, <1>2 DEF Lists
    <2>2. CASE i = 1 \/ j = 1 BY <1>1, <1>3, <1>6, <2>1, <2>2
    <2>3. CASE i # 1 /\ j # 1
      <3>1. s[i - 1] = s[j - 1] /\ i - 1 \in DOMAIN s /\ j - 1 \in DOMAIN s
        BY <1>1, <1>2, <1>3, <1>6, <2>3
      <3>2. i - 1 = j - 1 BY <3>1 DEF Lists
      <3> QED BY <3>2, <1>1
    <2> QED BY <2>2, <2>3
  <1> QED BY <1>1, <1>4, <1>5, <1>6 DEF Lists, r
-----------------------------------------------------------------------------
(* The fields of a book, and of the records in its pools. *)
LEMMA BookFields ==
    ASSUME NEW b, b \in BookType
    PROVE  /\ b.orders \in [OrderIndex -> OrderType] /\ b.free_order \in Seq(OrderIndex)
           /\ b.levels \in [LevelIndex -> LevelType] /\ b.free_level \in Seq(LevelIndex)
           /\ b.index \in [Sides -> [Prices -> LevelIndex \cup {none}]]
           /\ b.lookup \in [Ids -> OrderIndex \cup {none}]
           /\ b.active_orders \in Int /\ b.active_levels \in Int
  BY DEF BookType

(* What a released slot holds. *)
LEMMA BlankFacts ==
    /\ BlankLevel \in LevelType /\ BlankOrder \in OrderType
    /\ ~BlankLevel.active /\ BlankLevel.total_quantity = 0 /\ BlankLevel.order_count = 0
    /\ BlankLevel.head = none /\ BlankLevel.tail = none
    /\ ~BlankOrder.active
  <1>1. BlankLevel \in LevelType BY DEF BlankLevel, LevelType
  <1>2. BlankOrder \in OrderType BY DEF BlankOrder, OrderType
  <1> QED BY <1>1, <1>2 DEF BlankLevel, BlankOrder

(* level_get_or_add() when there is a level for the price or a free one:   *)
(* nothing but the levels changes, and the level of the price may be the   *)
(* one without orders.                                                     *)
LEMMA LevelReady ==
    ASSUME NEW b, BookInv(b), NEW side \in Sides, NEW p \in Prices,
           b.index[side][p] # none \/ b.free_level # <<>>,
           NEW a, a = level_get_or_add(b, side, p)
    PROVE  /\ Nearly(a, a.index[side][p], none)
           /\ a.index[side][p] \in LevelIndex
           /\ a.orders = b.orders /\ a.free_order = b.free_order /\ a.lookup = b.lookup
           /\ a.active_orders = b.active_orders
  <1> DEFINE n == Head(b.free_level)
  <1>0. b \in BookType BY DEF BookInv, Nearly
  <1>1. CASE b.index[side][p] # none
    <2>1. a = b BY <1>1 DEF level_get_or_add, level_find
    <2>2. b.index[side][p] \in LevelIndex BY <1>0, <1>1 DEF BookType
    <2>3. Nearly(b, b.index[side][p], none) BY IndexFacts DEF BookInv, Nearly
    <2> QED BY <2>1, <2>2, <2>3
  <1>2. CASE b.index[side][p] = none
    <2>1. /\ a.orders = b.orders /\ a.free_order = b.free_order /\ a.lookup = b.lookup
          /\ a.active_orders = b.active_orders /\ a.active_levels = b.active_levels + 1
          /\ a.free_level = Tail(b.free_level)
          /\ a.levels = [b.levels EXCEPT ![n] = [BlankLevel EXCEPT !.price = p, !.active = TRUE]]
          /\ a.index = [b.index EXCEPT ![side][p] = n]
      BY <1>0, <1>2 DEF level_get_or_add, level_find, BookType
    <2>2. /\ n \in LevelIndex /\ ~b.levels[n].active /\ Tail(b.free_level) \in Seq(LevelIndex)
          /\ Lists(Tail(b.free_level), {l \in LevelIndex : ~b.levels[l].active} \ {n})
      <3> DEFINE F == {l \in LevelIndex : ~b.levels[l].active}
      <3>1. Lists(b.free_level, F) /\ b.free_level \in Seq(LevelIndex) /\ b.free_level # <<>>
        BY <1>0, <1>2, BookFields DEF BookInv, Nearly, PoolsWhole
      <3>2. n \in F /\ Tail(b.free_level) \in Seq(LevelIndex) /\ Lists(Tail(b.free_level), F \ {n})
        <4> HIDE DEF F
        <4> QED BY <3>1, TakeListed
      <3> QED BY <3>2
    <2> HIDE DEF n
    <2>3. /\ \A l \in LevelIndex : l # n => a.levels[l] = b.levels[l]
          /\ a.levels[n].active /\ a.levels[n].price = p /\ a.levels[n].total_quantity = 0
          /\ a.levels[n].order_count = 0 /\ a.levels[n].head = none /\ a.levels[n].tail = none
          /\ \A s \in Sides, r \in Prices :
                a.index[s][r] = IF s = side /\ r = p THEN n ELSE b.index[s][r]
      <3>1. a.levels[n] = [BlankLevel EXCEPT !.price = p, !.active = TRUE]
        BY <1>0, <2>1, <2>2, BookFields
      <3>2. /\ a.levels[n].active /\ a.levels[n].price = p /\ a.levels[n].total_quantity = 0
            /\ a.levels[n].order_count = 0 /\ a.levels[n].head = none /\ a.levels[n].tail = none
        BY <3>1 DEF BlankLevel
      <3> QED BY <1>0, <2>1, <2>2, <3>2, BookFields
    <2>4. a \in BookType
      <3>1. a.levels \in [LevelIndex -> LevelType]
        <4>1. [BlankLevel EXCEPT !.price = p, !.active = TRUE] \in LevelType
          BY ValueAssumption, BlankFacts DEF LevelType
        <4> QED BY <1>0, <2>1, <2>2, <4>1, BookFields
      <3>2. a.index \in [Sides -> [Prices -> LevelIndex \cup {none}]]
        BY <1>0, <2>1, <2>2, BookFields
      <3>3. a.active_levels \in Int BY <1>0, <2>1, BookFields
      <3>4. a = [b EXCEPT !.levels = a.levels, !.free_level = a.free_level, !.index = a.index,
                          !.active_levels = a.active_levels]
        BY <1>0, <1>2, <2>1 DEF level_get_or_add, level_find, n
      <3> QED BY <1>0, <2>1, <2>2, <3>1, <3>2, <3>3, <3>4 DEF BookType
    <2>5. Live(a) = Live(b) /\ \A l : Members(a, l) = Members(b, l)
      BY <2>1 DEF Live, Members
    <2>6. \A s \in Sides, r \in Prices : b.index[s][r] # n
      BY <2>2, IndexFacts DEF BookInv, Nearly, IndexAgrees
    <2>7. Members(b, n) = {}
      BY <2>6 DEF BookInv, Nearly, IndexAgrees, Members
    <2>8. {l \in LevelIndex : ~a.levels[l].active} = {l \in LevelIndex : ~b.levels[l].active} \ {n}
      BY <2>2, <2>3
    <2>9. PoolsWhole(a)
      BY <2>1, <2>2, <2>5, <2>8 DEF BookInv, Nearly, PoolsWhole
    <2>10. LookupAgrees(a)
      BY <2>1, <2>5 DEF BookInv, Nearly, LookupAgrees
    <2>11. IndexAgrees(a)
      <3>1. \A s \in Sides, r \in Prices : a.index[s][r] # none =>
               a.levels[a.index[s][r]].active /\ a.levels[a.index[s][r]].price = r
        BY <1>0, <2>2, <2>3, <2>6 DEF BookInv, Nearly, IndexAgrees, BookType
      <3>2. \A s, t \in Sides, u, r \in Prices :
               a.index[s][u] # none /\ a.index[s][u] = a.index[t][r] => s = t /\ u = r
        <4> TAKE s, t \in Sides, u, r \in Prices
        <4>1. CASE (s = side /\ u = p) \/ (t = side /\ r = p) BY <2>3, <2>6, <4>1
        <4>2. CASE ~(s = side /\ u = p) /\ ~(t = side /\ r = p)
          <5>1. a.index[s][u] = b.index[s][u] /\ a.index[t][r] = b.index[t][r] BY <2>3, <4>2
          <5>2. IndexAgrees(b) BY DEF BookInv, Nearly
          <5>3. b.index[s][u] # none /\ b.index[s][u] = b.index[t][r] => s = t /\ u = r
            BY ONLY <5>2, s \in Sides, t \in Sides, u \in Prices, r \in Prices DEF IndexAgrees
          <5> QED BY <5>1, <5>3
        <4> QED BY <4>1, <4>2
      <3>3. \A l \in LevelIndex : a.levels[l].active =>
               \E s \in Sides, r \in Prices : a.index[s][r] = l
        <4> SUFFICES ASSUME NEW l \in LevelIndex, a.levels[l].active
                     PROVE  \E s \in Sides, r \in Prices : a.index[s][r] = l
          OBVIOUS
        <4>1. CASE l = n BY <2>3, <4>1
        <4>2. CASE l # n
          <5>1. PICK s \in Sides, r \in Prices : b.index[s][r] = l
            BY <2>3, <4>2 DEF BookInv, Nearly, IndexAgrees
          <5>2. ~(s = side /\ r = p) BY <1>2, <5>1, IndexFacts
          <5> QED BY <2>3, <5>1, <5>2
        <4> QED BY <4>1, <4>2
      <3>4. \A o \in Live(a) :
               LET r == a.orders[o] IN r.side \in Sides /\ r.price \in Prices /\ r.level # none
                                       /\ r.level = a.index[r.side][r.price]
        BY <1>2, <2>1, <2>3, <2>5 DEF BookInv, Nearly, IndexAgrees
      <3> QED BY <3>1, <3>2, <3>3, <3>4 DEF IndexAgrees
    <2>12. \A o \in Live(b) : b.orders[o].level \in LevelIndex /\ b.orders[o].level # n
      BY <1>0, <2>6 DEF BookInv, Nearly, IndexAgrees, BookType
    <2>13. LinksAgree(a)
      BY <2>1, <2>3, <2>5, <2>12 DEF BookInv, Nearly, LinksAgree
    <2>14. Ranked(a) BY <2>1, <2>5 DEF BookInv, Nearly, Ranked
    <2>15. PoolsCounted(a)
      <3>1. {l \in LevelIndex : a.levels[l].active} = {l \in LevelIndex : b.levels[l].active} \cup {n}
        BY <2>2, <2>3
      <3>2. n \notin {l \in LevelIndex : b.levels[l].active} BY <2>2
      <3>3. IsFiniteSet({l \in LevelIndex : b.levels[l].active}) BY SlotsFinite
      <3>4. Cardinality({l \in LevelIndex : a.levels[l].active})
            = Cardinality({l \in LevelIndex : b.levels[l].active}) + 1
        BY <3>1, <3>2, <3>3, FS_AddElement
      <3> QED BY <2>1, <2>5, <3>4 DEF BookInv, Nearly, PoolsCounted
    <2>16. ASSUME NEW l \in LevelIndex, a.levels[l].active
           PROVE  TotalsAt(a, l) /\ QueueAt(a, l) /\ (l # n => Members(a, l) # {})
      <3>1. Quantity(a) = Quantity(b) BY <2>1 DEF Quantity
      <3>2. CASE l = n
        <4>1. Members(a, n) = {} BY <2>5, <2>7
        <4>2. SumFunctionOnSet(Quantity(a), Members(a, n)) = 0 BY <4>1, SumEmpty
        <4>3. Cardinality(Members(a, n)) = 0 BY <4>1, FS_EmptySet
        <4> QED BY <2>3, <3>2, <4>1, <4>2, <4>3 DEF TotalsAt, QueueAt
      <3>3. CASE l # n
        <4>1. TotalsAt(b, l) /\ QueueAt(b, l) /\ Members(b, l) # {}
          BY <2>3, <2>16, <3>3, IndexFacts DEF BookInv, Nearly
        <4> QED BY <2>1, <2>3, <2>5, <3>1, <3>3, <4>1 DEF TotalsAt, QueueAt, EndsAt
      <3> QED BY <3>2, <3>3
    <2>17. \A o \in Live(a) : o # none => a.orders[o].quantity > 0
      BY <2>1, <2>5 DEF BookInv, Nearly
    <2>18. a.index[side][p] = n BY <2>3
    <2>19. Nearly(a, n, none)
      BY <2>4, <2>9, <2>10, <2>11, <2>13, <2>14, <2>15, <2>16, <2>17 DEF Nearly
    <2> QED BY <2>1, <2>2, <2>18, <2>19
  <1> QED BY <1>1, <1>2
-----------------------------------------------------------------------------
(* From a to c, order o comes to rest at the end of the queue of level l.  *)
Rests(a, c, o, l, id, side, q, p) ==
    LET t == a.levels[l].tail IN
    /\ c = [a EXCEPT !.orders = c.orders, !.levels = c.levels, !.free_order = Tail(a.free_order),
                     !.lookup = [a.lookup EXCEPT ![id] = o], !.active_orders = a.active_orders + 1]
    /\ c.orders \in [OrderIndex -> OrderType] /\ c.levels \in [LevelIndex -> LevelType]
    /\ c.orders[o].id = id /\ c.orders[o].price = p /\ c.orders[o].quantity = q
    /\ c.orders[o].side = side /\ c.orders[o].level = l /\ c.orders[o].active
    /\ c.orders[o].prev = t /\ c.orders[o].next = none
    /\ t # none => c.orders[t] = [a.orders[t] EXCEPT !.next = o]
    /\ \A x \in OrderIndex : x # o /\ x # t => c.orders[x] = a.orders[x]
    /\ \A k \in LevelIndex : k # l => c.levels[k] = a.levels[k]
    /\ c.levels[l].active = a.levels[l].active /\ c.levels[l].price = a.levels[l].price
    /\ c.levels[l].head = IF t = none THEN o ELSE a.levels[l].head
    /\ c.levels[l].tail = o
    /\ c.levels[l].order_count = a.levels[l].order_count + 1
    /\ c.levels[l].total_quantity = a.levels[l].total_quantity + q

(* The order that comes to rest last completes the level prepared for it. *)
LEMMA RestKeeps ==
    ASSUME NEW a, NEW c, NEW id \in Ids, NEW side \in Sides, NEW p \in Prices,
           NEW q \in Quantities, q # 0, NEW l \in LevelIndex, l = a.index[side][p],
           Nearly(a, l, none), a.free_order # <<>>, a.lookup[id] = none,
           NEW o, o = Head(a.free_order), Rests(a, c, o, l, id, side, q, p)
    PROVE  BookInv(c)
  <1> DEFINE t == a.levels[l].tail
  <1>1. a \in BookType /\ q \in Nat /\ q > 0 BY ValueAssumption DEF Nearly
  <1>2. /\ o \in OrderIndex /\ ~a.orders[o].active /\ Tail(a.free_order) \in Seq(OrderIndex)
        /\ Lists(Tail(a.free_order), (OrderIndex \ Live(a)) \ {o})
    <2>1. Lists(a.free_order, OrderIndex \ Live(a)) /\ a.free_order \in Seq(OrderIndex)
      BY <1>1, BookFields DEF Nearly, PoolsWhole
    <2>2. /\ o \in OrderIndex \ Live(a) /\ Tail(a.free_order) \in Seq(OrderIndex)
          /\ Lists(Tail(a.free_order), (OrderIndex \ Live(a)) \ {o})
      BY <2>1, TakeListed
    <2> QED BY <2>2 DEF Live
  <1>3. a.levels[l].active
    BY IndexFacts DEF Nearly, IndexAgrees
  <1>4. /\ QueueAt(a, l)
        /\ t = none => Members(a, l) = {} /\ a.levels[l].head = none
        /\ t # none => t \in Members(a, l) /\ t \in Live(a) /\ t \in OrderIndex /\ t # o
                       /\ a.orders[t].next = none /\ a.orders[t].level = l
                       /\ a.levels[l].head \in Members(a, l)
    <2>1. QueueAt(a, l) BY <1>3 DEF Nearly
    <2> QED BY <1>2, <2>1, IndexFacts DEF QueueAt, EndsAt, Members, Live
  <1>5. /\ c.orders \in [OrderIndex -> OrderType] /\ c.levels \in [LevelIndex -> LevelType]
        /\ c.free_order = Tail(a.free_order) /\ c.lookup = [a.lookup EXCEPT ![id] = o]
        /\ c.active_orders = a.active_orders + 1 /\ c.active_levels = a.active_levels
        /\ c.index = a.index /\ c.free_level = a.free_level
        /\ c.orders[o].id = id /\ c.orders[o].price = p /\ c.orders[o].quantity = q
        /\ c.orders[o].side = side /\ c.orders[o].level = l /\ c.orders[o].active
        /\ c.orders[o].prev = t /\ c.orders[o].next = none
    BY <1>1 DEF Rests, BookType
  <1>6. \A x \in OrderIndex : x # o =>
           /\ c.orders[x].id = a.orders[x].id /\ c.orders[x].price = a.orders[x].price
           /\ c.orders[x].quantity = a.orders[x].quantity /\ c.orders[x].side = a.orders[x].side
           /\ c.orders[x].level = a.orders[x].level /\ c.orders[x].active = a.orders[x].active
           /\ c.orders[x].prev = a.orders[x].prev
           /\ c.orders[x].next = IF x = t THEN o ELSE a.orders[x].next
    <2> TAKE x \in OrderIndex
    <2>1. CASE x = t
      <3>1. t # none /\ a.orders[t] \in OrderType BY <1>1, <2>1, IndexFacts, BookFields
      <3>2. c.orders[t] = [a.orders[t] EXCEPT !.next = o] BY <3>1 DEF Rests
      <3> QED BY <2>1, <3>1, <3>2 DEF OrderType
    <2>2. CASE x # t BY <2>2 DEF Rests
    <2> QED BY <2>1, <2>2
  <1>7. /\ \A k \in LevelIndex : k # l => c.levels[k] = a.levels[k]
        /\ \A k \in LevelIndex : c.levels[k].active = a.levels[k].active
                                 /\ c.levels[k].price = a.levels[k].price
        /\ c.levels[l].head = IF t = none THEN o ELSE a.levels[l].head
        /\ c.levels[l].tail = o
        /\ c.levels[l].order_count = a.levels[l].order_count + 1
        /\ c.levels[l].total_quantity = a.levels[l].total_quantity + q
    BY DEF Rests
  <1>8. c \in BookType
    <2>1. c = [a EXCEPT !.orders = c.orders, !.levels = c.levels, !.free_order = Tail(a.free_order),
                        !.lookup = [a.lookup EXCEPT ![id] = o], !.active_orders = a.active_orders + 1]
      BY DEF Rests
    <2>2. [a.lookup EXCEPT ![id] = o] \in [Ids -> OrderIndex \cup {none}] /\ a.active_orders + 1 \in Int
      BY <1>1, <1>2, BookFields
    <2> QED BY <1>1, <1>2, <1>5, <2>1, <2>2 DEF BookType
  <1>9. /\ Live(c) = Live(a) \cup {o} /\ o \notin Live(a)
        /\ Members(c, l) = Members(a, l) \cup {o} /\ o \notin Members(a, l)
        /\ \A k : k # l => Members(c, k) = Members(a, k)
    <2>1. o \in OrderIndex /\ ~a.orders[o].active /\ c.orders[o].active /\ c.orders[o].level = l
      BY <1>2, <1>5
    <2>2. \A x \in OrderIndex : x # o => c.orders[x].active = a.orders[x].active
                                          /\ c.orders[x].level = a.orders[x].level
      BY <1>6
    <2>3. Live(c) = Live(a) \cup {o} /\ o \notin Live(a) BY ONLY <2>1, <2>2 DEF Live
    <2>4. \A x \in Live(a) : x \in OrderIndex /\ x # o BY ONLY <2>3 DEF Live
    <2> QED BY ONLY <2>1, <2>2, <2>3, <2>4 DEF Members
  <1> HIDE DEF t
  <1>10. PoolsWhole(c)
    <2>1. OrderIndex \ Live(c) = (OrderIndex \ Live(a)) \ {o} BY <1>9
    <2>2. {k \in LevelIndex : ~c.levels[k].active} = {k \in LevelIndex : ~a.levels[k].active}
      BY <1>7
    <2>3. ASSUME NEW x \in OrderIndex \ Live(c) PROVE c.orders[x] = a.orders[x]
      <3>1. x # o /\ x # t BY <1>4, <1>9, IndexFacts
      <3> QED BY <3>1 DEF Rests, t
    <2>4. PoolsWhole(a) BY DEF Nearly
    <2>5. /\ c.free_order = Tail(a.free_order) /\ c.free_level = a.free_level
          /\ OrderIndex \ Live(c) \subseteq OrderIndex \ Live(a)
      BY <1>5, <2>1
    <2> QED BY ONLY <1>2, <2>1, <2>2, <2>3, <2>4, <2>5 DEF PoolsWhole
  <1>11. LookupAgrees(c)
    <2>0. LookupAgrees(a) /\ a.lookup \in [Ids -> OrderIndex \cup {none}] BY <1>1, BookFields DEF Nearly
    <2>1. \A i \in Ids : c.lookup[i] = IF i = id THEN o ELSE a.lookup[i] BY <1>5, <2>0
    <2>2. \A x \in Live(a) : x \in OrderIndex /\ x # o /\ a.orders[x].id # id
      BY <1>9, <2>0, IndexFacts DEF LookupAgrees, Live
    <2>3. \A i \in Ids : c.lookup[i] # none =>
             c.lookup[i] \in Live(c) /\ c.orders[c.lookup[i]].id = i
      BY <1>5, <1>6, <1>9, <2>0, <2>1, <2>2 DEF LookupAgrees
    <2>4. \A x \in Live(c) : c.orders[x].id \in Ids /\ c.lookup[c.orders[x].id] = x
      BY <1>5, <1>6, <1>9, <2>0, <2>1, <2>2 DEF LookupAgrees
    <2> QED BY <2>3, <2>4 DEF LookupAgrees
  <1>12. IndexAgrees(c)
    <2>1. IndexAgrees(a) /\ a.index \in [Sides -> [Prices -> LevelIndex \cup {none}]]
      BY <1>1, BookFields DEF Nearly
    <2>0. /\ c.index = a.index
          /\ \A k \in LevelIndex : c.levels[k].active = a.levels[k].active
                                   /\ c.levels[k].price = a.levels[k].price
      BY <1>5, <1>7
    <2>2. ASSUME NEW s \in Sides, NEW r \in Prices, c.index[s][r] # none
          PROVE  c.levels[c.index[s][r]].active /\ c.levels[c.index[s][r]].price = r
      <3>1. a.index[s][r] \in LevelIndex BY <2>0, <2>1, <2>2
      <3> QED BY <2>0, <2>1, <2>2, <3>1 DEF IndexAgrees
    <2>3. ASSUME NEW k \in LevelIndex, c.levels[k].active
          PROVE  \E s \in Sides, r \in Prices : c.index[s][r] = k
      <3>1. a.levels[k].active BY <2>0, <2>3
      <3> QED BY <2>0, <2>1, <3>1 DEF IndexAgrees
    <2>4. \A x \in Live(c) :
             LET r == c.orders[x] IN r.side \in Sides /\ r.price \in Prices /\ r.level # none
                                     /\ r.level = c.index[r.side][r.price]
      <3> SUFFICES ASSUME NEW x \in Live(c)
                   PROVE  LET r == c.orders[x]
                          IN  r.side \in Sides /\ r.price \in Prices /\ r.level # none
                              /\ r.level = c.index[r.side][r.price]
        OBVIOUS
      <3>1. CASE x = o BY <1>5, <3>1, IndexFacts
      <3>2. CASE x # o
        <4>1. x \in Live(a) /\ x \in OrderIndex BY <1>9, <3>2 DEF Live
        <4>2. LET r == a.orders[x] IN r.side \in Sides /\ r.price \in Prices /\ r.level # none
                                      /\ r.level = a.index[r.side][r.price]
          BY ONLY <2>1, <4>1 DEF IndexAgrees
        <4> QED BY ONLY <1>6, <2>0, <3>2, <4>1, <4>2
      <3> QED BY <3>1, <3>2
    <2>5. \A s, u \in Sides, v, r \in Prices :
             c.index[s][v] # none /\ c.index[s][v] = c.index[u][r] => s = u /\ v = r
      BY <2>0, <2>1 DEF IndexAgrees
    <2> QED BY <2>2, <2>3, <2>4, <2>5 DEF IndexAgrees
  <1>13. ASSUME NEW x \in Live(a)
         PROVE  /\ x \in OrderIndex /\ x # o /\ a.orders[x].level \in LevelIndex
                /\ x \in Members(a, a.orders[x].level)
    BY <1>1, <1>9, BookFields DEF Live, Members, Nearly, IndexAgrees
  <1>14. LinksAgree(c)
    <2>0. LinksAgree(a) BY DEF Nearly
    <2> SUFFICES ASSUME NEW x \in Live(c)
                 PROVE  LET r == c.orders[x] IN
                        /\ IF r.prev = none THEN c.levels[r.level].head = x
                           ELSE r.prev \in Members(c, r.level) /\ c.orders[r.prev].next = x
                        /\ IF r.next = none THEN c.levels[r.level].tail = x
                           ELSE r.next \in Members(c, r.level) /\ c.orders[r.next].prev = x
      BY DEF LinksAgree
    <2>1. CASE x = o
      <3>1. c.orders[x].prev = t /\ c.orders[x].next = none /\ c.orders[x].level = l
        BY <1>5, <2>1
      <3>2. c.levels[l].tail = x BY <1>7, <2>1
      <3>3. IF t = none THEN c.levels[l].head = x
            ELSE t \in Members(c, l) /\ c.orders[t].next = x
        BY <1>4, <1>6, <1>7, <1>9, <2>1
      <3> QED BY <3>1, <3>2, <3>3
    <2>2. CASE x # o
      <3> DEFINE k == a.orders[x].level
                 before == a.orders[x].prev
                 after == a.orders[x].next
      <3>1. /\ x \in Live(a) /\ x \in OrderIndex /\ k \in LevelIndex /\ x \in Members(a, k)
            /\ c.orders[x].level = k /\ c.orders[x].prev = before
            /\ c.orders[x].next = IF x = t THEN o ELSE after
        BY <1>6, <1>9, <1>13, <2>2
      <3>2. /\ IF before = none THEN a.levels[k].head = x
               ELSE before \in Members(a, k) /\ a.orders[before].next = x
            /\ IF after = none THEN a.levels[k].tail = x
               ELSE after \in Members(a, k) /\ a.orders[after].prev = x
        BY <2>0, <3>1 DEF LinksAgree
      <3>3. \A y \in Members(a, k) : y \in OrderIndex /\ y # o /\ y \in Members(c, k)
        BY <1>9 DEF Members, Live
      <3> HIDE DEF k, before, after
      <3>4. IF before = none THEN c.levels[k].head = x
            ELSE before \in Members(c, k) /\ c.orders[before].next = x
        <4>1. CASE before = none
          BY <1>4, <1>7, <3>1, <3>2, <4>1
        <4>2. CASE before # none
          <5>1. before # t BY <1>4, <3>1, <3>2, <4>2, IndexFacts
          <5> QED BY <1>6, <3>2, <3>3, <4>2, <5>1
        <4> QED BY <4>1, <4>2
      <3>5. IF c.orders[x].next = none THEN c.levels[k].tail = x
            ELSE c.orders[x].next \in Members(c, k) /\ c.orders[c.orders[x].next].prev = x
        <4>1. CASE x = t
          <5>1. k = l /\ o # none BY <1>2, <1>4, <3>1, <4>1, IndexFacts DEF k
          <5> QED BY <1>5, <1>9, <3>1, <4>1, <5>1
        <4>2. CASE x # t /\ after = none
          <5>1. k # l BY <3>2, <4>2 DEF t
          <5> QED BY <1>7, <3>1, <3>2, <4>2, <5>1
        <4>3. CASE x # t /\ after # none
          BY <1>6, <3>1, <3>2, <3>3, <4>3
        <4> QED BY <4>1, <4>2, <4>3
      <3> QED BY <3>1, <3>4, <3>5
    <2> QED BY <2>1, <2>2
  <1>15. Ranked(c)
    <2>1. PICK age \in [OrderIndex -> Nat] :
             \A x \in Live(a) : a.orders[x].next # none => age[x] < age[a.orders[x].next]
      BY DEF Nearly, Ranked
    <2> DEFINE later == [age EXCEPT ![o] = IF t = none THEN 0 ELSE age[t] + 1]
    <2>2. later \in [OrderIndex -> Nat]
      <3>1. t # none => age[t] + 1 \in Nat BY <1>4
      <3> QED BY <3>1
    <2>3. ASSUME NEW x \in Live(c), c.orders[x].next # none
          PROVE  later[x] < later[c.orders[x].next]
      <3>1. x \in Live(a) /\ x # o /\ x \in OrderIndex BY <1>5, <1>9, <1>13, <2>3
      <3>2. CASE x = t
        <4>1. c.orders[x].next = o /\ later[o] = age[t] + 1 /\ later[x] = age[t] /\ age[t] \in Nat
          BY <1>2, <1>6, <3>1, <3>2, IndexFacts
        <4> QED BY <4>1
      <3>3. CASE x # t
        <4>1. c.orders[x].next = a.orders[x].next BY <1>6, <3>1, <3>3
        <4>2. a.orders[x].next \in Live(a)
          BY <2>3, <3>1, <4>1 DEF Nearly, LinksAgree, Members
        <4>3. later[x] = age[x] /\ later[a.orders[x].next] = age[a.orders[x].next]
          BY <1>13, <3>1, <4>2
        <4> QED BY <2>1, <2>3, <3>1, <4>1, <4>3
      <3> QED BY <3>2, <3>3
    <2> HIDE DEF later
    <2> QED BY <2>2, <2>3 DEF Ranked
  <1>16. PoolsCounted(c)
    <2>1. {k \in LevelIndex : c.levels[k].active} = {k \in LevelIndex : a.levels[k].active}
      BY <1>7
    <2>2. Cardinality(Live(c)) = Cardinality(Live(a)) + 1
      BY <1>9, SlotsFinite, FS_AddElement
    <2> QED BY <1>5, <2>1, <2>2 DEF Nearly, PoolsCounted
  <1>17. ASSUME NEW k \in LevelIndex, c.levels[k].active
         PROVE  TotalsAt(c, k) /\ QueueAt(c, k) /\ Members(c, k) # {}
    <2>0. TotalsAt(a, k) /\ QueueAt(a, k) /\ (k # l => Members(a, k) # {})
      BY <1>7, <1>17 DEF Nearly
    <2>1. /\ IsFiniteSet(Members(a, k)) /\ IsFiniteSet(Members(c, k))
          /\ Members(a, k) \subseteq OrderIndex /\ Members(c, k) \subseteq OrderIndex
      BY SlotsFinite DEF Members, Live
    <2>2. \A x \in OrderIndex : Quantity(a)[x] \in Int /\ Quantity(c)[x] \in Int
      BY <1>1, <1>5, BookFields DEF Quantity, OrderType
    <2>3. \A x \in Members(a, k) : Quantity(a)[x] = Quantity(c)[x]
      BY <1>6, <1>9, <2>1 DEF Quantity, Members
    <2>4. SumFunctionOnSet(Quantity(a), Members(a, k)) = SumFunctionOnSet(Quantity(c), Members(a, k))
      BY <2>1, <2>2, <2>3, SumAgree
    <2>5. CASE k # l
      <3>1. TotalsAt(c, k) BY <1>7, <1>9, <2>0, <2>4, <2>5 DEF TotalsAt
      <3>2. EndsAt(a, k) BY <2>0, <2>5 DEF QueueAt
      <3>3. t # a.levels[k].tail
        BY <1>4, <2>5, <3>2, IndexFacts DEF EndsAt, Members, Live
      <3>4. EndsAt(c, k)
        <4>1. /\ c.levels[k] = a.levels[k] /\ Members(c, k) = Members(a, k)
              /\ \A x \in Members(a, k) : x \in OrderIndex /\ x # o
          BY <1>7, <1>9, <2>1, <2>5 DEF Members
        <4>2. \A x \in Members(a, k) :
                 c.orders[x].prev = a.orders[x].prev
                 /\ (x # t => c.orders[x].next = a.orders[x].next)
          BY ONLY <1>6, <4>1
        <4> QED BY ONLY <3>2, <3>3, <4>1, <4>2 DEF EndsAt
      <3> QED BY <1>9, <2>0, <2>5, <3>1, <3>4 DEF QueueAt
    <2>6. CASE k = l
      <3>1. Cardinality(Members(c, l)) = Cardinality(Members(a, l)) + 1
        <4>1. IsFiniteSet(Members(a, l)) BY <2>1, <2>6
        <4>2. o \notin Members(a, l) BY <1>9
        <4>3. Cardinality(Members(a, l) \cup {o}) = Cardinality(Members(a, l)) + 1
          BY <4>1, <4>2, FS_AddElement
        <4> QED BY <1>9, <4>3
      <3>2. SumFunctionOnSet(Quantity(c), Members(c, l))
            = q + SumFunctionOnSet(Quantity(c), Members(a, l))
        <4>1. o \in Members(c, l) /\ Members(c, l) \ {o} = Members(a, l) BY <1>9
        <4>2. Quantity(c)[o] = q BY <1>2, <1>5 DEF Quantity
        <4>3. \A x \in Members(c, l) : Quantity(c)[x] \in Int BY <2>1, <2>2, <2>6
        <4> QED BY <2>1, <2>6, <4>1, <4>2, <4>3, SumRemove
      <3>3. SumFunctionOnSet(Quantity(c), Members(a, l)) \in Int
        BY <2>1, <2>2, <2>6, SumType
      <3>4. TotalsAt(c, l)
        BY <1>1, <1>7, <2>0, <2>4, <2>6, <3>1, <3>2, <3>3 DEF TotalsAt
      <3>5. EndsAt(c, l)
        <4>1. c.levels[l].tail \in Members(c, l) /\ c.orders[c.levels[l].tail].next = none
          BY <1>5, <1>7, <1>9
        <4>2. CASE t = none BY <1>5, <1>7, <1>9, <4>1, <4>2 DEF EndsAt
        <4>3. CASE t # none
          <5>1. EndsAt(a, l) BY <1>4, <4>3 DEF QueueAt
          <5>2. /\ c.levels[l].head = a.levels[l].head /\ a.levels[l].head \in Members(a, l)
                /\ a.levels[l].head \in OrderIndex /\ a.levels[l].head # o
            BY <1>7, <1>9, <4>3, <5>1 DEF EndsAt, Members, Live
          <5>3. c.levels[l].head \in Members(c, l) BY <1>9, <5>2
          <5>4. c.orders[c.levels[l].head].prev = none
            <6>1. a.orders[a.levels[l].head].prev = none BY <5>1 DEF EndsAt
            <6> QED BY ONLY <1>6, <5>2, <6>1
          <5> QED BY ONLY <4>1, <5>3, <5>4 DEF EndsAt
        <4> QED BY <4>2, <4>3
      <3> QED BY <1>9, <2>6, <3>4, <3>5 DEF QueueAt
    <2> QED BY <2>5, <2>6
  <1>18. \A x \in Live(c) : c.orders[x].quantity > 0
    <2> TAKE x \in Live(c)
    <2>1. CASE x = o BY <1>1, <1>5, <2>1
    <2>2. CASE x # o
      <3>1. x \in Live(a) /\ x \in OrderIndex /\ x # none BY <1>9, <1>13, <2>2, IndexFacts
      <3> QED BY <1>6, <2>2, <3>1 DEF Nearly
    <2> QED BY <2>1, <2>2
  <1> QED BY <1>8, <1>10, <1>11, <1>12, <1>14, <1>15, <1>16, <1>17, <1>18 DEF BookInv, Nearly
-----------------------------------------------------------------------------
(* lookup_insert() never finds the table full: it is larger than the pool. *)
LEMMA NeverFull ==
    ASSUME NEW b, b \in BookType, LookupAgrees(b)
    PROVE  ~(Cardinality({i \in Ids : b.lookup[i] # none}) >= LookupSize)
  <1> DEFINE K == {i \in Ids : b.lookup[i] # none}
             f == [i \in K |-> b.lookup[i]]
  <1>1. f \in [K -> OrderIndex] BY BookFields
  <1>2. \A i, j \in K : f[i] = f[j] => i = j BY DEF LookupAgrees
  <1>3. f \in Injection(K, OrderIndex) BY <1>1, <1>2 DEF Injection, IsInjective
  <1> HIDE DEF K, f
  <1>4. IsFiniteSet(K) /\ Cardinality(K) <= Cardinality(OrderIndex)
    BY <1>3, IndexFacts, FS_Injection
  <1>5. Cardinality(K) \in Nat BY <1>4, FS_CardinalityType
  <1>6. LookupSize \in Nat /\ LookupSize > MaxOrders BY CapacityAssumption DEF LookupSize
  <1>7. ~(Cardinality(K) >= LookupSize) BY <1>4, <1>5, <1>6, IndexFacts, CapacityAssumption
  <1> QED BY <1>7 DEF K

(* add() with a quantity, a new id, a free slot and a level at hand: the   *)
(* order comes to rest at the end of the queue of its price.               *)
LEMMA AddRests ==
    ASSUME NEW b, BookInv(b), NEW id \in Ids, NEW side \in Sides, NEW q \in Quantities,
           NEW p \in Prices, q # 0, b.lookup[id] = none, b.free_order # <<>>,
           b.index[side][p] # none \/ b.free_level # <<>>
    PROVE  /\ add(b, id, side, q, p).error = "none"
           /\ LET a == level_get_or_add(b, side, p)
              IN  Rests(a, add(b, id, side, q, p).book, Head(b.free_order), a.index[side][p],
                        id, side, q, p)
  <1> DEFINE o  == Head(b.free_order)
             a  == level_get_or_add(b, side, p)
             b1 == level_get_or_add(acquire_order(b), side, p)
             l  == a.index[side][p]
             t  == a.levels[l].tail
             b2 == [b1 EXCEPT !.orders[o] = [@ EXCEPT !.id = id, !.side = side, !.quantity = q,
                                                      !.price = p, !.level = l]]
             b3 == lookup_insert(b2, id, o)
             c  == [append(b3, l, o) EXCEPT !.active_orders = @ + 1]
  <1>1. b \in BookType /\ a \in BookType /\ LookupAgrees(b) /\ Nearly(a, l, none)
    BY LevelReady DEF BookInv, Nearly
  <1>2. /\ l \in LevelIndex /\ l # none /\ a.orders = b.orders /\ a.free_order = b.free_order
        /\ a.lookup = b.lookup /\ a.active_orders = b.active_orders
    BY LevelReady, IndexFacts
  <1>3. o \in OrderIndex /\ o # none /\ Tail(b.free_order) \in Seq(OrderIndex)
    BY <1>1, BookFields, IndexFacts
  <1>4. b1 = [a EXCEPT !.orders = [b.orders EXCEPT ![o] = [BlankOrder EXCEPT !.active = TRUE]],
                       !.free_order = Tail(b.free_order)]
    <2>1. acquire_order(b) = [b EXCEPT !.orders = [b.orders EXCEPT ![o] = [BlankOrder EXCEPT !.active = TRUE]],
                                       !.free_order = Tail(b.free_order)]
      BY <1>1, BookFields DEF acquire_order, BookType
    <2> QED BY <1>1, <2>1 DEF level_get_or_add, level_find, BookType
  <1> DEFINE r == [BlankOrder EXCEPT !.active = TRUE, !.id = id, !.side = side, !.quantity = q,
                                     !.price = p, !.level = l]
  <1>5. /\ r \in OrderType /\ r.id = id /\ r.side = side /\ r.quantity = q /\ r.price = p
        /\ r.level = l /\ r.active
    <2>1. r \in OrderType BY <1>2, BlankFacts, ValueAssumption DEF OrderType
    <2> QED BY <2>1 DEF BlankOrder
  <1> HIDE DEF o, a, l, t
  <1>6. level_find(b1, side, p) = l
    BY <1>1, <1>4 DEF level_find, l, BookType
  <1>7. b2 = [a EXCEPT !.orders = [b.orders EXCEPT ![o] = r], !.free_order = Tail(b.free_order)]
    <2>1. b1.orders = [b.orders EXCEPT ![o] = [BlankOrder EXCEPT !.active = TRUE]]
      BY <1>1, <1>4 DEF BookType
    <2>2. b1.orders[o] = [BlankOrder EXCEPT !.active = TRUE]
      BY <1>1, <1>3, <2>1, BookFields
    <2>3. r = [[BlankOrder EXCEPT !.active = TRUE] EXCEPT !.id = id, !.side = side, !.quantity = q,
                                                          !.price = p, !.level = l]
      OBVIOUS
    <2>4. [b1.orders EXCEPT ![o] = r] = [b.orders EXCEPT ![o] = r]
      BY <1>1, <1>3, <2>1, BookFields
    <2>5. b2 = [b1 EXCEPT !.orders = [b1.orders EXCEPT ![o] = r]]
      BY <2>2, <2>3
    <2> HIDE DEF r, b2
    <2> QED BY <1>1, <1>4, <2>4, <2>5 DEF BookType
  <1> HIDE DEF r, b1, b2
  <1>8. ~lookup_is_full(b2)
    <2>1. b2.lookup = b.lookup BY <1>1, <1>2, <1>7 DEF BookType
    <2>2. ~(Cardinality({i \in Ids : b.lookup[i] # none}) >= LookupSize) BY <1>1, NeverFull
    <2> QED BY <2>1, <2>2 DEF lookup_is_full
  <1>9. add(b, id, side, q, p) = Return(c, "none")
    BY <1>2, <1>6, <1>8 DEF add, lookup_find, o, b1, b2
  <1>10. Rests(a, c, o, l, id, side, q, p)
    <2> DEFINE linked == [b3 EXCEPT !.orders[o] = [@ EXCEPT !.prev = t, !.next = none]]
               m == set_next(linked, t, o)
    <2>1. /\ a.orders \in [OrderIndex -> OrderType] /\ a.levels \in [LevelIndex -> LevelType]
          /\ a.levels[l] \in LevelType /\ t \in OrderIndex \cup {none}
          /\ a.lookup \in [Ids -> OrderIndex \cup {none}] /\ a.active_orders \in Int
      <3>1. /\ a.orders \in [OrderIndex -> OrderType] /\ a.levels \in [LevelIndex -> LevelType]
            /\ a.lookup \in [Ids -> OrderIndex \cup {none}] /\ a.active_orders \in Int
        BY <1>1, BookFields
      <3>2. a.levels[l] \in LevelType BY <1>2, <3>1
      <3>3. t \in OrderIndex \cup {none} BY <3>2 DEF t, LevelType
      <3> QED BY <3>1, <3>2, <3>3
    <2>2. t # none => t # o
      <3>1. Lists(b.free_order, OrderIndex \ Live(b)) /\ Live(a) = Live(b)
        BY <1>2 DEF BookInv, Nearly, PoolsWhole, Live
      <3>2. o \notin Live(a)
        <4>1. b.free_order \in Seq(OrderIndex) BY <1>1, BookFields
        <4>2. o \in OrderIndex \ Live(b) BY <3>1, <4>1, TakeListed DEF o
        <4> QED BY <3>1, <4>2
      <3>3. a.levels[l].active BY <1>1, <1>2 DEF Nearly, IndexAgrees, l
      <3>4. QueueAt(a, l) BY <1>1, <1>2, <3>3 DEF Nearly
      <3> QED BY <3>2, <3>4 DEF QueueAt, EndsAt, Members, t
    <2>3. b3 = [a EXCEPT !.orders = [a.orders EXCEPT ![o] = r], !.free_order = Tail(a.free_order),
                         !.lookup = [a.lookup EXCEPT ![id] = o]]
      BY <1>1, <1>2, <1>7 DEF lookup_insert, BookType
    <2>4. /\ b3.levels = a.levels /\ b3.orders = [a.orders EXCEPT ![o] = r]
          /\ b3.orders[o] = r
      BY <1>1, <1>3, <2>1, <2>3 DEF BookType
    <2> DEFINE r2 == [r EXCEPT !.prev = t, !.next = none]
               orders1 == [a.orders EXCEPT ![o] = r2]
               orders2 == IF t = none THEN orders1
                          ELSE [orders1 EXCEPT ![t] = [a.orders[t] EXCEPT !.next = o]]
               level2 == [a.levels[l] EXCEPT !.head = IF t = none THEN o ELSE @, !.tail = o,
                                             !.total_quantity = @ + q, !.order_count = @ + 1]
               base(x) == [a EXCEPT !.orders = x, !.free_order = Tail(a.free_order),
                                    !.lookup = [a.lookup EXCEPT ![id] = o]]
    <2> HIDE DEF b3
    <2>5. linked = base(orders1)
      <3>1. linked = [b3 EXCEPT !.orders = [b3.orders EXCEPT ![o] = r2]] BY <2>4
      <3>2. [b3.orders EXCEPT ![o] = r2] = orders1 BY <1>3, <2>1, <2>4
      <3> HIDE DEF linked, r2, orders1
      <3> QED BY <1>1, <2>3, <3>1, <3>2 DEF BookType
    <2>6. m = base(orders2)
      <3>1. CASE t = none BY <2>5, <3>1 DEF set_next
      <3>2. CASE t # none
        <4>1. m = [linked EXCEPT !.orders[t].next = o] BY <3>2 DEF set_next
        <4>2. orders1[t] = a.orders[t] /\ t \in OrderIndex BY <2>1, <2>2, <3>2
        <4>3. [orders1 EXCEPT ![t].next = o] = orders2 BY <2>1, <3>2, <4>2
        <4> HIDE DEF orders1, orders2, linked
        <4>4. linked.orders = orders1 BY <1>1, <2>5 DEF BookType
        <4> QED BY <1>1, <2>5, <4>1, <4>3, <4>4 DEF BookType
      <3> QED BY <3>1, <3>2
    <2>7. orders1 \in [OrderIndex -> OrderType] /\ orders2 \in [OrderIndex -> OrderType]
      <3>1. r2 \in OrderType BY <1>5, <2>1 DEF OrderType
      <3>2. orders1 \in [OrderIndex -> OrderType] BY <2>1, <3>1
      <3>3. CASE t # none
        <4>1. [a.orders[t] EXCEPT !.next = o] \in OrderType BY <1>3, <2>1, <3>3 DEF OrderType
        <4> HIDE DEF orders1
        <4> QED BY <3>2, <3>3, <4>1
      <3> QED BY <3>2, <3>3
    <2>8. level2 \in LevelType /\ [a.levels EXCEPT ![l] = level2] \in [LevelIndex -> LevelType]
      <3>1. q \in Int BY ValueAssumption
      <3>2. level2 \in LevelType
        <4>1. /\ (IF t = none THEN o ELSE a.levels[l].head) \in OrderIndex \cup {none}
              /\ a.levels[l].total_quantity + q \in Int /\ a.levels[l].order_count + 1 \in Int
          BY <1>3, <2>1, <3>1 DEF LevelType
        <4> QED BY <1>3, <2>1, <4>1 DEF LevelType
      <3> HIDE DEF level2
      <3> QED BY <2>1, <3>2
    <2>9. c = [a EXCEPT !.orders = orders2, !.levels = [a.levels EXCEPT ![l] = level2],
                        !.free_order = Tail(a.free_order), !.lookup = [a.lookup EXCEPT ![id] = o],
                        !.active_orders = a.active_orders + 1]
      <3>1. /\ b3.orders[o].quantity = q /\ b3.levels[l].tail = t BY <1>5, <2>4 DEF t
      <3>2. append(b3, l, o) = [m EXCEPT !.levels[l] = level2] BY <2>4, <3>1 DEF append
      <3>3. m.levels = a.levels BY <1>1, <2>6 DEF BookType
      <3>4. append(b3, l, o) = [m EXCEPT !.levels = [a.levels EXCEPT ![l] = level2]]
        <4> HIDE DEF m, level2
        <4> QED BY ONLY <3>2, <3>3
      <3> HIDE DEF m, orders2, level2
      <3> QED BY <1>1, <2>6, <3>4 DEF BookType
    <2> HIDE DEF c
    <2>10. /\ c.orders = orders2 /\ c.levels = [a.levels EXCEPT ![l] = level2]
      BY <1>1, <2>9 DEF BookType
    <2>11. c = [a EXCEPT !.orders = c.orders, !.levels = c.levels, !.free_order = Tail(a.free_order),
                         !.lookup = [a.lookup EXCEPT ![id] = o], !.active_orders = a.active_orders + 1]
      BY <2>9, <2>10
    <2>12. /\ r2.id = id /\ r2.price = p /\ r2.quantity = q /\ r2.side = side /\ r2.level = l
           /\ r2.active /\ r2.prev = t /\ r2.next = none
      BY <1>5 DEF OrderType
    <2> HIDE DEF r2
    <2>13. /\ c.orders[o] = r2
           /\ t # none => c.orders[t] = [a.orders[t] EXCEPT !.next = o]
           /\ \A x \in OrderIndex : x # o /\ x # t => c.orders[x] = a.orders[x]
      BY <1>3, <2>1, <2>2, <2>10
    <2>14. /\ c.levels[l] = level2
           /\ \A k \in LevelIndex : k # l => c.levels[k] = a.levels[k]
      BY <1>2, <2>1, <2>10
    <2>15. /\ level2.active = a.levels[l].active /\ level2.price = a.levels[l].price
           /\ level2.head = IF t = none THEN o ELSE a.levels[l].head
           /\ level2.tail = o
           /\ level2.order_count = a.levels[l].order_count + 1
           /\ level2.total_quantity = a.levels[l].total_quantity + q
      BY <2>1 DEF LevelType
    <2> HIDE DEF level2, orders2
    <2> QED BY <2>7, <2>8, <2>10, <2>11, <2>12, <2>13, <2>14, <2>15 DEF Rests, t
  <1> QED BY <1>9, <1>10 DEF Return, a, o, l
-----------------------------------------------------------------------------
(* The neighbours of an order in its queue are other orders of its level,  *)
(* and not the same one.                                                   *)
LEMMA Neighbours ==
    ASSUME NEW b, b \in BookType, LinksAgree(b), Ranked(b), NEW o \in Live(b),
           NEW v, v = b.orders[o].prev, NEW n, n = b.orders[o].next,
           NEW l, l = b.orders[o].level
    PROVE  /\ v # none => v \in Members(b, l) /\ v # o /\ b.orders[v].next = o
           /\ n # none => n \in Members(b, l) /\ n # o /\ b.orders[n].prev = o
           /\ v # none => v # n
  <1>1. /\ v # none => v \in Members(b, l) /\ v \in Live(b) /\ b.orders[v].next = o
        /\ n # none => n \in Members(b, l) /\ n \in Live(b) /\ b.orders[n].prev = o
    BY DEF LinksAgree, Members
  <1>2. PICK age \in [OrderIndex -> Nat] :
           \A x \in Live(b) : b.orders[x].next # none => age[x] < age[b.orders[x].next]
    BY DEF Ranked
  <1>3. Live(b) \subseteq OrderIndex /\ o # none BY IndexFacts DEF Live
  <1>4. /\ v # none => age[v] < age[o] /\ age[v] \in Nat
        /\ n # none => age[o] < age[n] /\ age[n] \in Nat
        /\ age[o] \in Nat
    BY <1>1, <1>2, <1>3
  <1> QED BY <1>1, <1>4

(* Without a cycle, the order that is both first and last is alone.        *)
LEMMA OnlyOne ==
    ASSUME NEW b, b \in BookType, LinksAgree(b), Ranked(b), NEW l, NEW o \in Members(b, l),
           b.orders[o].prev = none, b.orders[o].next = none
    PROVE  Members(b, l) = {o}
  <1>1. SUFFICES ASSUME NEW y \in Members(b, l), y # o PROVE FALSE OBVIOUS
  <1>2. PICK age \in [OrderIndex -> Nat] :
           \A x \in Live(b) : b.orders[x].next # none => age[x] < age[b.orders[x].next]
    BY DEF Ranked
  <1>3. \A x \in Members(b, l) : x \in Live(b) /\ x \in OrderIndex /\ b.orders[x].level = l
    BY DEF Members, Live
  <1> DEFINE Ages == {age[x] : x \in Members(b, l) \ {o}}
  <1>4. Ages \in SUBSET Nat /\ Ages # {} BY <1>1, <1>2, <1>3
  <1>5. PICK g \in Ages : \A h \in Ages : g <= h
    <2> HIDE DEF Ages
    <2> QED BY <1>4, LeastNat
  <1>6. PICK x \in Members(b, l) \ {o} : g = age[x] BY <1>5
  <1> DEFINE y1 == b.orders[x].prev
  <1>7. /\ IF y1 = none THEN b.levels[l].head = x
           ELSE y1 \in Members(b, l) /\ b.orders[y1].next = x
    BY <1>3, <1>6 DEF LinksAgree
  <1>8. b.levels[l].head = o BY <1>3 DEF LinksAgree
  <1>9. y1 \in Members(b, l) /\ b.orders[y1].next = x /\ y1 # o /\ x # none
    BY <1>3, <1>6, <1>7, <1>8, IndexFacts
  <1>10. age[y1] < age[x] /\ age[y1] \in Nat /\ age[x] \in Nat
    BY <1>2, <1>3, <1>6, <1>9
  <1>11. age[y1] \in Ages BY <1>9
  <1>12. g <= age[y1] BY <1>5, <1>11
  <1> QED BY <1>6, <1>10, <1>12

(* From b to d, order o leaves its queue, the lookup and the pool.         *)
Leaves(b, d, o) ==
    LET r == b.orders[o]
        l == b.orders[o].level
    IN
    /\ d = [b EXCEPT !.orders = d.orders, !.levels = d.levels, !.free_order = <<o>> \o b.free_order,
                     !.lookup = [b.lookup EXCEPT ![r.id] = none],
                     !.active_orders = b.active_orders - 1]
    /\ d.orders \in [OrderIndex -> OrderType] /\ d.levels \in [LevelIndex -> LevelType]
    /\ d.orders[o] = BlankOrder
    /\ \A x \in OrderIndex : x # o /\ x # r.prev /\ x # r.next => d.orders[x] = b.orders[x]
    /\ r.prev # none => d.orders[r.prev] = [b.orders[r.prev] EXCEPT !.next = r.next]
    /\ r.next # none => d.orders[r.next] = [b.orders[r.next] EXCEPT !.prev = r.prev]
    /\ \A k \in LevelIndex : k # l => d.levels[k] = b.levels[k]
    /\ d.levels[l].active = b.levels[l].active /\ d.levels[l].price = b.levels[l].price
    /\ d.levels[l].head = IF r.prev = none THEN r.next ELSE b.levels[l].head
    /\ d.levels[l].tail = IF r.next = none THEN r.prev ELSE b.levels[l].tail
    /\ d.levels[l].order_count = b.levels[l].order_count - 1
    /\ d.levels[l].total_quantity = b.levels[l].total_quantity - r.quantity

(* Without the order its level is whole again, or the one that is left empty. *)
LEMMA LeaveKeeps ==
    ASSUME NEW b, NEW d, NEW o, Nearly(b, none, o), o \in Live(b), Leaves(b, d, o),
           NEW l, l = b.orders[o].level
    PROVE  Nearly(d, l, none)
  <1> DEFINE r == b.orders[o]
             v == r.prev
             n == r.next
             i == r.id
  <1>1. b \in BookType /\ LinksAgree(b) /\ Ranked(b) /\ IndexAgrees(b) /\ LookupAgrees(b)
        /\ PoolsWhole(b) /\ PoolsCounted(b)
    BY DEF Nearly
  <1>2. /\ o \in OrderIndex /\ o # none /\ r \in OrderType /\ r.active /\ i \in Ids
        /\ b.lookup[i] = o /\ l \in LevelIndex /\ b.levels[l].active /\ o \in Members(b, l)
        /\ v \in OrderIndex \cup {none} /\ n \in OrderIndex \cup {none}
    <2>1. o \in OrderIndex /\ o # none /\ r.active BY IndexFacts DEF Live
    <2>2. r \in OrderType BY <1>1, <2>1, BookFields
    <2>3. i \in Ids /\ b.lookup[i] = o BY <1>1 DEF LookupAgrees
    <2>4. /\ r.side \in Sides /\ r.price \in Prices /\ l # none /\ l = b.index[r.side][r.price]
      BY <1>1 DEF IndexAgrees
    <2>5. b.levels[l].active BY <1>1, <2>4 DEF IndexAgrees
    <2>6. l \in LevelIndex /\ v \in OrderIndex \cup {none} /\ n \in OrderIndex \cup {none}
      BY <2>2, <2>4 DEF OrderType
    <2>7. o \in Members(b, l) BY DEF Members
    <2> QED BY <2>1, <2>2, <2>3, <2>5, <2>6, <2>7
  <1>3. /\ v # none => v \in Members(b, l) /\ v # o /\ b.orders[v].next = o /\ v # n
        /\ n # none => n \in Members(b, l) /\ n # o /\ b.orders[n].prev = o
    BY <1>1, Neighbours
  <1>4. /\ d.orders \in [OrderIndex -> OrderType] /\ d.levels \in [LevelIndex -> LevelType]
        /\ d.free_order = <<o>> \o b.free_order /\ d.lookup = [b.lookup EXCEPT ![i] = none]
        /\ d.active_orders = b.active_orders - 1 /\ d.active_levels = b.active_levels
        /\ d.index = b.index /\ d.free_level = b.free_level /\ d.orders[o] = BlankOrder
    BY <1>1 DEF Leaves, BookType
  <1>5. ASSUME NEW x \in OrderIndex, x # o
        PROVE  /\ d.orders[x].id = b.orders[x].id /\ d.orders[x].price = b.orders[x].price
               /\ d.orders[x].quantity = b.orders[x].quantity /\ d.orders[x].side = b.orders[x].side
               /\ d.orders[x].level = b.orders[x].level /\ d.orders[x].active = b.orders[x].active
               /\ d.orders[x].prev = IF x = n THEN v ELSE b.orders[x].prev
               /\ d.orders[x].next = IF x = v THEN n ELSE b.orders[x].next
    <2>0. x # none /\ b.orders[x] \in OrderType BY <1>1, IndexFacts, BookFields
    <2>1. CASE x = v
      <3>1. d.orders[x] = [b.orders[x] EXCEPT !.next = n] /\ x # n
        BY <1>3, <2>0, <2>1 DEF Leaves
      <3> QED BY <2>0, <2>1, <3>1 DEF OrderType
    <2>2. CASE x = n
      <3>1. d.orders[x] = [b.orders[x] EXCEPT !.prev = v] /\ x # v
        BY <1>3, <2>0, <2>2 DEF Leaves
      <3> QED BY <2>0, <2>2, <3>1 DEF OrderType
    <2>3. CASE x # v /\ x # n BY <1>5, <2>3 DEF Leaves
    <2> QED BY <2>1, <2>2, <2>3
  <1>6. /\ \A k \in LevelIndex : k # l => d.levels[k] = b.levels[k]
        /\ \A k \in LevelIndex : d.levels[k].active = b.levels[k].active
                                 /\ d.levels[k].price = b.levels[k].price
        /\ d.levels[l].head = IF v = none THEN n ELSE b.levels[l].head
        /\ d.levels[l].tail = IF n = none THEN v ELSE b.levels[l].tail
        /\ d.levels[l].order_count = b.levels[l].order_count - 1
        /\ d.levels[l].total_quantity = b.levels[l].total_quantity - r.quantity
    BY DEF Leaves
  <1>7. d \in BookType
    <2>1. d = [b EXCEPT !.orders = d.orders, !.levels = d.levels, !.free_order = <<o>> \o b.free_order,
                        !.lookup = [b.lookup EXCEPT ![i] = none],
                        !.active_orders = b.active_orders - 1]
      BY DEF Leaves
    <2>2. [b.lookup EXCEPT ![i] = none] \in [Ids -> OrderIndex \cup {none}]
          /\ b.active_orders - 1 \in Int /\ <<o>> \o b.free_order \in Seq(OrderIndex)
      BY <1>1, <1>2, BookFields
    <2> HIDE DEF r, i
    <2> QED BY <1>1, <1>4, <2>1, <2>2 DEF BookType
  <1>8. /\ Live(d) = Live(b) \ {o}
        /\ Members(d, l) = Members(b, l) \ {o}
        /\ \A k : k # l => Members(d, k) = Members(b, k)
    <2>1. ~d.orders[o].active BY <1>4, BlankFacts
    <2> QED BY <1>2, <1>5, <2>1 DEF Live, Members
  <1> HIDE DEF v, n
  <1>9. ASSUME NEW x \in Live(d)
        PROVE  /\ x \in OrderIndex /\ x # o /\ x # none /\ x \in Live(b)
               /\ b.orders[x].level \in LevelIndex
               /\ x \in Members(b, b.orders[x].level)
    <2>1. x \in OrderIndex /\ x # o /\ x # none /\ x \in Live(b) BY <1>8, IndexFacts DEF Live
    <2> QED BY <1>1, <2>1, BookFields DEF Members, IndexAgrees
  <1>10. PoolsWhole(d)
    <2>1. OrderIndex \ Live(d) = (OrderIndex \ Live(b)) \cup {o} BY <1>2, <1>8
    <2>2. {k \in LevelIndex : ~d.levels[k].active} = {k \in LevelIndex : ~b.levels[k].active}
      BY <1>6
    <2>3. \A x \in OrderIndex \ Live(d) : d.orders[x] = BlankOrder
      <3> TAKE x \in OrderIndex \ Live(d)
      <3>1. CASE x = o BY <1>4, <3>1
      <3>2. CASE x # o
        <4>1. x \notin Live(b) BY <1>8, <3>2
        <4>2. x # v /\ x # n BY <1>3, <4>1, IndexFacts DEF Members
        <4>3. d.orders[x] = b.orders[x] BY <3>2, <4>2 DEF Leaves, v, n
        <4> QED BY <1>1, <4>1, <4>3 DEF PoolsWhole
      <3> QED BY <3>1, <3>2
    <2>4. Lists(b.free_order, OrderIndex \ Live(b)) /\ b.free_order \in Seq(OrderIndex)
      BY <1>1, BookFields DEF PoolsWhole
    <2>5. Lists(<<o>> \o b.free_order, (OrderIndex \ Live(b)) \cup {o})
      <3> DEFINE F == OrderIndex \ Live(b)
      <3>1. o \notin F OBVIOUS
      <3> HIDE DEF F
      <3> QED BY <1>2, <2>4, <3>1, PutListed DEF F
    <2> QED BY <1>1, <1>4, <2>1, <2>2, <2>3, <2>5 DEF PoolsWhole
  <1>11. LookupAgrees(d)
    <2>1. \A j \in Ids : d.lookup[j] = IF j = i THEN none ELSE b.lookup[j]
      BY <1>1, <1>2, <1>4, BookFields
    <2>2. \A x \in Live(d) : b.orders[x].id # i BY <1>1, <1>2, <1>9 DEF LookupAgrees
    <2>3. ASSUME NEW j \in Ids, d.lookup[j] # none
          PROVE  d.lookup[j] \in Live(d) /\ d.orders[d.lookup[j]].id = j
      <3>1. j # i /\ d.lookup[j] = b.lookup[j] BY <2>1, <2>3
      <3>2. b.lookup[j] \in Live(b) /\ b.orders[b.lookup[j]].id = j
        BY <1>1, <2>3, <3>1 DEF LookupAgrees
      <3>3. b.lookup[j] # o BY <3>1, <3>2
      <3>4. b.lookup[j] \in OrderIndex BY <3>2 DEF Live
      <3> QED BY <1>5, <1>8, <3>1, <3>2, <3>3, <3>4
    <2>4. \A x \in Live(d) : d.orders[x].id \in Ids /\ d.lookup[d.orders[x].id] = x
      BY <1>1, <1>5, <1>9, <2>1, <2>2 DEF LookupAgrees
    <2> QED BY <2>3, <2>4 DEF LookupAgrees
  <1>12. IndexAgrees(d)
    <2>0. /\ d.index = b.index /\ b.index \in [Sides -> [Prices -> LevelIndex \cup {none}]]
          /\ \A k \in LevelIndex : d.levels[k].active = b.levels[k].active
                                   /\ d.levels[k].price = b.levels[k].price
      BY <1>1, <1>4, <1>6, BookFields
    <2>2. ASSUME NEW s \in Sides, NEW w \in Prices, d.index[s][w] # none
          PROVE  d.levels[d.index[s][w]].active /\ d.levels[d.index[s][w]].price = w
      <3>1. b.index[s][w] \in LevelIndex BY <2>0, <2>2
      <3> QED BY <1>1, <2>0, <2>2, <3>1 DEF IndexAgrees
    <2>3. ASSUME NEW k \in LevelIndex, d.levels[k].active
          PROVE  \E s \in Sides, w \in Prices : d.index[s][w] = k
      <3>1. b.levels[k].active BY <2>0, <2>3
      <3> QED BY <1>1, <2>0, <3>1 DEF IndexAgrees
    <2>4. \A x \in Live(d) :
             LET e == d.orders[x] IN e.side \in Sides /\ e.price \in Prices /\ e.level # none
                                     /\ e.level = d.index[e.side][e.price]
      BY <1>1, <1>5, <1>9, <2>0 DEF IndexAgrees
    <2>5. \A s, u \in Sides, w, e \in Prices :
             d.index[s][w] # none /\ d.index[s][w] = d.index[u][e] => s = u /\ w = e
      BY <1>1, <2>0 DEF IndexAgrees
    <2> QED BY <2>2, <2>3, <2>4, <2>5 DEF IndexAgrees
  <1>13. LinksAgree(d)
    <2> SUFFICES ASSUME NEW x \in Live(d)
                 PROVE  LET e == d.orders[x] IN
                        /\ IF e.prev = none THEN d.levels[e.level].head = x
                           ELSE e.prev \in Members(d, e.level) /\ d.orders[e.prev].next = x
                        /\ IF e.next = none THEN d.levels[e.level].tail = x
                           ELSE e.next \in Members(d, e.level) /\ d.orders[e.next].prev = x
      BY DEF LinksAgree
    <2> DEFINE k == b.orders[x].level
               y == b.orders[x].prev
               z == b.orders[x].next
    <2>1. x \in OrderIndex /\ x # o /\ x \in Live(b) /\ k \in LevelIndex /\ x # none BY <1>9
    <2>2. /\ d.orders[x].level = k
          /\ d.orders[x].prev = IF x = n THEN v ELSE y
          /\ d.orders[x].next = IF x = v THEN n ELSE z
      BY <1>5, <2>1
    <2>3. /\ IF y = none THEN b.levels[k].head = x
             ELSE y \in Members(b, k) /\ b.orders[y].next = x
          /\ IF z = none THEN b.levels[k].tail = x
             ELSE z \in Members(b, k) /\ b.orders[z].prev = x
      BY <1>1, <2>1 DEF LinksAgree
    <2>4. /\ v = none => b.levels[l].head = o
          /\ n = none => b.levels[l].tail = o
      BY <1>1, <1>2 DEF LinksAgree, v, n
    <2>5. /\ x = n => y = o /\ k = l
          /\ x = v => z = o /\ k = l
          /\ y = o => x = n
          /\ z = o => x = v
      <3>1. x = n => y = o /\ k = l BY <1>3, <2>1 DEF Members
      <3>2. x = v => z = o /\ k = l BY <1>3, <2>1 DEF Members
      <3>3. y = o => x = n BY <1>2, <2>3 DEF n
      <3>4. z = o => x = v BY <1>2, <2>3 DEF v
      <3> QED BY <3>1, <3>2, <3>3, <3>4
    <2>6. \A m : \A w \in Members(b, m) : w \in OrderIndex /\ w # none
      BY IndexFacts DEF Members, Live
    <2> HIDE DEF k, y, z
    <2>7. IF d.orders[x].prev = none THEN d.levels[k].head = x
          ELSE d.orders[x].prev \in Members(d, k) /\ d.orders[d.orders[x].prev].next = x
      <3>1. CASE x = n
        <4>1. d.orders[x].prev = v /\ k = l BY <2>2, <2>5, <3>1
        <4>2. CASE v = none BY <1>6, <3>1, <4>1, <4>2
        <4>3. CASE v # none BY <1>3, <1>5, <1>8, <2>6, <3>1, <4>1, <4>3
        <4> QED BY <4>2, <4>3
      <3>2. CASE x # n
        <4>1. d.orders[x].prev = y /\ y # o BY <2>2, <2>5, <3>2
        <4>2. CASE y = none
          <5>1. b.levels[k].head = x BY <2>3, <4>2
          <5>2. CASE k = l BY <1>6, <2>1, <2>4, <4>1, <4>2, <5>1, <5>2
          <5>3. CASE k # l BY <1>6, <2>1, <4>1, <4>2, <5>1, <5>3
          <5> QED BY <5>2, <5>3
        <4>3. CASE y # none
          <5>1. y \in Members(b, k) /\ b.orders[y].next = x /\ y \in OrderIndex BY <2>3, <2>6, <4>3
          <5>2. y # v BY <1>3, <2>1, <4>3, <5>1
          <5>3. d.orders[y].next = x BY <1>5, <4>1, <5>1, <5>2
          <5>4. y \in Members(d, k) BY <1>8, <4>1, <5>1
          <5> QED BY <4>1, <4>3, <5>3, <5>4
        <4> QED BY <4>2, <4>3
      <3> QED BY <3>1, <3>2
    <2>8. IF d.orders[x].next = none THEN d.levels[k].tail = x
          ELSE d.orders[x].next \in Members(d, k) /\ d.orders[d.orders[x].next].prev = x
      <3>1. CASE x = v
        <4>1. d.orders[x].next = n /\ k = l BY <2>2, <2>5, <3>1
        <4>2. CASE n = none BY <1>6, <3>1, <4>1, <4>2
        <4>3. CASE n # none BY <1>3, <1>5, <1>8, <2>6, <3>1, <4>1, <4>3
        <4> QED BY <4>2, <4>3
      <3>2. CASE x # v
        <4>1. d.orders[x].next = z /\ z # o BY <2>2, <2>5, <3>2
        <4>2. CASE z = none
          <5>1. b.levels[k].tail = x BY <2>3, <4>2
          <5>2. CASE k = l BY <1>6, <2>1, <2>4, <4>1, <4>2, <5>1, <5>2
          <5>3. CASE k # l BY <1>6, <2>1, <4>1, <4>2, <5>1, <5>3
          <5> QED BY <5>2, <5>3
        <4>3. CASE z # none
          <5>1. z \in Members(b, k) /\ b.orders[z].prev = x /\ z \in OrderIndex BY <2>3, <2>6, <4>3
          <5>2. z # n BY <1>3, <2>1, <4>3, <5>1
          <5>3. d.orders[z].prev = x BY <1>5, <4>1, <5>1, <5>2
          <5>4. z \in Members(d, k) BY <1>8, <4>1, <5>1
          <5> QED BY <4>1, <4>3, <5>3, <5>4
        <4> QED BY <4>2, <4>3
      <3> QED BY <3>1, <3>2
    <2> QED BY <2>2, <2>7, <2>8
  <1>14. Ranked(d)
    <2>1. PICK age \in [OrderIndex -> Nat] :
             \A x \in Live(b) : b.orders[x].next # none => age[x] < age[b.orders[x].next]
      BY <1>1 DEF Ranked
    <2>2. ASSUME NEW x \in Live(d), d.orders[x].next # none
          PROVE  age[x] < age[d.orders[x].next]
      <3>0. x \in OrderIndex /\ x # o /\ x # none /\ x \in Live(b) BY <1>9
      <3>1. CASE x = v
        <4>1. d.orders[x].next = n /\ n # none BY <1>5, <2>2, <3>0, <3>1
        <4>2. age[v] < age[o] /\ age[o] < age[n]
          BY <1>2, <1>3, <2>1, <3>0, <3>1, <4>1 DEF n
        <4>3. age[v] \in Nat /\ age[o] \in Nat /\ age[n] \in Nat
          BY <1>2, <2>1, <3>0, <3>1, <4>1
        <4> QED BY <3>1, <4>1, <4>2, <4>3
      <3>2. CASE x # v
        <4>1. d.orders[x].next = b.orders[x].next BY <1>5, <3>0, <3>2
        <4> QED BY <2>1, <2>2, <3>0, <4>1
      <3> QED BY <3>1, <3>2
    <2> QED BY <2>1, <2>2 DEF Ranked
  <1>15. PoolsCounted(d)
    <2>1. {k \in LevelIndex : d.levels[k].active} = {k \in LevelIndex : b.levels[k].active}
      BY <1>6
    <2>2. Cardinality(Live(d)) = Cardinality(Live(b)) - 1
      BY <1>8, SlotsFinite, FS_RemoveElement
    <2> QED BY <1>1, <1>4, <2>1, <2>2 DEF PoolsCounted
  <1>16. ASSUME NEW k \in LevelIndex, d.levels[k].active
         PROVE  TotalsAt(d, k) /\ QueueAt(d, k) /\ (k # l => Members(d, k) # {})
    <2>0. TotalsAt(b, k) /\ QueueAt(b, k) /\ Members(b, k) # {} /\ EndsAt(b, k)
      BY <1>6, <1>16, IndexFacts DEF Nearly, QueueAt
    <2>1. /\ IsFiniteSet(Members(b, k)) /\ IsFiniteSet(Members(d, k))
          /\ Members(b, k) \subseteq OrderIndex /\ Members(d, k) \subseteq OrderIndex
          /\ \A x \in Members(d, k) : x # o
      <3>1. /\ Members(b, k) \subseteq OrderIndex /\ Members(d, k) \subseteq OrderIndex
            /\ Members(d, k) \subseteq Live(d)
        BY DEF Members, Live
      <3> QED BY <1>9, <3>1, SlotsFinite
    <2>2. \A x \in OrderIndex : Quantity(b)[x] \in Int /\ Quantity(d)[x] \in Int
      BY <1>1, <1>4, BookFields DEF Quantity, OrderType
    <2>3. \A x \in Members(d, k) : Quantity(b)[x] = Quantity(d)[x]
      BY <1>5, <2>1 DEF Quantity
    <2>4. SumFunctionOnSet(Quantity(b), Members(d, k)) = SumFunctionOnSet(Quantity(d), Members(d, k))
      BY <2>1, <2>2, <2>3, SumAgree
    <2>5. CASE k # l
      <3>0. Members(d, k) = Members(b, k) /\ d.levels[k] = b.levels[k] BY <1>6, <1>8, <2>5
      <3>1. TotalsAt(d, k) BY <2>0, <2>4, <3>0 DEF TotalsAt
      <3>2. \A x \in Members(b, k) : x # v /\ x # n
        BY <1>3, <2>1, <2>5, IndexFacts DEF Members
      <3>3. EndsAt(d, k)
        BY <1>5, <2>0, <2>1, <3>0, <3>2 DEF EndsAt
      <3> QED BY <2>0, <3>0, <3>1, <3>3 DEF QueueAt
    <2>6. CASE k = l
      <3>1. Cardinality(Members(d, l)) = Cardinality(Members(b, l)) - 1
        <4>1. IsFiniteSet(Members(b, l)) BY <2>1, <2>6
        <4>2. Cardinality(Members(b, l) \ {o}) = Cardinality(Members(b, l)) - 1
          BY <1>2, <4>1, FS_RemoveElement
        <4> QED BY <1>8, <4>2
      <3>2. SumFunctionOnSet(Quantity(b), Members(b, l))
            = r.quantity + SumFunctionOnSet(Quantity(b), Members(d, l))
        <4>1. Quantity(b)[o] = r.quantity BY <1>2 DEF Quantity
        <4>2. \A x \in Members(b, l) : Quantity(b)[x] \in Int BY <2>1, <2>2, <2>6
        <4> QED BY <1>2, <1>8, <2>1, <2>6, <4>1, <4>2, SumRemove
      <3>3. SumFunctionOnSet(Quantity(b), Members(d, l)) \in Int /\ r.quantity \in Int
        BY <1>2, <2>1, <2>2, <2>6, SumType DEF OrderType
      <3>4. TotalsAt(d, l)
        BY <1>6, <2>0, <2>4, <2>6, <3>1, <3>2, <3>3 DEF TotalsAt
      <3>5. CASE Members(d, l) = {}
        <4>1. v = none /\ n = none BY <1>3, <1>8, <3>5
        <4>2. d.levels[l].head = none /\ d.levels[l].tail = none BY <1>6, <4>1
        <4> QED BY <2>6, <3>4, <3>5, <4>2 DEF QueueAt
      <3>6. CASE Members(d, l) # {}
        <4>1. ~(v = none /\ n = none)
          <5>1. v = none /\ n = none => Members(b, l) = {o}
            BY <1>1, <1>2, OnlyOne DEF v, n
          <5> QED BY <1>8, <3>6, <5>1
        <4> DEFINE h == b.levels[l].head
                   t == b.levels[l].tail
        <4>2. /\ h \in Members(b, l) /\ b.orders[h].prev = none
              /\ t \in Members(b, l) /\ b.orders[t].next = none
              /\ h \in OrderIndex /\ t \in OrderIndex
          BY <2>0, <2>1, <2>6 DEF EndsAt
        <4>3. d.levels[l].head \in Members(d, l) /\ d.orders[d.levels[l].head].prev = none
          <5>1. CASE v = none
            <6>1. d.levels[l].head = n /\ n # none BY <1>6, <4>1, <5>1
            <6>2. n \in Members(d, l) /\ n \in OrderIndex /\ n # o BY <1>2, <1>3, <1>8, <6>1
            <6> QED BY <1>5, <5>1, <6>1, <6>2
          <5>2. CASE v # none
            <6>1. d.levels[l].head = h BY <1>6, <5>2
            <6>2. h # o BY <4>2, <5>2 DEF v
            <6>3. h # n BY <1>2, <1>3, <4>2, IndexFacts
            <6>4. h \in Members(d, l) BY <1>8, <4>2, <6>2
            <6>5. d.orders[h].prev = none BY <1>5, <4>2, <6>2, <6>3
            <6> QED BY <6>1, <6>4, <6>5
          <5> QED BY <5>1, <5>2
        <4>4. d.levels[l].tail \in Members(d, l) /\ d.orders[d.levels[l].tail].next = none
          <5>1. CASE n = none
            <6>1. d.levels[l].tail = v /\ v # none BY <1>6, <4>1, <5>1
            <6>2. v \in Members(d, l) /\ v \in OrderIndex /\ v # o BY <1>2, <1>3, <1>8, <6>1
            <6> QED BY <1>5, <5>1, <6>1, <6>2
          <5>2. CASE n # none
            <6>1. d.levels[l].tail = t BY <1>6, <5>2
            <6>2. t # o BY <4>2, <5>2 DEF n
            <6>3. t # v BY <1>2, <1>3, <4>2, IndexFacts
            <6> QED BY <1>5, <1>8, <4>2, <6>1, <6>2, <6>3
          <5> QED BY <5>1, <5>2
        <4> QED BY <2>6, <3>4, <3>6, <4>3, <4>4 DEF QueueAt, EndsAt
      <3> QED BY <3>5, <3>6
    <2> QED BY <2>5, <2>6
  <1>17. \A x \in Live(d) : x # none => d.orders[x].quantity > 0
    BY <1>5, <1>9 DEF Nearly
  <1> QED BY <1>7, <1>10, <1>11, <1>12, <1>13, <1>14, <1>15, <1>16, <1>17 DEF Nearly
-----------------------------------------------------------------------------
(* remove_if_empty() takes the level out of the index and the pool when    *)
(* its last order has left, and a price that had a level, or the pool a    *)
(* free one, can still be given one.                                       *)
LEMMA LevelGone ==
    ASSUME NEW d, NEW side \in Sides, NEW p \in Prices, NEW l \in LevelIndex,
           l = d.index[side][p], Nearly(d, l, none), NEW c, c = remove_if_empty(d, side, l)
    PROVE  /\ BookInv(c)
           /\ c.orders = d.orders /\ c.free_order = d.free_order /\ c.lookup = d.lookup
           /\ \A s \in Sides, w \in Prices :
                 d.index[s][w] # none \/ d.free_level # <<>> =>
                 c.index[s][w] # none \/ c.free_level # <<>>
  <1>1. d \in BookType /\ PoolsWhole(d) /\ LookupAgrees(d) /\ IndexAgrees(d) /\ LinksAgree(d)
        /\ Ranked(d) /\ PoolsCounted(d)
    BY DEF Nearly
  <1>2. d.levels[l].active /\ d.levels[l].price = p /\ l # none
    BY <1>1, IndexFacts DEF IndexAgrees
  <1>3. TotalsAt(d, l) BY <1>2 DEF Nearly
  <1>4. CASE d.levels[l].order_count # 0
    <2>1. c = d BY <1>4 DEF remove_if_empty
    <2>2. Members(d, l) # {} BY <1>3, <1>4, FS_EmptySet DEF TotalsAt
    <2>3. Nearly(d, none, none) BY <2>2 DEF Nearly
    <2> QED BY <2>1, <2>3 DEF BookInv
  <1>5. CASE d.levels[l].order_count = 0
    <2>1. Members(d, l) = {} BY <1>3, <1>5, SlotsFinite, FS_EmptySet DEF TotalsAt
    <2>2. c = [d EXCEPT !.index[side][p] = none, !.levels[l] = BlankLevel,
                        !.free_level = <<l>> \o @, !.active_levels = @ - 1]
      BY <1>2, <1>5 DEF remove_if_empty, level_remove
    <2>3. /\ c.orders = d.orders /\ c.free_order = d.free_order /\ c.lookup = d.lookup
          /\ c.active_orders = d.active_orders /\ c.active_levels = d.active_levels - 1
          /\ c.free_level = <<l>> \o d.free_level
          /\ c.levels = [d.levels EXCEPT ![l] = BlankLevel]
          /\ c.index = [d.index EXCEPT ![side][p] = none]
      BY <1>1, <2>2 DEF BookType
    <2>4. /\ \A k \in LevelIndex : k # l => c.levels[k] = d.levels[k]
          /\ c.levels[l] = BlankLevel /\ ~c.levels[l].active
          /\ \A s \in Sides, w \in Prices :
                c.index[s][w] = IF s = side /\ w = p THEN none ELSE d.index[s][w]
      <3>1. /\ d.levels \in [LevelIndex -> LevelType]
            /\ d.index \in [Sides -> [Prices -> LevelIndex \cup {none}]]
        BY <1>1, BookFields
      <3>2. c.levels = [d.levels EXCEPT ![l] = BlankLevel] /\ ~BlankLevel.active
        BY <2>3, BlankFacts
      <3>3. c.levels[l] = BlankLevel /\ ~c.levels[l].active BY <3>1, <3>2
      <3>4. \A k \in LevelIndex : k # l => c.levels[k] = d.levels[k] BY ONLY <3>1, <3>2
      <3>5. c.index = [d.index EXCEPT ![side][p] = none] BY <2>3
      <3>6. ASSUME NEW s \in Sides, NEW w \in Prices
            PROVE  c.index[s][w] = IF s = side /\ w = p THEN none ELSE d.index[s][w]
        BY ONLY <3>1, <3>5, <3>6, side \in Sides, p \in Prices, s \in Sides, w \in Prices
      <3> QED BY <3>3, <3>4, <3>6
    <2>5. <<l>> \o d.free_level \in Seq(LevelIndex) /\ <<l>> \o d.free_level # <<>>
      BY <1>1, BookFields
    <2>6. c \in BookType
      <3>1. c.levels \in [LevelIndex -> LevelType] BY <1>1, <2>3, BookFields, BlankFacts
      <3>2. c.index \in [Sides -> [Prices -> LevelIndex \cup {none}]] BY <1>1, <2>3, BookFields
      <3>3. c.active_levels \in Int BY <1>1, <2>3, BookFields
      <3>4. c = [d EXCEPT !.levels = c.levels, !.free_level = c.free_level, !.index = c.index,
                          !.active_levels = c.active_levels]
        BY <2>2, <2>3
      <3> QED BY <1>1, <2>3, <2>5, <3>1, <3>2, <3>3, <3>4 DEF BookType
    <2>7. Live(c) = Live(d) /\ \A k : Members(c, k) = Members(d, k)
      BY <2>3 DEF Live, Members
    <2>8. \A x \in Live(d) : d.orders[x].level # l /\ d.orders[x].level \in LevelIndex
      BY <1>1, <2>1, BookFields DEF IndexAgrees, Members
    <2>9. PoolsWhole(c)
      <3> DEFINE F == {k \in LevelIndex : ~d.levels[k].active}
      <3>1. {k \in LevelIndex : ~c.levels[k].active} = F \cup {l} BY <2>4
      <3>2. Lists(d.free_level, F) /\ d.free_level \in Seq(LevelIndex) /\ l \notin F
        BY <1>1, <1>2, BookFields DEF PoolsWhole
      <3> HIDE DEF F
      <3>3. Lists(<<l>> \o d.free_level, F \cup {l}) BY <3>2, PutListed
      <3> QED BY <1>1, <2>3, <2>7, <3>1, <3>3 DEF PoolsWhole
    <2>10. LookupAgrees(c)
      <3>1. LookupAgrees(d) /\ c.orders = d.orders /\ c.lookup = d.lookup /\ Live(c) = Live(d)
        BY <1>1, <2>3, <2>7
      <3> QED BY ONLY <3>1 DEF LookupAgrees
    <2>11. \A s \in Sides, w \in Prices : d.index[s][w] = l => s = side /\ w = p
      <3> TAKE s \in Sides, w \in Prices
      <3> QED BY ONLY <1>1, <1>2, s \in Sides, w \in Prices, side \in Sides, p \in Prices,
                      l = d.index[side][p] DEF IndexAgrees
    <2>12. IndexAgrees(c)
      <3>1. ASSUME NEW s \in Sides, NEW w \in Prices, c.index[s][w] # none
            PROVE  c.levels[c.index[s][w]].active /\ c.levels[c.index[s][w]].price = w
        <4>1. c.index[s][w] = d.index[s][w] /\ ~(s = side /\ w = p) BY <2>4, <3>1
        <4>2. d.index[s][w] # l /\ d.index[s][w] \in LevelIndex
          BY <1>1, <2>11, <3>1, <4>1, BookFields
        <4>3. d.levels[d.index[s][w]].active /\ d.levels[d.index[s][w]].price = w
          BY ONLY <1>1, <3>1, <4>1, s \in Sides, w \in Prices DEF IndexAgrees
        <4>4. c.levels[d.index[s][w]] = d.levels[d.index[s][w]] BY ONLY <2>4, <4>2
        <4> QED BY ONLY <4>1, <4>3, <4>4
      <3>2. \A s, t \in Sides, u, w \in Prices :
               c.index[s][u] # none /\ c.index[s][u] = c.index[t][w] => s = t /\ u = w
        <4> TAKE s, t \in Sides, u, w \in Prices
        <4>1. c.index[s][u] # none /\ c.index[s][u] = c.index[t][w]
              => c.index[s][u] = d.index[s][u] /\ c.index[t][w] = d.index[t][w]
          BY <2>4
        <4>2. d.index[s][u] # none /\ d.index[s][u] = d.index[t][w] => s = t /\ u = w
          BY ONLY <1>1, s \in Sides, t \in Sides, u \in Prices, w \in Prices DEF IndexAgrees
        <4> QED BY <4>1, <4>2
      <3>3. ASSUME NEW k \in LevelIndex, c.levels[k].active
            PROVE  \E s \in Sides, w \in Prices : c.index[s][w] = k
        <4>1. k # l /\ d.levels[k].active BY <2>4, <3>3
        <4>2. PICK s \in Sides, w \in Prices : d.index[s][w] = k BY <1>1, <4>1 DEF IndexAgrees
        <4>3. c.index[s][w] = k BY <2>4, <4>1, <4>2
        <4> QED BY <4>3
      <3>4. \A x \in Live(c) :
               LET e == c.orders[x] IN e.side \in Sides /\ e.price \in Prices /\ e.level # none
                                       /\ e.level = c.index[e.side][e.price]
        <4>0. c.orders = d.orders /\ Live(c) = Live(d) BY <2>3, <2>7
        <4> SUFFICES ASSUME NEW x \in Live(d)
                     PROVE  LET e == d.orders[x]
                            IN  e.side \in Sides /\ e.price \in Prices /\ e.level # none
                                /\ e.level = c.index[e.side][e.price]
          BY <4>0, Zenon
        <4> DEFINE e == d.orders[x]
        <4>1. /\ e.side \in Sides /\ e.price \in Prices /\ e.level # none
              /\ e.level = d.index[e.side][e.price]
          BY ONLY <1>1, x \in Live(d) DEF IndexAgrees
        <4>2. e.level # l BY <2>8
        <4>3. ~(e.side = side /\ e.price = p)
          BY ONLY <4>1, <4>2, l = d.index[side][p]
        <4>4. c.index[e.side][e.price] = d.index[e.side][e.price] BY ONLY <2>4, <4>1, <4>3
        <4> QED BY ONLY <4>1, <4>4
      <3> QED BY <3>1, <3>2, <3>3, <3>4 DEF IndexAgrees
    <2>13. LinksAgree(c)
      <3>1. LinksAgree(d) BY <1>1
      <3>2. /\ Live(c) = Live(d) /\ \A k : Members(c, k) = Members(d, k)
            /\ c.orders = d.orders
            /\ \A x \in Live(d) : c.levels[d.orders[x].level] = d.levels[d.orders[x].level]
        BY <2>3, <2>4, <2>7, <2>8
      <3> QED BY ONLY <3>1, <3>2 DEF LinksAgree
    <2>14. Ranked(c)
      <3>1. Ranked(d) /\ c.orders = d.orders /\ Live(c) = Live(d) BY <1>1, <2>3, <2>7
      <3> QED BY ONLY <3>1 DEF Ranked
    <2>15. PoolsCounted(c)
      <3> DEFINE A == {k \in LevelIndex : d.levels[k].active}
      <3>1. {k \in LevelIndex : c.levels[k].active} = A \ {l} BY <2>4
      <3>2. l \in A /\ IsFiniteSet(A) BY <1>2, SlotsFinite
      <3>3. d.active_levels = Cardinality(A) /\ d.active_orders = Cardinality(Live(d))
        BY <1>1 DEF PoolsCounted
      <3> HIDE DEF A
      <3>4. Cardinality(A \ {l}) = Cardinality(A) - 1 BY <3>2, FS_RemoveElement
      <3> QED BY <2>3, <2>7, <3>1, <3>3, <3>4 DEF PoolsCounted
    <2>16. ASSUME NEW k \in LevelIndex, c.levels[k].active
           PROVE  TotalsAt(c, k) /\ QueueAt(c, k) /\ Members(c, k) # {}
      <3>1. Quantity(c) = Quantity(d) BY <2>3 DEF Quantity
      <3>2. k # l /\ c.levels[k] = d.levels[k] BY <2>4, <2>16
      <3>3. TotalsAt(d, k) /\ QueueAt(d, k) /\ Members(d, k) # {} BY <2>16, <3>2 DEF Nearly
      <3> QED BY <2>3, <2>7, <3>1, <3>2, <3>3 DEF TotalsAt, QueueAt, EndsAt
    <2>17. \A x \in Live(c) : x # none => c.orders[x].quantity > 0
      BY <2>3, <2>7 DEF Nearly
    <2>18. BookInv(c)
      BY <2>6, <2>9, <2>10, <2>12, <2>13, <2>14, <2>15, <2>16, <2>17 DEF BookInv, Nearly
    <2> QED BY <2>3, <2>5, <2>18
  <1> QED BY <1>4, <1>5

(* drop() makes the order leave, and its level go with the last one.       *)
LEMMA DropLeaves ==
    ASSUME NEW b, NEW o, Nearly(b, none, o), o \in Live(b)
    PROVE  \E d : Leaves(b, d, o)
                  /\ drop(b, o) = remove_if_empty(d, b.orders[o].side, b.orders[o].level)
  <1> DEFINE r == b.orders[o]
             v == r.prev
             n == r.next
             l == r.level
             m == set_prev(set_next(b, v, n), n, v)
             u == unlink(b, l, o)
             d == [release_order(lookup_erase(u, r.id), o) EXCEPT !.active_orders = @ - 1]
  <1>1. b \in BookType /\ LinksAgree(b) /\ Ranked(b) /\ LookupAgrees(b) /\ IndexAgrees(b)
    BY DEF Nearly
  <1>2. /\ o \in OrderIndex /\ o # none /\ r \in OrderType /\ r.id \in Ids /\ r.quantity \in Int
        /\ l \in LevelIndex /\ v \in OrderIndex \cup {none} /\ n \in OrderIndex \cup {none}
    <2>1. o \in OrderIndex /\ o # none BY IndexFacts DEF Live
    <2>2. r \in OrderType BY <1>1, <2>1, BookFields
    <2>3. r.id \in Ids /\ l # none BY <1>1 DEF LookupAgrees, IndexAgrees
    <2> QED BY <2>1, <2>2, <2>3 DEF OrderType
  <1>3. /\ v # none => v # o /\ v # n
        /\ n # none => n # o
    BY <1>1, Neighbours
  <1>4. b.orders \in [OrderIndex -> OrderType] /\ b.levels \in [LevelIndex -> LevelType]
        /\ b.levels[l] \in LevelType
    BY <1>1, <1>2, BookFields
  <1>5. drop(b, o) = remove_if_empty(d, r.side, l) BY DEF drop
  <1> DEFINE orders1 == IF v = none THEN b.orders
                        ELSE [b.orders EXCEPT ![v] = [b.orders[v] EXCEPT !.next = n]]
             orders2 == IF n = none THEN orders1
                        ELSE [orders1 EXCEPT ![n] = [b.orders[n] EXCEPT !.prev = v]]
             orders3 == [orders2 EXCEPT ![o] = BlankOrder]
             level2 == [b.levels[l] EXCEPT !.head = IF v = none THEN n ELSE @,
                                           !.tail = IF n = none THEN v ELSE @,
                                           !.total_quantity = @ - r.quantity,
                                           !.order_count = @ - 1]
  <1>6. /\ orders1 \in [OrderIndex -> OrderType] /\ orders2 \in [OrderIndex -> OrderType]
        /\ orders3 \in [OrderIndex -> OrderType]
        /\ n # none => orders1[n] = b.orders[n]
    <2>1. v # none => [b.orders[v] EXCEPT !.next = n] \in OrderType BY <1>2, <1>4 DEF OrderType
    <2>2. n # none => [b.orders[n] EXCEPT !.prev = v] \in OrderType BY <1>2, <1>4 DEF OrderType
    <2>3. orders1 \in [OrderIndex -> OrderType] BY <1>4, <2>1
    <2>4. orders2 \in [OrderIndex -> OrderType]
      <3> HIDE DEF orders1
      <3> QED BY <2>2, <2>3
    <2>5. orders3 \in [OrderIndex -> OrderType]
      <3> HIDE DEF orders2
      <3> QED BY <2>4, BlankFacts
    <2>6. n # none => orders1[n] = b.orders[n] BY <1>2, <1>3, <1>4
    <2> QED BY <2>3, <2>4, <2>5, <2>6
  <1>7. m = [b EXCEPT !.orders = orders2]
    <2>1. set_next(b, v, n) = [b EXCEPT !.orders = orders1]
      <3>1. CASE v = none BY <1>1, <3>1 DEF set_next, BookType
      <3>2. CASE v # none
        <4>1. set_next(b, v, n) = [b EXCEPT !.orders[v].next = n] BY <3>2 DEF set_next
        <4> QED BY <3>2, <4>1
      <3> QED BY <3>1, <3>2
    <2>2. CASE n = none BY <2>1, <2>2 DEF set_prev
    <2>3. CASE n # none
      <3> DEFINE w == set_next(b, v, n)
      <3>1. m = [w EXCEPT !.orders[n].prev = v] BY <2>3 DEF set_prev
      <3> HIDE DEF w, m, orders1
      <3>2. w.orders = orders1 BY <1>1, <2>1 DEF BookType, w
      <3>3. orders2 = [orders1 EXCEPT ![n].prev = v] BY <1>6, <2>3
      <3>4. m = [w EXCEPT !.orders = orders2]
        <4> HIDE DEF orders2
        <4> QED BY <3>1, <3>2, <3>3
      <3>5. w = [b EXCEPT !.orders = orders1] BY <2>1 DEF w
      <3> HIDE DEF orders2
      <3> QED BY <3>4, <3>5, <1>1 DEF BookType
    <2> QED BY <2>2, <2>3
  <1>8. u = [b EXCEPT !.orders = orders2, !.levels = [b.levels EXCEPT ![l] = level2]]
    <2>1. u = [m EXCEPT !.levels[l] = level2] BY DEF unlink
    <2> HIDE DEF m, orders2, level2, u
    <2>2. m.levels = b.levels BY <1>1, <1>7 DEF BookType
    <2>3. u = [m EXCEPT !.levels = [b.levels EXCEPT ![l] = level2]] BY <2>1, <2>2
    <2> QED BY <1>1, <1>7, <2>3 DEF BookType
  <1>9. d = [b EXCEPT !.orders = orders3, !.levels = [b.levels EXCEPT ![l] = level2],
                      !.free_order = <<o>> \o b.free_order,
                      !.lookup = [b.lookup EXCEPT ![r.id] = none],
                      !.active_orders = b.active_orders - 1]
    <2> HIDE DEF u, orders2, level2, r
    <2>1. d = [u EXCEPT !.lookup = [u.lookup EXCEPT ![r.id] = none],
                        !.orders = [u.orders EXCEPT ![o] = BlankOrder],
                        !.free_order = <<o>> \o u.free_order,
                        !.active_orders = u.active_orders - 1]
      BY <1>1, <1>8 DEF lookup_erase, release_order, BookType
    <2>2. /\ u.lookup = b.lookup /\ u.orders = orders2 /\ u.free_order = b.free_order
          /\ u.active_orders = b.active_orders
      BY <1>1, <1>8 DEF BookType
    <2> HIDE DEF d
    <2> QED BY <1>1, <1>8, <2>1, <2>2 DEF BookType
  <1>10. Leaves(b, d, o)
    <2> HIDE DEF d
    <2>1. level2 \in LevelType
      <3>1. /\ (IF v = none THEN n ELSE b.levels[l].head) \in OrderIndex \cup {none}
            /\ (IF n = none THEN v ELSE b.levels[l].tail) \in OrderIndex \cup {none}
            /\ b.levels[l].total_quantity - r.quantity \in Int /\ b.levels[l].order_count - 1 \in Int
        BY <1>2, <1>4 DEF LevelType
      <3> HIDE DEF v, n, r, l
      <3> QED BY <1>4, <3>1 DEF LevelType
    <2>2. /\ level2.active = b.levels[l].active /\ level2.price = b.levels[l].price
          /\ level2.head = IF v = none THEN n ELSE b.levels[l].head
          /\ level2.tail = IF n = none THEN v ELSE b.levels[l].tail
          /\ level2.order_count = b.levels[l].order_count - 1
          /\ level2.total_quantity = b.levels[l].total_quantity - r.quantity
      <3> HIDE DEF v, n, r, l
      <3> QED BY <1>4 DEF LevelType
    <2>3. /\ orders3[o] = BlankOrder
          /\ \A x \in OrderIndex : x # o /\ x # v /\ x # n => orders3[x] = b.orders[x]
          /\ v # none => orders3[v] = [b.orders[v] EXCEPT !.next = n]
          /\ n # none => orders3[n] = [b.orders[n] EXCEPT !.prev = v]
      <3> HIDE DEF v, n, r, l
      <3> QED BY <1>2, <1>3, <1>4, <1>6
    <2> HIDE DEF level2, orders3
    <2>4. d.orders = orders3 /\ d.levels = [b.levels EXCEPT ![l] = level2]
      BY <1>1, <1>9 DEF BookType
    <2>5. d = [b EXCEPT !.orders = d.orders, !.levels = d.levels,
                        !.free_order = <<o>> \o b.free_order,
                        !.lookup = [b.lookup EXCEPT ![r.id] = none],
                        !.active_orders = b.active_orders - 1]
      BY <1>9, <2>4
    <2>6. /\ d.levels \in [LevelIndex -> LevelType] /\ d.levels[l] = level2
          /\ \A k \in LevelIndex : k # l => d.levels[k] = b.levels[k]
      BY <1>2, <1>4, <2>1, <2>4
    <2> QED BY <1>6, <2>2, <2>3, <2>4, <2>5, <2>6 DEF Leaves
  <1> QED BY <1>5, <1>10

(* After drop() the book is whole again, the order's id is unknown, a slot *)
(* is free, and so is a level for its price and for every price that could *)
(* have had one before.                                                    *)
LEMMA DropKeeps ==
    ASSUME NEW b, NEW o, Nearly(b, none, o), o \in Live(b), NEW c, c = drop(b, o)
    PROVE  /\ BookInv(c) /\ c.free_order # <<>>
           /\ c.lookup = [b.lookup EXCEPT ![b.orders[o].id] = none]
           /\ \A w \in Prices :
                 \/ w = b.orders[o].price
                 \/ b.index[b.orders[o].side][w] # none \/ b.free_level # <<>>
                 => c.index[b.orders[o].side][w] # none \/ c.free_level # <<>>
  <1> DEFINE r == b.orders[o]
             l == r.level
  <1>1. PICK d : Leaves(b, d, o) /\ c = remove_if_empty(d, r.side, l) BY DropLeaves
  <1>2. b \in BookType /\ IndexAgrees(b) BY DEF Nearly
  <1>3. r.side \in Sides /\ r.price \in Prices /\ l # none /\ l = b.index[r.side][r.price]
    BY <1>2 DEF IndexAgrees
  <1>4. l \in LevelIndex BY <1>2, <1>3, BookFields
  <1>5. /\ d.free_order = <<o>> \o b.free_order /\ d.lookup = [b.lookup EXCEPT ![r.id] = none]
        /\ d.index = b.index /\ d.free_level = b.free_level
    BY <1>1, <1>2 DEF Leaves, BookType
  <1>6. Nearly(d, l, none) BY <1>1, LeaveKeeps
  <1>7. /\ BookInv(c) /\ c.free_order = d.free_order /\ c.lookup = d.lookup
        /\ \A s \in Sides, w \in Prices :
              d.index[s][w] # none \/ d.free_level # <<>> =>
              c.index[s][w] # none \/ c.free_level # <<>>
    <2> DEFINE s0 == r.side
               p0 == r.price
    <2>1. s0 \in Sides /\ p0 \in Prices /\ l = d.index[s0][p0] /\ c = remove_if_empty(d, s0, l)
      BY <1>1, <1>3, <1>5
    <2> HIDE DEF s0, p0, r, l
    <2> QED BY <1>4, <1>6, <2>1, LevelGone
  <1>8. <<o>> \o b.free_order # <<>>
    <2>1. o \in OrderIndex /\ b.free_order \in Seq(OrderIndex) BY <1>2, BookFields DEF Live
    <2> QED BY <2>1
  <1> QED BY <1>3, <1>5, <1>7, <1>8
-----------------------------------------------------------------------------
(* From b to c, order o and its level lose quantity q.                     *)
Shrinks(b, c, o, q) ==
    LET l == b.orders[o].level IN
    /\ c \in BookType
    /\ c.free_order = b.free_order /\ c.free_level = b.free_level /\ c.index = b.index
    /\ c.lookup = b.lookup /\ c.active_orders = b.active_orders
    /\ c.active_levels = b.active_levels
    /\ \A x \in OrderIndex : x # o => c.orders[x] = b.orders[x]
    /\ \A x \in OrderIndex :
          /\ c.orders[x].id = b.orders[x].id /\ c.orders[x].price = b.orders[x].price
          /\ c.orders[x].side = b.orders[x].side /\ c.orders[x].level = b.orders[x].level
          /\ c.orders[x].prev = b.orders[x].prev /\ c.orders[x].next = b.orders[x].next
          /\ c.orders[x].active = b.orders[x].active
    /\ c.orders[o].quantity = b.orders[o].quantity - q
    /\ \A k \in LevelIndex : k # l => c.levels[k] = b.levels[k]
    /\ \A k \in LevelIndex :
          /\ c.levels[k].active = b.levels[k].active /\ c.levels[k].price = b.levels[k].price
          /\ c.levels[k].head = b.levels[k].head /\ c.levels[k].tail = b.levels[k].tail
          /\ c.levels[k].order_count = b.levels[k].order_count
    /\ c.levels[l].total_quantity = b.levels[l].total_quantity - q

(* reduce() before it looks at what is left: the order and its level lose  *)
(* the same quantity.                                                      *)
LEMMA ReduceShrinks ==
    ASSUME NEW b, BookInv(b), NEW o \in Live(b), NEW q \in Quantities, q <= b.orders[o].quantity,
           NEW c, c = [b EXCEPT !.levels[b.orders[o].level].total_quantity = @ - q,
                                !.orders[o].quantity = @ - q]
    PROVE  Shrinks(b, c, o, q)
  <1> DEFINE r == b.orders[o]
             l == r.level
  <1>1. b \in BookType /\ IndexAgrees(b)
    BY DEF BookInv, Nearly
  <1>2. /\ o \in OrderIndex /\ o # none /\ r \in OrderType /\ r.active /\ r.quantity \in Nat
        /\ l \in LevelIndex /\ o \in Members(b, l)
    <2>1. o \in OrderIndex /\ o # none /\ r.active BY IndexFacts DEF Live
    <2>2. r \in OrderType BY <1>1, <2>1, BookFields
    <2>3. l # none BY <1>1 DEF IndexAgrees
    <2> QED BY <2>1, <2>2, <2>3 DEF OrderType, Members
  <1>3. q \in Nat /\ r.quantity - q \in Nat BY <1>2, ValueAssumption
  <1> DEFINE r2 == [r EXCEPT !.quantity = r.quantity - q]
             level2 == [b.levels[l] EXCEPT !.total_quantity = b.levels[l].total_quantity - q]
  <1>4. b.levels[l] \in LevelType BY <1>1, <1>2, BookFields
  <1>5. /\ r2 \in OrderType /\ r2.quantity = r.quantity - q /\ r2.id = r.id /\ r2.price = r.price
        /\ r2.side = r.side /\ r2.level = l /\ r2.prev = r.prev /\ r2.next = r.next /\ r2.active
    <2> HIDE DEF r, l
    <2> QED BY <1>2, <1>3 DEF OrderType, l
  <1>6. /\ level2 \in LevelType /\ level2.active = b.levels[l].active
        /\ level2.price = b.levels[l].price /\ level2.head = b.levels[l].head
        /\ level2.tail = b.levels[l].tail /\ level2.order_count = b.levels[l].order_count
        /\ level2.total_quantity = b.levels[l].total_quantity - q
    <2>1. b.levels[l].total_quantity - q \in Int BY <1>3, <1>4 DEF LevelType
    <2> QED BY <1>4, <2>1 DEF LevelType
  <1>7. c = [b EXCEPT !.orders = [b.orders EXCEPT ![o] = r2],
                      !.levels = [b.levels EXCEPT ![l] = level2]]
    <2>1. c.orders = [b.orders EXCEPT ![o].quantity = @ - q] BY <1>1 DEF BookType
    <2>2. c.levels = [b.levels EXCEPT ![l].total_quantity = @ - q] BY <1>1 DEF BookType
    <2>3. c = [b EXCEPT !.orders = c.orders, !.levels = c.levels] BY <1>1 DEF BookType
    <2>4. c.orders = [b.orders EXCEPT ![o] = r2] BY <2>1
    <2>5. c.levels = [b.levels EXCEPT ![l] = level2] BY <2>2
    <2> HIDE DEF r2, level2
    <2> QED BY ONLY <2>3, <2>4, <2>5
  <1> HIDE DEF r2, level2
  <1>8. /\ c.orders = [b.orders EXCEPT ![o] = r2] /\ c.levels = [b.levels EXCEPT ![l] = level2]
        /\ c.free_order = b.free_order /\ c.free_level = b.free_level /\ c.index = b.index
        /\ c.lookup = b.lookup /\ c.active_orders = b.active_orders
        /\ c.active_levels = b.active_levels
    BY <1>1, <1>7 DEF BookType
  <1>9. c \in BookType
    <2>1. [b.orders EXCEPT ![o] = r2] \in [OrderIndex -> OrderType]
          /\ [b.levels EXCEPT ![l] = level2] \in [LevelIndex -> LevelType]
      BY <1>1, <1>2, <1>5, <1>6, BookFields
    <2> QED BY <1>1, <1>7, <2>1 DEF BookType
  <1>10. \A x \in OrderIndex : c.orders[x] = IF x = o THEN r2 ELSE b.orders[x]
    BY <1>1, <1>8, BookFields
  <1>11. \A k \in LevelIndex : c.levels[k] = IF k = l THEN level2 ELSE b.levels[k]
    <2>1. b.levels \in [LevelIndex -> LevelType] BY <1>1, BookFields
    <2>2. c.levels = [b.levels EXCEPT ![l] = level2] BY <1>8
    <2> QED BY ONLY <2>1, <2>2
  <1>12. \A x \in OrderIndex :
            /\ c.orders[x].id = b.orders[x].id /\ c.orders[x].price = b.orders[x].price
            /\ c.orders[x].side = b.orders[x].side /\ c.orders[x].level = b.orders[x].level
            /\ c.orders[x].prev = b.orders[x].prev /\ c.orders[x].next = b.orders[x].next
            /\ c.orders[x].active = b.orders[x].active
    BY <1>2, <1>5, <1>10
  <1>13. \A k \in LevelIndex :
            /\ c.levels[k].active = b.levels[k].active /\ c.levels[k].price = b.levels[k].price
            /\ c.levels[k].head = b.levels[k].head /\ c.levels[k].tail = b.levels[k].tail
            /\ c.levels[k].order_count = b.levels[k].order_count
    BY <1>6, <1>11
  <1> QED BY ONLY <1>2, <1>5, <1>6, <1>8, <1>9, <1>10, <1>11, <1>12, <1>13 DEF Shrinks

(* A reduced order is whole, unless nothing is left of it. *)
LEMMA ShrinkKeeps ==
    ASSUME NEW b, BookInv(b), NEW o \in Live(b), NEW q \in Quantities, q <= b.orders[o].quantity,
           NEW c, Shrinks(b, c, o, q)
    PROVE  /\ Nearly(c, none, o) /\ o \in Live(c)
           /\ c.orders[o].quantity # 0 => BookInv(c)
  <1> DEFINE r == b.orders[o]
             l == r.level
  <1>1. b \in BookType /\ LinksAgree(b) /\ Ranked(b) /\ IndexAgrees(b) /\ LookupAgrees(b)
        /\ PoolsWhole(b) /\ PoolsCounted(b)
    BY DEF BookInv, Nearly
  <1>2. /\ o \in OrderIndex /\ o # none /\ r \in OrderType /\ r.active /\ r.quantity \in Nat
        /\ l \in LevelIndex /\ o \in Members(b, l)
    <2>1. o \in OrderIndex /\ o # none /\ r.active BY IndexFacts DEF Live
    <2>2. r \in OrderType BY <1>1, <2>1, BookFields
    <2>3. l # none BY <1>1 DEF IndexAgrees
    <2> QED BY <2>1, <2>2, <2>3 DEF OrderType, Members
  <1>3. q \in Nat /\ r.quantity - q \in Nat BY <1>2, ValueAssumption
  <1>8. /\ c.free_order = b.free_order /\ c.free_level = b.free_level /\ c.index = b.index
        /\ c.lookup = b.lookup /\ c.active_orders = b.active_orders
        /\ c.active_levels = b.active_levels
    BY DEF Shrinks
  <1>9. c \in BookType BY DEF Shrinks
  <1>10. /\ \A x \in OrderIndex : x # o => c.orders[x] = b.orders[x]
         /\ c.orders[o].quantity = r.quantity - q
    BY DEF Shrinks
  <1>11. /\ \A k \in LevelIndex : k # l => c.levels[k] = b.levels[k]
         /\ c.levels[l].total_quantity = b.levels[l].total_quantity - q
    BY DEF Shrinks
  <1>12. \A x \in OrderIndex :
            /\ c.orders[x].id = b.orders[x].id /\ c.orders[x].price = b.orders[x].price
            /\ c.orders[x].side = b.orders[x].side /\ c.orders[x].level = b.orders[x].level
            /\ c.orders[x].prev = b.orders[x].prev /\ c.orders[x].next = b.orders[x].next
            /\ c.orders[x].active = b.orders[x].active
    BY DEF Shrinks
  <1>13. \A k \in LevelIndex :
            /\ c.levels[k].active = b.levels[k].active /\ c.levels[k].price = b.levels[k].price
            /\ c.levels[k].head = b.levels[k].head /\ c.levels[k].tail = b.levels[k].tail
            /\ c.levels[k].order_count = b.levels[k].order_count
    BY DEF Shrinks
  <1>14. Live(c) = Live(b) /\ \A k : Members(c, k) = Members(b, k)
    BY <1>12 DEF Live, Members
  <1>15. \A x \in Live(b) : x \in OrderIndex /\ b.orders[x].level \in LevelIndex
    BY <1>1, BookFields DEF Live, IndexAgrees
  <1>16. PoolsWhole(c)
    <2>1. {k \in LevelIndex : ~c.levels[k].active} = {k \in LevelIndex : ~b.levels[k].active}
      BY <1>13
    <2>2. \A x \in OrderIndex \ Live(b) : c.orders[x] = b.orders[x] BY <1>10
    <2> QED BY <1>1, <1>8, <1>14, <2>1, <2>2 DEF PoolsWhole
  <1>17. LookupAgrees(c) BY <1>1, <1>8, <1>12, <1>14, <1>15 DEF LookupAgrees
  <1>18. IndexAgrees(c)
    <2>0. \A s \in Sides, w \in Prices : b.index[s][w] # none => b.index[s][w] \in LevelIndex
      BY <1>1, BookFields
    <2>1. \A s \in Sides, w \in Prices : c.index[s][w] # none =>
             c.levels[c.index[s][w]].active /\ c.levels[c.index[s][w]].price = w
      BY <1>1, <1>8, <1>13, <2>0 DEF IndexAgrees
    <2>2. \A s, u \in Sides, w, e \in Prices :
             c.index[s][w] # none /\ c.index[s][w] = c.index[u][e] => s = u /\ w = e
      BY <1>1, <1>8 DEF IndexAgrees
    <2>3. \A k \in LevelIndex : c.levels[k].active => \E s \in Sides, w \in Prices : c.index[s][w] = k
      BY <1>1, <1>8, <1>13 DEF IndexAgrees
    <2>4. \A x \in Live(c) :
             LET e == c.orders[x] IN e.side \in Sides /\ e.price \in Prices /\ e.level # none
                                     /\ e.level = c.index[e.side][e.price]
      BY <1>1, <1>8, <1>12, <1>14, <1>15 DEF IndexAgrees
    <2> QED BY <2>1, <2>2, <2>3, <2>4 DEF IndexAgrees
  <1>19. LinksAgree(c)
    <2>1. \A k : Members(b, k) \subseteq OrderIndex BY DEF Members, Live
    <2> QED BY <1>1, <1>12, <1>13, <1>14, <1>15, <2>1 DEF LinksAgree
  <1>20. Ranked(c) BY <1>1, <1>12, <1>14, <1>15 DEF Ranked
  <1>21. PoolsCounted(c)
    <2>1. {k \in LevelIndex : c.levels[k].active} = {k \in LevelIndex : b.levels[k].active}
      BY <1>13
    <2> QED BY <1>1, <1>8, <1>14, <2>1 DEF PoolsCounted
  <1>22. ASSUME NEW k \in LevelIndex, c.levels[k].active
         PROVE  TotalsAt(c, k) /\ QueueAt(c, k) /\ Members(c, k) # {}
    <2>0. TotalsAt(b, k) /\ QueueAt(b, k) /\ Members(b, k) # {}
      BY <1>13, <1>22, IndexFacts DEF BookInv, Nearly
    <2> DEFINE M == Members(b, k)
    <2>1. /\ IsFiniteSet(M) /\ M \subseteq OrderIndex
      BY SlotsFinite DEF Members, Live
    <2>2. \A x \in OrderIndex : Quantity(b)[x] \in Int /\ Quantity(c)[x] \in Int
      BY <1>1, <1>9, BookFields DEF Quantity, OrderType
    <2>3. \A x \in OrderIndex : x # o => Quantity(b)[x] = Quantity(c)[x] BY <1>10 DEF Quantity
    <2>4. QueueAt(c, k)
      BY <1>12, <1>13, <1>14, <2>0, <2>1 DEF QueueAt, EndsAt
    <2>5. CASE k # l
      <3>1. o \notin M BY <2>5 DEF Members
      <3>2. SumFunctionOnSet(Quantity(b), M) = SumFunctionOnSet(Quantity(c), M)
        BY <2>1, <2>2, <2>3, <3>1, SumAgree
      <3> QED BY <1>11, <1>14, <2>0, <2>4, <2>5, <3>2 DEF TotalsAt
    <2>6. CASE k = l
      <3>1. o \in M BY <1>2, <2>6
      <3>2. /\ SumFunctionOnSet(Quantity(b), M) = Quantity(b)[o] + SumFunctionOnSet(Quantity(b), M \ {o})
            /\ SumFunctionOnSet(Quantity(c), M) = Quantity(c)[o] + SumFunctionOnSet(Quantity(c), M \ {o})
        BY <2>1, <2>2, <3>1, SumRemove
      <3>3. IsFiniteSet(M \ {o}) BY <2>1, FS_Subset
      <3>4. /\ SumFunctionOnSet(Quantity(b), M \ {o}) = SumFunctionOnSet(Quantity(c), M \ {o})
            /\ SumFunctionOnSet(Quantity(b), M \ {o}) \in Int
        BY <2>1, <2>2, <2>3, <3>3, SumAgree, SumType
      <3>5. Quantity(c)[o] = Quantity(b)[o] - q /\ Quantity(b)[o] \in Int
        BY <1>2, <1>10 DEF Quantity
      <3>6. b.levels[l].total_quantity = SumFunctionOnSet(Quantity(b), M) BY <2>0, <2>6 DEF TotalsAt
      <3>7. c.levels[k].total_quantity = SumFunctionOnSet(Quantity(c), M)
        BY <1>3, <1>11, <2>6, <3>2, <3>4, <3>5, <3>6
      <3> QED BY <1>13, <1>14, <2>0, <2>4, <3>7 DEF TotalsAt
    <2> QED BY <2>5, <2>6
  <1>23. \A x \in Live(c) : x # o => c.orders[x].quantity > 0
    BY <1>10, <1>14, <1>15, IndexFacts DEF BookInv, Nearly
  <1>24. Nearly(c, none, o)
    BY <1>9, <1>16, <1>17, <1>18, <1>19, <1>20, <1>21, <1>22, <1>23 DEF Nearly
  <1>25. c.orders[o].quantity # 0 => BookInv(c)
    <2>1. c.orders[o].quantity \in Nat BY <1>3, <1>10
    <2>2. c.orders[o].quantity # 0 => c.orders[o].quantity > 0 BY <2>1
    <2> QED BY <1>24, <2>2 DEF BookInv, Nearly
  <1> QED BY <1>14, <1>24, <1>25
-----------------------------------------------------------------------------
(* What an operation on book b may return: a whole book, and b itself with *)
(* every error.                                                            *)
Sound(b, r) == /\ BookInv(r.book) /\ r.error \in BookErrors
               /\ r.error # "none" => r.book = b

(* add(): each failure gives back what was taken before it. *)
LEMMA AddSound ==
    ASSUME NEW b, BookInv(b), NEW id \in Ids, NEW side \in Sides, NEW q \in Quantities,
           NEW p \in Prices
    PROVE  Sound(b, add(b, id, side, q, p))
  <1> DEFINE o == Head(b.free_order)
             a == acquire_order(b)
  <1>0. b \in BookType BY DEF BookInv, Nearly
  <1>1. CASE q = 0 BY <1>1 DEF add, Return, Sound, BookErrors
  <1>2. CASE q # 0 /\ b.lookup[id] # none
    BY <1>2 DEF add, Return, Sound, BookErrors, lookup_find
  <1>3. CASE q # 0 /\ b.lookup[id] = none /\ b.free_order = <<>>
    BY <1>3 DEF add, Return, Sound, BookErrors, lookup_find
  <1>4. CASE /\ q # 0 /\ b.lookup[id] = none /\ b.free_order # <<>>
             /\ b.index[side][p] = none /\ b.free_level = <<>>
    <2>1. /\ b.free_order \in Seq(OrderIndex) /\ Lists(b.free_order, OrderIndex \ Live(b))
          /\ \A x \in OrderIndex \ Live(b) : b.orders[x] = BlankOrder
          /\ b.orders \in [OrderIndex -> OrderType]
      BY <1>0, BookFields DEF BookInv, Nearly, PoolsWhole
    <2>2. o \in OrderIndex \ Live(b) BY <1>4, <2>1, TakeListed
    <2>3. b.orders[o] = BlankOrder /\ o \in OrderIndex BY <2>1, <2>2
    <2>4. a = [b EXCEPT !.orders = [b.orders EXCEPT ![o] = [BlankOrder EXCEPT !.active = TRUE]],
                        !.free_order = Tail(b.free_order)]
      BY <1>0 DEF acquire_order, BookType
    <2> HIDE DEF o, a
    <2>5. a.index = b.index /\ a.free_level = b.free_level
          /\ a.orders = [b.orders EXCEPT ![o] = [BlankOrder EXCEPT !.active = TRUE]]
          /\ a.free_order = Tail(b.free_order)
      BY <1>0, <2>4 DEF BookType
    <2>6. level_get_or_add(a, side, p) = a /\ level_find(a, side, p) = none
      BY <1>4, <2>5 DEF level_get_or_add, level_find
    <2>7. add(b, id, side, q, p) = Return(release_order(a, o), "level_pool_exhausted")
      BY <1>4, <2>6 DEF add, lookup_find, a, o
    <2>8. release_order(a, o) = b
      <3>1. [a.orders EXCEPT ![o] = BlankOrder] = b.orders BY <2>1, <2>3, <2>5
      <3>2. <<o>> \o a.free_order = b.free_order BY <1>4, <2>1, <2>5 DEF o
      <3>3. release_order(a, o) = [a EXCEPT !.orders = [a.orders EXCEPT ![o] = BlankOrder],
                                            !.free_order = <<o>> \o a.free_order]
        BY DEF release_order
      <3>4. release_order(a, o) = [a EXCEPT !.orders = b.orders, !.free_order = b.free_order]
        BY <3>1, <3>2, <3>3
      <3> QED BY <1>0, <2>4, <3>4 DEF BookType
    <2> QED BY <2>7, <2>8 DEF Return, Sound, BookErrors
  <1>5. CASE /\ q # 0 /\ b.lookup[id] = none /\ b.free_order # <<>>
             /\ b.index[side][p] # none \/ b.free_level # <<>>
    <2> DEFINE g == level_get_or_add(b, side, p)
               c == add(b, id, side, q, p)
    <2>1. c.error = "none" /\ Rests(g, c.book, o, g.index[side][p], id, side, q, p)
      BY <1>5, AddRests
    <2>2. /\ Nearly(g, g.index[side][p], none) /\ g.index[side][p] \in LevelIndex
          /\ g.free_order = b.free_order /\ g.lookup = b.lookup
      BY <1>5, LevelReady
    <2> HIDE DEF g, c
    <2>3. BookInv(c.book) BY <1>5, <2>1, <2>2, RestKeeps
    <2> QED BY <2>1, <2>3 DEF Sound, BookErrors, c
  <1> QED BY <1>1, <1>2, <1>3, <1>4, <1>5

(* A whole book allows what a book in the middle of a call does.           *)
LEMMA WholeIsNearly ==
    ASSUME NEW b, BookInv(b), NEW o PROVE Nearly(b, none, o)
  <1>1. \A x \in Live(b) : x # none BY IndexFacts DEF Live
  <1> QED BY <1>1 DEF BookInv, Nearly

(* reduce(): an order that is used up is dropped in the same call. *)
LEMMA ReduceSound ==
    ASSUME NEW b, BookInv(b), NEW o \in Live(b), NEW q \in Quantities
    PROVE  Sound(b, reduce(b, o, q))
  <1> DEFINE c == [b EXCEPT !.levels[b.orders[o].level].total_quantity = @ - q,
                            !.orders[o].quantity = @ - q]
  <1>1. CASE q = 0 \/ q > b.orders[o].quantity
    BY <1>1 DEF reduce, Return, Sound, BookErrors
  <1>2. CASE ~(q = 0 \/ q > b.orders[o].quantity)
    <2>0. b.orders[o].quantity \in Nat /\ q \in Nat
      <3>1. b \in BookType /\ o \in OrderIndex BY DEF BookInv, Nearly, Live
      <3>2. b.orders[o] \in OrderType BY <3>1, BookFields
      <3> QED BY <3>2, ValueAssumption DEF OrderType
    <2>1. q <= b.orders[o].quantity BY <1>2, <2>0
    <2>2. reduce(b, o, q) = Return(IF c.orders[o].quantity = 0 THEN drop(c, o) ELSE c, "none")
      BY <1>2 DEF reduce
    <2>3. /\ Nearly(c, none, o) /\ o \in Live(c)
          /\ c.orders[o].quantity # 0 => BookInv(c)
      <3>1. Shrinks(b, c, o, q) BY <2>1, ReduceShrinks
      <3> HIDE DEF c
      <3> QED BY <2>1, <3>1, ShrinkKeeps
    <2> HIDE DEF c
    <2>4. BookInv(drop(c, o)) BY <2>3, DropKeeps
    <2>5. BookInv(IF c.orders[o].quantity = 0 THEN drop(c, o) ELSE c) BY <2>3, <2>4
    <2> QED BY <2>2, <2>5 DEF Return, Sound, BookErrors
  <1> QED BY <1>1, <1>2

(* execute() and cancel() reduce the order that the lookup finds. *)
LEMMA ExecuteSound ==
    ASSUME NEW b, BookInv(b), NEW id \in Ids, NEW q \in Quantities
    PROVE  Sound(b, execute(b, id, q))
  <1>1. CASE b.lookup[id] = none
    BY <1>1 DEF execute, lookup_find, Return, Sound, BookErrors
  <1>2. CASE b.lookup[id] # none
    <2>1. b.lookup[id] \in Live(b) BY <1>2 DEF BookInv, Nearly, LookupAgrees
    <2> QED BY <1>2, <2>1, ReduceSound DEF execute, lookup_find
  <1> QED BY <1>1, <1>2

(* erase() drops it. *)
LEMMA EraseSound ==
    ASSUME NEW b, BookInv(b), NEW id \in Ids
    PROVE  Sound(b, erase(b, id))
  <1>1. CASE b.lookup[id] = none
    BY <1>1 DEF erase, lookup_find, Return, Sound, BookErrors
  <1>2. CASE b.lookup[id] # none
    <2>1. b.lookup[id] \in Live(b) BY <1>2 DEF BookInv, Nearly, LookupAgrees
    <2>2. Nearly(b, none, b.lookup[id]) BY WholeIsNearly
    <2>3. BookInv(drop(b, b.lookup[id])) BY <2>1, <2>2, DropKeeps
    <2> QED BY <1>2, <2>3 DEF erase, lookup_find, Return, Sound, BookErrors
  <1> QED BY <1>1, <1>2

(* replace() erases only what it can add again: with the old order's slot  *)
(* and level given back, the add cannot fail.                              *)
LEMMA ReplaceSound ==
    ASSUME NEW b, BookInv(b), NEW oldid \in Ids, NEW newid \in Ids, NEW q \in Quantities,
           NEW p \in Prices
    PROVE  Sound(b, replace(b, oldid, newid, q, p))
  <1> DEFINE old  == b.lookup[oldid]
             side == b.orders[old].side
             Refuse == \/ old = none \/ q = 0 \/ (newid # oldid /\ b.lookup[newid] # none)
                       \/ /\ p # b.orders[old].price /\ b.index[side][p] = none
                          /\ b.free_level = <<>>
  <1>1. CASE Refuse
    <2>1. \E e \in BookErrors : replace(b, oldid, newid, q, p) = Return(b, e)
      BY <1>1 DEF replace, lookup_find, level_find, BookErrors
    <2> QED BY <2>1 DEF Return, Sound
  <1>2. CASE ~Refuse
    <2> DEFINE c == drop(b, old)
    <2>1. old \in Live(b) /\ b.orders[old].id = oldid BY <1>2 DEF BookInv, Nearly, LookupAgrees
    <2>2. erase(b, oldid).book = c BY <1>2 DEF erase, lookup_find, Return
    <2>3. replace(b, oldid, newid, q, p) = add(c, newid, side, q, p)
      BY <1>2, <2>2 DEF replace, lookup_find, level_find
    <2>4. Nearly(b, none, old) BY WholeIsNearly
    <2>5. side \in Sides BY <2>1 DEF BookInv, Nearly, IndexAgrees
    <2>6. /\ BookInv(c) /\ c.free_order # <<>> /\ c.lookup = [b.lookup EXCEPT ![oldid] = none]
          /\ c.index[side][p] # none \/ c.free_level # <<>>
      <3>1. /\ BookInv(c) /\ c.free_order # <<>>
            /\ c.lookup = [b.lookup EXCEPT ![b.orders[old].id] = none]
            /\ \A w \in Prices :
                  \/ w = b.orders[old].price
                  \/ b.index[b.orders[old].side][w] # none \/ b.free_level # <<>>
                  => c.index[b.orders[old].side][w] # none \/ c.free_level # <<>>
        <4> HIDE DEF old
        <4> QED BY <2>1, <2>4, DropKeeps
      <3> HIDE DEF c, old
      <3> QED BY <1>2, <2>1, <3>1
    <2>7. c.lookup[newid] = none
      <3>1. b.lookup \in [Ids -> OrderIndex \cup {none}] BY BookFields DEF BookInv, Nearly
      <3> QED BY <1>2, <2>6, <3>1
    <2> HIDE DEF c, side, old
    <2>8. add(c, newid, side, q, p).error = "none"
      <3>1. q # 0 BY <1>2
      <3> DEFINE g == level_get_or_add(c, side, p)
                 a == add(c, newid, side, q, p)
      <3>2. a.error = "none" /\ Rests(g, a.book, Head(c.free_order), g.index[side][p],
                                      newid, side, q, p)
        BY <2>5, <2>6, <2>7, <3>1, AddRests
      <3> QED BY <3>2
    <2>9. BookInv(add(c, newid, side, q, p).book) BY <2>5, <2>6, AddSound DEF Sound
    <2> QED BY <2>3, <2>8, <2>9 DEF Sound, BookErrors
  <1> QED BY <1>1, <1>2
-----------------------------------------------------------------------------
(* The constructor's free lists hold every slot once.                      *)
LEMMA FreshListed ==
    ASSUME NEW n \in Nat
    PROVE  /\ [i \in 1 .. n |-> i - 1] \in Seq(0 .. n - 1)
           /\ Lists([i \in 1 .. n |-> i - 1], 0 .. n - 1)
  <1> DEFINE s == [i \in 1 .. n |-> i - 1]
  <1>1. s \in Seq(0 .. n - 1) OBVIOUS
  <1>2. DOMAIN s = 1 .. n /\ \A i \in 1 .. n : s[i] = i - 1 OBVIOUS
  <1>3. \A x \in 0 .. n - 1 : x + 1 \in 1 .. n /\ s[x + 1] = x OBVIOUS
  <1> HIDE DEF s
  <1>4. \A i \in DOMAIN s : s[i] \in 0 .. n - 1 BY <1>2
  <1>5. \A i, j \in DOMAIN s : s[i] = s[j] => i = j BY <1>2
  <1>6. \A x \in 0 .. n - 1 : \E i \in DOMAIN s : s[i] = x BY <1>2, <1>3
  <1>7. Lists(s, 0 .. n - 1) BY <1>4, <1>5, <1>6 DEF Lists
  <1> QED BY <1>1, <1>7 DEF s

(* The constructor: all slots free, nothing found. *)
LEMMA FreshBook == Init => BookInv(book)
  <1> SUFFICES ASSUME Init PROVE BookInv(book) OBVIOUS
  <1>1. /\ book.orders = [o \in OrderIndex |-> BlankOrder]
        /\ book.free_order = [i \in 1 .. MaxOrders |-> i - 1]
        /\ book.levels = [l \in LevelIndex |-> BlankLevel]
        /\ book.free_level = [i \in 1 .. MaxLevels |-> i - 1]
        /\ book.index = [s \in Sides |-> [p \in Prices |-> none]]
        /\ book.lookup = [id \in Ids |-> none]
        /\ book.active_orders = 0 /\ book.active_levels = 0
    BY DEF Init
  <1>2. /\ book.free_order \in Seq(OrderIndex) /\ Lists(book.free_order, OrderIndex)
        /\ book.free_level \in Seq(LevelIndex) /\ Lists(book.free_level, LevelIndex)
    BY <1>1, CapacityAssumption, FreshListed DEF OrderIndex, LevelIndex
  <1>3. book \in BookType
    <2>1. /\ book.orders \in [OrderIndex -> OrderType] /\ book.levels \in [LevelIndex -> LevelType]
          /\ book.index \in [Sides -> [Prices -> LevelIndex \cup {none}]]
          /\ book.lookup \in [Ids -> OrderIndex \cup {none}]
      BY <1>1, BlankFacts
    <2>2. book = [orders |-> book.orders, free_order |-> book.free_order,
                  levels |-> book.levels, free_level |-> book.free_level,
                  index |-> book.index, lookup |-> book.lookup,
                  active_orders |-> book.active_orders, active_levels |-> book.active_levels]
      BY DEF Init
    <2>3. book.active_orders \in Int /\ book.active_levels \in Int BY <1>1
    <2> QED BY ONLY <1>2, <2>1, <2>2, <2>3 DEF BookType
  <1>4. Live(book) = {} /\ \A l : Members(book, l) = {} BY <1>1, BlankFacts DEF Live, Members
  <1>5. \A l \in LevelIndex : ~book.levels[l].active BY <1>1, BlankFacts
  <1>6. PoolsWhole(book)
    <2>1. {l \in LevelIndex : ~book.levels[l].active} = LevelIndex BY <1>5
    <2>2. OrderIndex \ Live(book) = OrderIndex BY <1>4
    <2> QED BY <1>1, <1>2, <2>1, <2>2 DEF PoolsWhole
  <1>7. LookupAgrees(book) /\ LinksAgree(book) BY <1>1, <1>4 DEF LookupAgrees, LinksAgree
  <1>8. IndexAgrees(book) BY <1>1, <1>4, <1>5 DEF IndexAgrees
  <1>9. Ranked(book)
    <2>1. [o \in OrderIndex |-> 0] \in [OrderIndex -> Nat] OBVIOUS
    <2> QED BY <1>4, <2>1 DEF Ranked
  <1>10. PoolsCounted(book)
    <2>1. {l \in LevelIndex : book.levels[l].active} = {} BY <1>5
    <2> QED BY <1>1, <1>4, <2>1, FS_EmptySet DEF PoolsCounted
  <1> QED BY <1>3, <1>4, <1>5, <1>6, <1>7, <1>8, <1>9, <1>10 DEF BookInv, Nearly
-----------------------------------------------------------------------------
(* The inductive invariant: the book between two calls of process(), with  *)
(* the acyclic queues that the checked invariants do not mention.          *)
Inv == /\ BookInv(book) /\ result \in BookErrors
       /\ stats \in [accepted : Nat, ignored : Nat, rejected : Nat]

(* What process() does with the outcome of a call. *)
LEMMA FinishKeeps ==
    ASSUME NEW m, NEW r, Inv, Sound(book, r), Finish(m, r)
    PROVE  Inv' /\ (result' # "none" => book' = book)
  <1>1. BookInv(r.book) /\ r.error \in BookErrors /\ (r.error # "none" => r.book = book)
    BY DEF Sound
  <1>2. book' = r.book /\ result' = r.error /\ stats' = [stats EXCEPT ![Counter(r.error)] = @ + 1]
    BY DEF Finish
  <1>3. BookInv(book') BY <1>1, <1>2
  <1>4. Counter(r.error) \in {"accepted", "ignored", "rejected"} BY DEF Counter
  <1>5. stats' \in [accepted : Nat, ignored : Nat, rejected : Nat]
    BY <1>2, <1>4 DEF Inv
  <1> QED BY <1>1, <1>2, <1>3, <1>5 DEF Inv

(* One step for each kind of message. *)
LEMMA StepKeeps ==
    ASSUME Inv, [Next]_vars
    PROVE  Inv' /\ (result' # "none" => book' = book \/ UNCHANGED vars)
  <1>0. BookInv(book) BY DEF Inv
  <1>1. ASSUME NEW e \in BookErrors PROVE Sound(book, Return(book, e)) BY <1>0 DEF Sound, Return
  <1>2. ASSUME NEW stock \in Stocks, NEW id \in Ids, NEW side \in Sides, NEW q \in Quantities,
               NEW p \in Prices, AddOrder(stock, id, side, q, p)
        PROVE  Inv' /\ (result' # "none" => book' = book)
    <2> DEFINE r == IF symbol_matches(stock) THEN add(book, id, side, q, p)
                    ELSE Return(book, "wrong_symbol")
    <2>1. Sound(book, r)
      <3>1. CASE symbol_matches(stock)
        <4>1. Sound(book, add(book, id, side, q, p)) BY <1>0, AddSound
        <4> QED BY <3>1, <4>1
      <3>2. CASE ~symbol_matches(stock)
        <4>1. Sound(book, Return(book, "wrong_symbol")) BY <1>1 DEF BookErrors
        <4> QED BY <3>2, <4>1
      <3> QED BY <3>1, <3>2
    <2>2. \E m : Finish(m, r) BY <1>2 DEF AddOrder
    <2> HIDE DEF r
    <2> QED BY <2>1, <2>2, FinishKeeps
  <1>3. ASSUME NEW id \in Ids, NEW q \in Quantities, OrderExecuted(id, q) \/ OrderCancel(id, q)
        PROVE  Inv' /\ (result' # "none" => book' = book)
    <2> DEFINE r == execute(book, id, q)
    <2>1. Sound(book, r) BY <1>0, ExecuteSound
    <2>2. \E m : Finish(m, r) BY <1>3 DEF OrderExecuted, OrderCancel, cancel
    <2> HIDE DEF r
    <2> QED BY <2>1, <2>2, FinishKeeps
  <1>4. ASSUME NEW id \in Ids, OrderDelete(id)
        PROVE  Inv' /\ (result' # "none" => book' = book)
    <2> DEFINE r == erase(book, id)
    <2>1. Sound(book, r) BY <1>0, EraseSound
    <2>2. \E m : Finish(m, r) BY <1>4 DEF OrderDelete
    <2> HIDE DEF r
    <2> QED BY <2>1, <2>2, FinishKeeps
  <1>5. ASSUME NEW oldid \in Ids, NEW newid \in Ids, NEW q \in Quantities, NEW p \in Prices,
               OrderReplace(oldid, newid, q, p)
        PROVE  Inv' /\ (result' # "none" => book' = book)
    <2> DEFINE r == replace(book, oldid, newid, q, p)
    <2>1. Sound(book, r) BY <1>0, ReplaceSound
    <2>2. \E m : Finish(m, r) BY <1>5 DEF OrderReplace
    <2> HIDE DEF r
    <2> QED BY <2>1, <2>2, FinishKeeps
  <1>6. ASSUME OtherMessage PROVE Inv' /\ (result' # "none" => book' = book)
    <2> DEFINE r == Return(book, "none")
    <2>1. Sound(book, r) BY <1>1 DEF BookErrors
    <2>2. \E m : Finish(m, r) BY <1>6 DEF OtherMessage
    <2> HIDE DEF r
    <2> QED BY <2>1, <2>2, FinishKeeps
  <1>7. CASE UNCHANGED vars BY <1>7 DEF vars, Inv
  <1> QED BY <1>2, <1>3, <1>4, <1>5, <1>6, <1>7 DEF Next

(* After every sequence of messages the book is whole and its queues have  *)
(* no cycle: what the theorems below read off.                             *)
THEOREM Invariance == Spec => []Inv
  <1>1. Init => Inv
    <2>1. Init => result \in BookErrors /\ stats \in [accepted : Nat, ignored : Nat, rejected : Nat]
      BY DEF Init, BookErrors
    <2> QED BY <2>1, FreshBook DEF Inv
  <1>2. Inv /\ [Next]_vars => Inv' BY StepKeeps
  <1> QED BY <1>1, <1>2, PTL DEF Spec

(* Every index process() stores is a slot of its pool, every quantity is   *)
(* natural, and the counters count.                                        *)
THEOREM TypesHold == Spec => []TypeOK
  <1>1. Inv => TypeOK BY DEF Inv, TypeOK, BookInv, Nearly
  <1> QED BY <1>1, Invariance, PTL

(* After every sequence of messages each free list holds exactly the free  *)
(* slots, each once, and they are blank.                                   *)
THEOREM PoolsNeverLeak == Spec => []PoolsExact
  <1>1. Inv => PoolsExact BY DEF Inv, PoolsExact, BookInv, Nearly
  <1> QED BY <1>1, Invariance, PTL

(* The lookup finds each live order under its id, and nothing else.        *)
THEOREM LookupAlwaysExact == Spec => []LookupExact
  <1>1. Inv => LookupExact BY DEF Inv, LookupExact, BookInv, Nearly
  <1> QED BY <1>1, Invariance, PTL

(* The price index reaches each active level once, under its own price,    *)
(* and every live order rests on the level of its side and price.          *)
THEOREM IndexAlwaysExact == Spec => []IndexExact
  <1>1. Inv => IndexExact BY DEF Inv, IndexExact, BookInv, Nearly
  <1> QED BY <1>1, Invariance, PTL

(* append() and unlink() keep the queues of all levels whole.              *)
THEOREM QueuesStayLinked == Spec => []QueuesLinked
  <1>1. Inv => QueuesLinked
    <2>1. \A l \in LevelIndex : l # none BY IndexFacts
    <2> QED BY <2>1 DEF Inv, QueuesLinked, BookInv, Nearly, QueueAt
  <1> QED BY <1>1, Invariance, PTL

(* What best_bid(), best_ask() and depth() report is the sum over the      *)
(* orders that rest there, whatever was added, cut, erased and replaced.   *)
THEOREM TotalsAlwaysExact == Spec => []TotalsExact
  <1>1. Inv => TotalsExact
    <2>1. /\ \A l \in LevelIndex : l # none
          /\ \A o \in Live(book) : o # none
      BY IndexFacts DEF Live
    <2> QED BY <2>1 DEF Inv, TotalsExact, BookInv, Nearly
  <1> QED BY <1>1, Invariance, PTL

(* A message process() answers with an error leaves the book as it was,    *)
(* and so replace() is all or nothing.                                     *)
THEOREM ErrorsAreHarmless == Spec => ErrorsChangeNothing
  <1>1. Inv /\ [Next]_vars => [result' # "none" => book' = book]_vars
    BY StepKeeps
  <1> QED BY <1>1, Invariance, PTL DEF Spec, ErrorsChangeNothing
-----------------------------------------------------------------------------
(***************************************************************************)
(* The order book implements BookSpec: walking the list of each level      *)
(* gives the FIFO queue the abstract book keeps for its side and price,    *)
(* whatever the capacities, ids, prices and quantities.                    *)
(***************************************************************************)

(* The orders of level l in a row: all of them, each once, the head first  *)
(* and each followed by the one its next names.                            *)
Line(b, l, w) ==
    /\ w \in Seq(OrderIndex) /\ Lists(w, Members(b, l))
    /\ b.levels[l].head = IF w = <<>> THEN none ELSE w[1]
    /\ \A k \in 1 .. Len(w) : b.orders[w[k]].next = IF k < Len(w) THEN w[k + 1] ELSE none

(* A row for every side and price. *)
Lines(b, W) ==
    /\ W \in [Sides -> [Prices -> Seq(OrderIndex)]]
    /\ \A s \in Sides, p \in Prices :
          IF b.index[s][p] = none THEN W[s][p] = <<>> ELSE Line(b, b.index[s][p], W[s][p])

(* What the abstract book knows of a row of orders. *)
Entry(b, o) == [id |-> b.orders[o].id, quantity |-> b.orders[o].quantity]
Shown(b, w) == [k \in 1 .. Len(w) |-> Entry(b, w[k])]
Queues(b, W) == [s \in Sides |-> [p \in Prices |-> Shown(b, W[s][p])]]
QueueOf(b) == [s \in Sides |-> [p \in Prices |->
                  IF b.index[s][p] = none THEN <<>> ELSE Fifo(b, b.index[s][p])]]
-----------------------------------------------------------------------------
(* As many numbers as there are. *)
LEMMA UpTo == ASSUME NEW n \in Nat PROVE Cardinality(1 .. n) = n /\ IsFiniteSet(1 .. n)
  <1>1. /\ IsFiniteSet(1 .. n)
        /\ Cardinality(1 .. n) = IF 1 > n THEN 0 ELSE n - 1 + 1
    BY FS_Interval
  <1> QED BY <1>1

(* A row is never longer than the pool. *)
LEMMA RowFits ==
    ASSUME NEW w \in Seq(OrderIndex), NEW S, Lists(w, S)
    PROVE  Len(w) \in 0 .. MaxOrders
  <1>1. Len(w) \in Nat /\ DOMAIN w = 1 .. Len(w) /\ w \in [1 .. Len(w) -> OrderIndex] OBVIOUS
  <1>2. \A i, j \in 1 .. Len(w) : w[i] = w[j] => i = j BY <1>1 DEF Lists
  <1>3. w \in Injection(1 .. Len(w), OrderIndex) BY <1>1, <1>2 DEF Injection, IsInjective
  <1>4. Cardinality(1 .. Len(w)) <= MaxOrders BY <1>3, IndexFacts, FS_Injection
  <1>5. Cardinality(1 .. Len(w)) = Len(w) BY <1>1, UpTo
  <1> QED BY <1>1, <1>4, <1>5, CapacityAssumption

(* Walking from head along next visits the row, and then stays at none. *)
LEMMA FifoShows ==
    ASSUME NEW b, NEW l, NEW w, Line(b, l, w)
    PROVE  Fifo(b, l) = Shown(b, w)
  <1> DEFINE Walk(g) == [k \in 1 .. MaxOrders |->
                            IF k = 1 THEN b.levels[l].head
                            ELSE IF g[k - 1] = none THEN none ELSE b.orders[g[k - 1]].next]
             row == [k \in 1 .. MaxOrders |-> IF k <= Len(w) THEN w[k] ELSE none]
             at  == CHOOSE g : g = Walk(g)
  <1>1. /\ w \in Seq(OrderIndex) /\ Len(w) \in 0 .. MaxOrders /\ MaxOrders \in Nat \ {0}
        /\ b.levels[l].head = IF w = <<>> THEN none ELSE w[1]
        /\ \A k \in 1 .. Len(w) : b.orders[w[k]].next = IF k < Len(w) THEN w[k + 1] ELSE none
        /\ \A k \in 1 .. Len(w) : w[k] # none
    <2>1. w \in Seq(OrderIndex) /\ Lists(w, Members(b, l)) BY DEF Line
    <2>2. \A k \in 1 .. Len(w) : w[k] # none BY <2>1, IndexFacts
    <2> QED BY <2>1, <2>2, RowFits, CapacityAssumption DEF Line
  <1>2. ASSUME NEW k \in 1 .. MaxOrders
        PROVE  row[k] = IF k = 1 THEN b.levels[l].head
                        ELSE IF row[k - 1] = none THEN none ELSE b.orders[row[k - 1]].next
    <2>1. CASE k = 1
      <3>1. row[k] = IF 1 <= Len(w) THEN w[1] ELSE none BY <2>1
      <3>2. w = <<>> <=> ~(1 <= Len(w)) BY <1>1
      <3> QED BY <1>1, <2>1, <3>1, <3>2
    <2>2. CASE k # 1
      <3>1. k - 1 \in 1 .. MaxOrders /\ k - 1 + 1 = k BY <1>1, <2>2
      <3>2. /\ row[k] = IF k <= Len(w) THEN w[k] ELSE none
            /\ row[k - 1] = IF k - 1 <= Len(w) THEN w[k - 1] ELSE none
        BY <3>1
      <3> HIDE DEF row
      <3>3. CASE k - 1 <= Len(w)
        <4>1. k - 1 \in 1 .. Len(w) /\ (k - 1 < Len(w) <=> k <= Len(w)) BY <1>1, <3>1, <3>3
        <4>2. b.orders[w[k - 1]].next = IF k - 1 < Len(w) THEN w[k - 1 + 1] ELSE none
          BY <1>1, <4>1
        <4> QED BY <1>1, <2>2, <3>1, <3>2, <3>3, <4>1, <4>2
      <3>4. CASE ~(k - 1 <= Len(w))
        <4>1. ~(k <= Len(w)) BY <1>1, <3>4
        <4> QED BY <2>2, <3>2, <3>4, <4>1
      <3> QED BY <3>3, <3>4
    <2> QED BY <2>1, <2>2
  <1>3. row = Walk(row)
    <2>1. row = [k \in 1 .. MaxOrders |-> row[k]] OBVIOUS
    <2> HIDE DEF row
    <2> QED BY <1>2, <2>1, Zenon
  <1> HIDE DEF row
  <1>4. at = Walk(at)
    <2> HIDE DEF Walk
    <2> QED BY <1>3
  <1> HIDE DEF at
  <1>5. ASSUME NEW k \in 1 .. MaxOrders
        PROVE  at[k] = IF k = 1 THEN b.levels[l].head
                       ELSE IF at[k - 1] = none THEN none ELSE b.orders[at[k - 1]].next
    BY <1>4
  <1> DEFINE D == {k \in 1 .. MaxOrders : at[k] # row[k]}
  <1>6. D = {}
    <2> SUFFICES ASSUME D # {} PROVE FALSE OBVIOUS
    <2>1. D \in SUBSET Nat OBVIOUS
    <2>2. PICK g \in D : \A h \in D : g <= h
      <3> HIDE DEF D
      <3> QED BY <2>1, LeastNat
    <2>3. g \in 1 .. MaxOrders /\ at[g] # row[g] OBVIOUS
    <2>4. g # 1 BY <1>2, <1>5, <2>3
    <2>5. g - 1 \in 1 .. MaxOrders BY <1>1, <2>3, <2>4
    <2>6. g - 1 \notin D
      <3> HIDE DEF D
      <3> QED BY <2>2, <2>3
    <2>7. at[g - 1] = row[g - 1] BY <2>5, <2>6
    <2> QED BY <1>2, <1>5, <2>3, <2>4, <2>7
  <1>7. \A k \in 1 .. MaxOrders : at[k] = IF k <= Len(w) THEN w[k] ELSE none
    BY <1>6 DEF row
  <1> DEFINE length == Cardinality({k \in 1 .. MaxOrders : at[k] # none})
  <1>8. length = Len(w)
    <2>1. {k \in 1 .. MaxOrders : at[k] # none} = 1 .. Len(w) BY <1>1, <1>7
    <2>2. Len(w) \in Nat BY <1>1
    <2> QED BY <2>1, <2>2, UpTo
  <1>9. Fifo(b, l) = [k \in 1 .. length |-> [id |-> b.orders[at[k]].id,
                                             quantity |-> b.orders[at[k]].quantity]]
    BY DEF Fifo, at
  <1>10. \A k \in 1 .. Len(w) : at[k] = w[k] BY <1>1, <1>7
  <1> HIDE DEF length
  <1> QED BY <1>8, <1>9, <1>10 DEF Shown, Entry

(* The refinement mapping in terms of the rows. *)
LEMMA QueueShows ==
    ASSUME NEW b, NEW W, Lines(b, W)
    PROVE  QueueOf(b) = Queues(b, W)
  <1>1. ASSUME NEW s \in Sides, NEW p \in Prices
        PROVE  (IF b.index[s][p] = none THEN <<>> ELSE Fifo(b, b.index[s][p])) = Shown(b, W[s][p])
    <2>1. CASE b.index[s][p] = none
      <3>1. W[s][p] = <<>> BY <2>1 DEF Lines
      <3>2. Shown(b, <<>>) = <<>> BY DEF Shown
      <3> QED BY <2>1, <3>1, <3>2
    <2>2. CASE b.index[s][p] # none
      <3>1. Line(b, b.index[s][p], W[s][p]) BY <2>2 DEF Lines
      <3> QED BY <2>2, <3>1, FifoShows
    <2> QED BY <2>1, <2>2
  <1> QED BY <1>1 DEF QueueOf, Queues
-----------------------------------------------------------------------------
(* The row of a side and price holds live orders of that side and price,   *)
(* each once, and is empty only where the index has no level.              *)
LEMMA RowFacts ==
    ASSUME NEW b, NEW z, Nearly(b, none, z), NEW W, Lines(b, W),
           NEW s \in Sides, NEW p \in Prices, NEW w, w = W[s][p]
    PROVE  /\ w \in Seq(OrderIndex) /\ Len(w) \in 0 .. MaxOrders
           /\ \A k \in 1 .. Len(w) :
                 w[k] \in Live(b) /\ b.orders[w[k]].side = s /\ b.orders[w[k]].price = p
           /\ \A i, j \in 1 .. Len(w) : w[i] = w[j] => i = j
           /\ w = <<>> <=> b.index[s][p] = none
  <1>0. IndexAgrees(b) /\ b.index \in [Sides -> [Prices -> LevelIndex \cup {none}]]
    BY BookFields DEF Nearly
  <1>1. CASE b.index[s][p] = none
    <2>1. w = <<>> BY <1>1 DEF Lines
    <2> QED BY <1>1, <2>1, CapacityAssumption
  <1>2. CASE b.index[s][p] # none
    <2> DEFINE l == b.index[s][p]
    <2>1. w \in Seq(OrderIndex) /\ Lists(w, Members(b, l)) BY <1>2 DEF Lines, Line
    <2>2. Len(w) \in 0 .. MaxOrders BY <2>1, RowFits
    <2>3. DOMAIN w = 1 .. Len(w) BY <2>1
    <2>4. \A i, j \in 1 .. Len(w) : w[i] = w[j] => i = j BY <2>1, <2>3 DEF Lists
    <2>5. ASSUME NEW k \in 1 .. Len(w)
          PROVE  w[k] \in Live(b) /\ b.orders[w[k]].side = s /\ b.orders[w[k]].price = p
      <3> DEFINE r == b.orders[w[k]]
      <3>1. w[k] \in Live(b) /\ r.level = l BY <2>1, <2>3 DEF Lists, Members
      <3>2. r.side \in Sides /\ r.price \in Prices /\ l = b.index[r.side][r.price]
        BY <1>0, <3>1 DEF IndexAgrees
      <3> HIDE DEF r
      <3>3. r.side = s /\ r.price = p BY ONLY <1>0, <1>2, <3>2, s \in Sides, p \in Prices DEF IndexAgrees
      <3> QED BY <3>1, <3>3 DEF r
    <2>6. w # <<>>
      <3>1. l \in LevelIndex /\ l # none BY <1>0, <1>2
      <3>2. b.levels[l].active BY <1>0, <1>2 DEF IndexAgrees
      <3>3. Members(b, l) # {} BY <3>1, <3>2 DEF Nearly
      <3>4. PICK x : x \in Members(b, l) BY <3>3
      <3>5. \E i \in DOMAIN w : w[i] = x BY <2>1, <3>4 DEF Lists
      <3> QED BY <3>5
    <2> QED BY <1>2, <2>1, <2>2, <2>4, <2>5, <2>6
  <1> QED BY <1>1, <1>2

(* Every live order is in the row of its side and price. *)
LEMMA OrderPlaced ==
    ASSUME NEW b, NEW z, Nearly(b, none, z), NEW W, Lines(b, W), NEW o \in Live(b),
           NEW s, s = b.orders[o].side, NEW p, p = b.orders[o].price
    PROVE  /\ s \in Sides /\ p \in Prices
           /\ b.index[s][p] = b.orders[o].level /\ b.orders[o].level \in LevelIndex
           /\ \E k \in 1 .. Len(W[s][p]) : W[s][p][k] = o
  <1>0. IndexAgrees(b) /\ b.index \in [Sides -> [Prices -> LevelIndex \cup {none}]]
    BY BookFields DEF Nearly
  <1>1. s \in Sides /\ p \in Prices /\ b.orders[o].level # none /\ b.orders[o].level = b.index[s][p]
    BY <1>0 DEF IndexAgrees
  <1>2. b.orders[o].level \in LevelIndex BY <1>0, <1>1
  <1>3. Line(b, b.index[s][p], W[s][p]) BY <1>1 DEF Lines
  <1>4. o \in Members(b, b.index[s][p]) BY <1>1 DEF Members
  <1>5. W[s][p] \in Seq(OrderIndex) /\ \E i \in DOMAIN W[s][p] : W[s][p][i] = o
    BY <1>3, <1>4 DEF Line, Lists
  <1>6. DOMAIN W[s][p] = 1 .. Len(W[s][p]) BY <1>5
  <1> QED BY <1>1, <1>2, <1>5, <1>6
-----------------------------------------------------------------------------
(* A row without its k-th order. *)
Cut(w, k) == SubSeq(w, 1, k - 1) \o SubSeq(w, k + 1, Len(w))

LEMMA CutIs ==
    ASSUME NEW S, NEW w \in Seq(S), NEW k \in 1 .. Len(w)
    PROVE  /\ Cut(w, k) \in Seq(S) /\ Len(Cut(w, k)) = Len(w) - 1
           /\ \A i \in 1 .. Len(w) - 1 : Cut(w, k)[i] = IF i < k THEN w[i] ELSE w[i + 1]
  <1> DEFINE u == SubSeq(w, 1, k - 1)
             v == SubSeq(w, k + 1, Len(w))
  <1>0. Len(w) \in Nat /\ k \in Nat /\ 1 <= k /\ k <= Len(w) OBVIOUS
  <1>1. u \in Seq(S) /\ Len(u) = k - 1 /\ \A i \in 1 .. k - 1 : u[i] = w[i]
    <2>1. \A i \in 1 .. k - 1 : w[i] \in S BY <1>0
    <2>2. /\ u \in Seq(S) /\ Len(u) = IF 1 <= k - 1 THEN k - 1 - 1 + 1 ELSE 0
          /\ \A i \in 1 .. k - 1 - 1 + 1 : u[i] = w[1 + i - 1]
      BY <1>0, <2>1, SubSeqProperties
    <2> HIDE DEF u
    <2>3. k - 1 - 1 + 1 = k - 1 /\ \A i \in 1 .. k - 1 : 1 + i - 1 = i BY <1>0
    <2> QED BY <1>0, <2>2, <2>3
  <1>2. v \in Seq(S) /\ Len(v) = Len(w) - k /\ \A i \in 1 .. Len(w) - k : v[i] = w[k + i]
    <2>1. \A i \in k + 1 .. Len(w) : w[i] \in S BY <1>0
    <2>2. /\ v \in Seq(S) /\ Len(v) = IF k + 1 <= Len(w) THEN Len(w) - (k + 1) + 1 ELSE 0
          /\ \A i \in 1 .. Len(w) - (k + 1) + 1 : v[i] = w[k + 1 + i - 1]
      BY <1>0, <2>1, SubSeqProperties
    <2> HIDE DEF v
    <2>3. Len(w) - (k + 1) + 1 = Len(w) - k /\ \A i \in 1 .. Len(w) - k : k + 1 + i - 1 = k + i
      BY <1>0
    <2>4. Len(v) = Len(w) - k
      <3>1. Len(v) = IF k + 1 <= Len(w) THEN Len(w) - (k + 1) + 1 ELSE 0 BY <2>2
      <3> QED BY ONLY <1>0, <3>1
    <2>5. ASSUME NEW i \in 1 .. Len(w) - k PROVE v[i] = w[k + i]
      <3>1. i \in 1 .. Len(w) - (k + 1) + 1 /\ k + 1 + i - 1 = k + i BY <2>3
      <3>2. v[i] = w[k + 1 + i - 1] BY <2>2, <3>1
      <3> QED BY ONLY <3>1, <3>2
    <2> QED BY <2>2, <2>4, <2>5
  <1> HIDE DEF u, v
  <1>3. /\ u \o v \in Seq(S) /\ Len(u \o v) = Len(u) + Len(v)
        /\ \A i \in 1 .. Len(u) + Len(v) :
              (u \o v)[i] = IF i <= Len(u) THEN u[i] ELSE v[i - Len(u)]
    BY <1>1, <1>2, ConcatProperties
  <1>4. ASSUME NEW i \in 1 .. Len(w) - 1
        PROVE  (u \o v)[i] = IF i < k THEN w[i] ELSE w[i + 1]
    <2>1. i \in 1 .. Len(u) + Len(v) BY <1>0, <1>1, <1>2
    <2>2. (u \o v)[i] = IF i <= Len(u) THEN u[i] ELSE v[i - Len(u)] BY <1>3, <2>1
    <2>3. CASE i < k
      <3>1. i <= Len(u) /\ i \in 1 .. k - 1 BY <1>0, <1>1, <2>3
      <3> QED BY <1>1, <2>2, <2>3, <3>1
    <2>4. CASE ~(i < k)
      <3>1. ~(i <= Len(u)) /\ i - Len(u) \in 1 .. Len(w) - k /\ k + (i - Len(u)) = i + 1
        BY <1>0, <1>1, <2>4
      <3>2. v[i - Len(u)] = w[i + 1] BY <1>2, <3>1
      <3> QED BY <2>2, <2>4, <3>1, <3>2
    <2> QED BY <2>3, <2>4
  <1>5. Cut(w, k) = u \o v BY DEF Cut, u, v
  <1>6. Len(u) + Len(v) = Len(w) - 1 BY <1>0, <1>1, <1>2
  <1> QED BY <1>3, <1>4, <1>5, <1>6

(* A row is untouched by what happens to other levels and orders. *)
LEMMA LineStays ==
    ASSUME NEW b, NEW c, NEW l, NEW w, Line(b, l, w), Members(c, l) = Members(b, l),
           c.levels[l].head = b.levels[l].head,
           \A x \in Members(b, l) : c.orders[x].next = b.orders[x].next
    PROVE  Line(c, l, w)
  <1>1. \A k \in 1 .. Len(w) : w[k] \in Members(b, l) BY DEF Line, Lists
  <1> QED BY <1>1 DEF Line

(* From b to c, nothing happens to the rows of other sides and prices. *)
OthersStay(b, c, s, p) ==
    \A t \in Sides, r \in Prices : ~(t = s /\ r = p) =>
        /\ c.index[t][r] = b.index[t][r]
        /\ b.index[t][r] # none =>
              /\ Members(c, b.index[t][r]) = Members(b, b.index[t][r])
              /\ c.levels[b.index[t][r]].head = b.levels[b.index[t][r]].head
              /\ \A x \in Members(b, b.index[t][r]) : c.orders[x].next = b.orders[x].next

(* The row of a side and price. *)
RowIs(c, s, p, v) == IF c.index[s][p] = none THEN v = <<>> ELSE Line(c, c.index[s][p], v)

(* Changing the row of one side and price. *)
LEMMA RowChanges ==
    ASSUME NEW b, NEW c, NEW W, Lines(b, W), NEW s \in Sides, NEW p \in Prices,
           NEW v \in Seq(OrderIndex), RowIs(c, s, p, v), OthersStay(b, c, s, p)
    PROVE  Lines(c, [W EXCEPT ![s][p] = v])
  <1> DEFINE V == [W EXCEPT ![s][p] = v]
  <1>1. W \in [Sides -> [Prices -> Seq(OrderIndex)]] BY DEF Lines
  <1>2. /\ V \in [Sides -> [Prices -> Seq(OrderIndex)]] /\ V[s][p] = v
        /\ \A t \in Sides, r \in Prices : ~(t = s /\ r = p) => V[t][r] = W[t][r]
    BY <1>1
  <1> HIDE DEF V
  <1>3. ASSUME NEW t \in Sides, NEW r \in Prices
        PROVE  IF c.index[t][r] = none THEN V[t][r] = <<>> ELSE Line(c, c.index[t][r], V[t][r])
    <2>1. CASE t = s /\ r = p BY <1>2, <2>1 DEF RowIs
    <2>2. CASE ~(t = s /\ r = p)
      <3>1. V[t][r] = W[t][r] /\ c.index[t][r] = b.index[t][r] BY <1>2, <2>2 DEF OthersStay
      <3>2. CASE b.index[t][r] = none
        <4>1. W[t][r] = <<>> BY <3>2 DEF Lines
        <4> QED BY <3>1, <3>2, <4>1
      <3>3. CASE b.index[t][r] # none
        <4>1. Line(b, b.index[t][r], W[t][r]) BY <3>3 DEF Lines
        <4>2. Line(c, b.index[t][r], W[t][r]) BY <2>2, <3>3, <4>1, LineStays DEF OthersStay
        <4> QED BY <3>1, <3>3, <4>2
      <3> QED BY <3>2, <3>3
    <2> QED BY <2>1, <2>2
  <1>4. Lines(c, V) BY <1>2, <1>3 DEF Lines
  <1> QED BY <1>4 DEF V
-----------------------------------------------------------------------------
(* level_get_or_add() prepares a level with an empty row, or nothing. *)
LEMMA LevelLines ==
    ASSUME NEW b, BookInv(b), NEW W, Lines(b, W), NEW side \in Sides, NEW p \in Prices,
           b.index[side][p] # none \/ b.free_level # <<>>,
           NEW a, a = level_get_or_add(b, side, p)
    PROVE  Lines(a, W)
  <1>1. CASE b.index[side][p] # none
    BY <1>1 DEF level_get_or_add, level_find
  <1>2. CASE b.index[side][p] = none
    <2> DEFINE n == Head(b.free_level)
    <2>0. b \in BookType /\ IndexAgrees(b) BY DEF BookInv, Nearly
    <2>1. /\ a.orders = b.orders
          /\ a.levels = [b.levels EXCEPT ![n] = [BlankLevel EXCEPT !.price = p, !.active = TRUE]]
          /\ a.index = [b.index EXCEPT ![side][p] = n]
      BY <1>2, <2>0 DEF level_get_or_add, level_find, BookType
    <2>2. n \in LevelIndex /\ ~b.levels[n].active
      <3> DEFINE F == {l \in LevelIndex : ~b.levels[l].active}
      <3>1. Lists(b.free_level, F) /\ b.free_level \in Seq(LevelIndex) /\ b.free_level # <<>>
        BY <1>2, <2>0, BookFields DEF BookInv, Nearly, PoolsWhole
      <3>2. n \in F
        <4> HIDE DEF F
        <4> QED BY <3>1, TakeListed
      <3> QED BY <3>2
    <2> HIDE DEF n
    <2>3. /\ \A l \in LevelIndex : l # n => a.levels[l] = b.levels[l]
          /\ a.levels[n].head = none
          /\ \A s \in Sides, r \in Prices :
                a.index[s][r] = IF s = side /\ r = p THEN n ELSE b.index[s][r]
      <3>1. a.levels[n] = [BlankLevel EXCEPT !.price = p, !.active = TRUE]
        BY <2>0, <2>1, <2>2, BookFields
      <3>2. a.levels[n].head = none BY <3>1 DEF BlankLevel
      <3> QED BY <2>0, <2>1, <2>2, <3>2, BookFields
    <2>4. \A l : Members(a, l) = Members(b, l) BY <2>1 DEF Live, Members
    <2>5. \A s \in Sides, r \in Prices : b.index[s][r] # n
      BY <2>0, <2>2, IndexFacts DEF IndexAgrees
    <2>6. Members(b, n) = {} BY <2>0, <2>5 DEF IndexAgrees, Members
    <2>7. a.index[side][p] = n /\ n # none BY <2>2, <2>3, IndexFacts
    <2>8. Line(a, n, <<>>) BY <2>3, <2>4, <2>6 DEF Line, Lists
    <2>9. OthersStay(b, a, side, p)
      <3>1. \A s \in Sides, r \in Prices : b.index[s][r] # none => b.index[s][r] \in LevelIndex
        BY <2>0, BookFields
      <3> QED BY <2>1, <2>3, <2>4, <2>5, <3>1 DEF OthersStay
    <2>10. Lines(a, [W EXCEPT ![side][p] = <<>>])
      <3>1. <<>> \in Seq(OrderIndex) OBVIOUS
      <3>2. RowIs(a, side, p, <<>>) BY <2>7, <2>8 DEF RowIs
      <3> QED BY <2>9, <3>1, <3>2, RowChanges
    <2>11. [W EXCEPT ![side][p] = <<>>] = W
      <3>1. W \in [Sides -> [Prices -> Seq(OrderIndex)]] /\ W[side][p] = <<>> BY <1>2 DEF Lines
      <3> QED BY ONLY <3>1, side \in Sides, p \in Prices
    <2> QED BY <2>10, <2>11
  <1> QED BY <1>1, <1>2

(* From b to c, orders other than o keep their id and quantity. *)
Kept(b, c, o) == \A x \in Live(b) : x # o => c.orders[x].id = b.orders[x].id
                                            /\ c.orders[x].quantity = b.orders[x].quantity

(* From b to c, the new order o joins its row at the end. *)
Joins(b, c, W, o, s, p, id, q) ==
    /\ o \in OrderIndex /\ o \notin Live(b)
    /\ Lines(c, [W EXCEPT ![s][p] = Append(W[s][p], o)])
    /\ c.orders[o].id = id /\ c.orders[o].quantity = q /\ Kept(b, c, o)

(* append() puts the order at the end of its row. *)
LEMMA RestLines ==
    ASSUME NEW a, NEW c, NEW W, Lines(a, W), NEW id \in Ids, NEW side \in Sides,
           NEW p \in Prices, NEW q \in Quantities, NEW l \in LevelIndex, l = a.index[side][p],
           Nearly(a, l, none), a.free_order # <<>>,
           NEW o, o = Head(a.free_order), Rests(a, c, o, l, id, side, q, p)
    PROVE  Joins(a, c, W, o, side, p, id, q)
  <1> DEFINE t == a.levels[l].tail
             w == W[side][p]
             v == Append(w, o)
  <1>1. a \in BookType /\ IndexAgrees(a) BY DEF Nearly
  <1>2. o \in OrderIndex /\ o \notin Live(a)
    <2>1. Lists(a.free_order, OrderIndex \ Live(a)) /\ a.free_order \in Seq(OrderIndex)
      BY <1>1, BookFields DEF Nearly, PoolsWhole
    <2>2. o \in OrderIndex \ Live(a) BY <2>1, TakeListed
    <2> QED BY <2>2
  <1>3. Line(a, l, w) /\ w \in Seq(OrderIndex) /\ l # none BY IndexFacts DEF Lines, Line
  <1>4. /\ \A x \in OrderIndex : x # o =>
              /\ c.orders[x].id = a.orders[x].id /\ c.orders[x].quantity = a.orders[x].quantity
              /\ c.orders[x].level = a.orders[x].level /\ c.orders[x].active = a.orders[x].active
              /\ c.orders[x].next = IF x = t THEN o ELSE a.orders[x].next
        /\ c.orders[o].id = id /\ c.orders[o].quantity = q /\ c.orders[o].level = l
        /\ c.orders[o].active /\ c.orders[o].next = none
    <2>1. ASSUME NEW x \in OrderIndex, x # o
          PROVE  /\ c.orders[x].id = a.orders[x].id /\ c.orders[x].quantity = a.orders[x].quantity
                 /\ c.orders[x].level = a.orders[x].level
                 /\ c.orders[x].active = a.orders[x].active
                 /\ c.orders[x].next = IF x = t THEN o ELSE a.orders[x].next
      <3>1. CASE x = t
        <4>1. t # none /\ a.orders[t] \in OrderType BY <1>1, <3>1, IndexFacts, BookFields
        <4>2. c.orders[t] = [a.orders[t] EXCEPT !.next = o] BY <4>1 DEF Rests
        <4> QED BY <3>1, <4>1, <4>2 DEF OrderType
      <3>2. CASE x # t BY <2>1, <3>2 DEF Rests
      <3> QED BY <3>1, <3>2
    <2> QED BY <2>1 DEF Rests
  <1>5. /\ c.index = a.index /\ \A k \in LevelIndex : k # l => c.levels[k] = a.levels[k]
        /\ c.levels[l].head = IF t = none THEN o ELSE a.levels[l].head
    BY <1>1 DEF Rests, BookType
  <1> HIDE DEF t, w, v
  <1>6. /\ Members(c, l) = Members(a, l) \cup {o} /\ o \notin Members(a, l)
        /\ \A k : k # l => Members(c, k) = Members(a, k)
    <2>1. \A x \in Live(a) : x \in OrderIndex /\ x # o BY <1>2 DEF Live
    <2>2. Live(c) = Live(a) \cup {o} BY ONLY <1>2, <1>4 DEF Live
    <2> QED BY ONLY <1>2, <1>4, <2>1, <2>2 DEF Members
  <1>7. /\ w = <<>> => t = none
        /\ w # <<>> => t # none /\ t = w[Len(w)]
        /\ a.levels[l].head = IF w = <<>> THEN none ELSE w[1]
        /\ \A k \in 1 .. Len(w) : /\ w[k] \in Members(a, l) /\ w[k] \in OrderIndex /\ w[k] # o
                                  /\ a.orders[w[k]].next = IF k < Len(w) THEN w[k + 1] ELSE none
    <2>1. /\ Lists(w, Members(a, l)) /\ a.levels[l].head = IF w = <<>> THEN none ELSE w[1]
          /\ \A k \in 1 .. Len(w) : a.orders[w[k]].next = IF k < Len(w) THEN w[k + 1] ELSE none
          /\ DOMAIN w = 1 .. Len(w)
      BY <1>3 DEF Line
    <2>2. \A k \in 1 .. Len(w) : w[k] \in Members(a, l) /\ w[k] \in OrderIndex /\ w[k] # o
      BY <1>2, <2>1 DEF Lists, Members, Live
    <2>3. a.levels[l].active BY <1>1, <1>3 DEF IndexAgrees
    <2>4. QueueAt(a, l) BY <2>3 DEF Nearly
    <2>5. ASSUME w = <<>> PROVE t = none
      <3>1. Members(a, l) = {} BY <2>1, <2>5 DEF Lists
      <3> QED BY <2>4, <3>1 DEF QueueAt, t
    <2>6. ASSUME w # <<>> PROVE t # none /\ t = w[Len(w)]
      <3>1. 1 \in 1 .. Len(w) BY <1>3, <2>6
      <3>2. Members(a, l) # {} BY <2>2, <3>1
      <3>3. t \in Members(a, l) /\ a.orders[t].next = none BY <2>4, <3>2 DEF QueueAt, EndsAt, t
      <3>4. PICK k \in 1 .. Len(w) : w[k] = t BY <2>1, <3>3 DEF Lists
      <3>5. k = Len(w)
        <4> SUFFICES ASSUME k # Len(w) PROVE FALSE OBVIOUS
        <4>1. k < Len(w) /\ k + 1 \in 1 .. Len(w) BY <1>3
        <4>2. w[k + 1] # none BY <2>2, <4>1, IndexFacts
        <4> QED BY <2>1, <3>3, <3>4, <4>1, <4>2
      <3>6. t # none BY <3>3, IndexFacts DEF Members, Live
      <3> QED BY <3>4, <3>5, <3>6
    <2> QED BY <2>1, <2>2, <2>5, <2>6
  <1>8. /\ v \in Seq(OrderIndex) /\ Len(w) \in Nat /\ Len(v) = Len(w) + 1
        /\ \A k \in 1 .. Len(w) : v[k] = w[k]
        /\ v[Len(w) + 1] = o /\ v # <<>>
    BY <1>2, <1>3 DEF v
  <1>9. Line(c, l, v)
    <2>1. Lists(v, Members(c, l))
      <3>0. Lists(w, Members(a, l)) /\ DOMAIN w = 1 .. Len(w) /\ DOMAIN v = 1 .. Len(w) + 1
        BY <1>3, <1>8 DEF Line
      <3>1. \A i \in DOMAIN v : i \in 1 .. Len(w) \/ i = Len(w) + 1 BY <1>8, <3>0
      <3>2. \A i \in DOMAIN v : v[i] \in Members(c, l) BY ONLY <1>6, <1>7, <1>8, <3>1
      <3>3. ASSUME NEW x \in Members(c, l) PROVE \E i \in DOMAIN v : v[i] = x
        <4>1. CASE x = o
          <5>1. Len(w) + 1 \in DOMAIN v BY <1>8, <3>0
          <5> QED BY <1>8, <4>1, <5>1
        <4>2. CASE x # o
          <5>1. PICK i \in 1 .. Len(w) : w[i] = x BY <1>6, <3>0, <4>2 DEF Lists
          <5>2. i \in DOMAIN v BY <1>8, <3>0
          <5> QED BY <1>8, <5>1, <5>2
        <4> QED BY <4>1, <4>2
      <3>4. ASSUME NEW i \in DOMAIN v, NEW j \in DOMAIN v, v[i] = v[j] PROVE i = j
        <4>1. CASE i \in 1 .. Len(w) /\ j \in 1 .. Len(w)
          <5>1. w[i] = w[j] BY <1>8, <3>4, <4>1
          <5> QED BY <3>0, <4>1, <5>1 DEF Lists
        <4>2. CASE i = Len(w) + 1 \/ j = Len(w) + 1 BY <1>7, <1>8, <3>1, <3>4, <4>2
        <4> QED BY <3>1, <4>1, <4>2
      <3> QED BY <3>2, <3>3, <3>4 DEF Lists
    <2>2. c.levels[l].head = v[1]
      <3>1. CASE w = <<>>
        <4>1. Len(w) = 0 BY <3>1
        <4>2. v[1] = o BY <1>8, <4>1
        <4> QED BY <1>5, <1>7, <3>1, <4>2
      <3>2. CASE w # <<>>
        <4>1. 1 \in 1 .. Len(w) BY <1>3, <3>2
        <4> QED BY <1>5, <1>7, <1>8, <3>2, <4>1
      <3> QED BY <3>1, <3>2
    <2>3. ASSUME NEW k \in 1 .. Len(v)
          PROVE  c.orders[v[k]].next = IF k < Len(v) THEN v[k + 1] ELSE none
      <3>1. CASE k = Len(w) + 1 BY <1>4, <1>8, <3>1
      <3>2. CASE k = Len(w) /\ k \in 1 .. Len(w)
        <4>1. w # <<>> BY <3>2
        <4>2. v[k] = t /\ t \in OrderIndex /\ t # o BY <1>7, <1>8, <3>2, <4>1
        <4>3. k < Len(v) /\ v[k + 1] = o BY <1>8, <3>2
        <4> QED BY <1>4, <4>2, <4>3
      <3>3. CASE k < Len(w)
        <4>1. k \in 1 .. Len(w) /\ k + 1 \in 1 .. Len(w) /\ Len(w) \in 1 .. Len(w) /\ w # <<>>
              /\ k < Len(v)
          BY <1>8, <3>3
        <4>2. w[k] # t
          <5>1. Lists(w, Members(a, l)) /\ DOMAIN w = 1 .. Len(w) BY <1>3 DEF Line
          <5>2. t = w[Len(w)] BY <1>7, <4>1
          <5>3. w[k] = w[Len(w)] => k = Len(w) BY ONLY <4>1, <5>1 DEF Lists
          <5> QED BY <1>8, <3>3, <5>2, <5>3
        <4>3. v[k] = w[k] /\ v[k + 1] = w[k + 1] BY <1>8, <4>1
        <4>4. c.orders[w[k]].next = a.orders[w[k]].next BY <1>4, <1>7, <4>1, <4>2
        <4>5. a.orders[w[k]].next = w[k + 1] BY <1>7, <3>3, <4>1
        <4> QED BY <4>1, <4>3, <4>4, <4>5
      <3> QED BY <1>8, <3>1, <3>2, <3>3
    <2> QED BY <1>8, <2>1, <2>2, <2>3 DEF Line
  <1>10. OthersStay(a, c, side, p)
    <2> SUFFICES ASSUME NEW s \in Sides, NEW r \in Prices, ~(s = side /\ r = p),
                        a.index[s][r] # none
                 PROVE  /\ Members(c, a.index[s][r]) = Members(a, a.index[s][r])
                        /\ c.levels[a.index[s][r]].head = a.levels[a.index[s][r]].head
                        /\ \A x \in Members(a, a.index[s][r]) :
                              c.orders[x].next = a.orders[x].next
      BY <1>5 DEF OthersStay
    <2> DEFINE k == a.index[s][r]
    <2>1. k \in LevelIndex BY <1>1, BookFields
    <2>2. k # l
      BY ONLY <1>1, a.index[s][r] # none, ~(s = side /\ r = p), s \in Sides, r \in Prices,
              side \in Sides, p \in Prices, l = a.index[side][p] DEF IndexAgrees
    <2> HIDE DEF k
    <2>3. ASSUME NEW x \in Members(a, k) PROVE c.orders[x].next = a.orders[x].next
      <3>1. x \in OrderIndex /\ x # o /\ a.orders[x].level # l
        BY <1>2, <2>2 DEF Members, Live
      <3>2. x # t
        <4>1. CASE w = <<>> BY <1>7, <3>1, <4>1, IndexFacts
        <4>2. CASE w # <<>>
          <5>1. Len(w) \in 1 .. Len(w) BY <1>3, <4>2
          <5>2. t \in Members(a, l) BY <1>7, <4>2, <5>1
          <5> QED BY <3>1, <5>2 DEF Members
        <4> QED BY <4>1, <4>2
      <3> QED BY <1>4, <3>1, <3>2
    <2>4. Members(c, k) = Members(a, k) /\ c.levels[k].head = a.levels[k].head
      BY <1>5, <1>6, <2>1, <2>2
    <2> QED BY <2>3, <2>4 DEF k
  <1>11. Lines(c, [W EXCEPT ![side][p] = v])
    <2>1. RowIs(c, side, p, v) BY <1>3, <1>5, <1>9 DEF RowIs
    <2> QED BY <1>8, <1>10, <2>1, RowChanges
  <1>12. Kept(a, c, o) BY <1>4 DEF Live, Kept
  <1> QED BY <1>2, <1>4, <1>11, <1>12 DEF v, w, Joins

(* unlink() closes the gap: the row goes on without the order. *)
LEMMA LeaveLines ==
    ASSUME NEW b, NEW d, NEW o, Nearly(b, none, o), o \in Live(b), Leaves(b, d, o),
           NEW W, Lines(b, W), NEW s \in Sides, NEW p \in Prices,
           NEW k \in 1 .. Len(W[s][p]), W[s][p][k] = o
    PROVE  /\ Lines(d, [W EXCEPT ![s][p] = Cut(W[s][p], k)])
           /\ Kept(b, d, o)
  <1> DEFINE l      == b.index[s][p]
             w      == W[s][p]
             n      == Len(w)
             v      == Cut(w, k)
             before == b.orders[o].prev
             after  == b.orders[o].next
  <1>1. b \in BookType /\ IndexAgrees(b) /\ LinksAgree(b) /\ Ranked(b) BY DEF Nearly
  <1>2. /\ l = b.orders[o].level /\ l \in LevelIndex /\ l # none
        /\ b.orders[o].side = s /\ b.orders[o].price = p
    <2>1. b.orders[o].side = s /\ b.orders[o].price = p
      <3>1. \A i \in 1 .. Len(w) :
               w[i] \in Live(b) /\ b.orders[w[i]].side = s /\ b.orders[w[i]].price = p
        <4>1. w = W[s][p] OBVIOUS
        <4> HIDE DEF w
        <4> QED BY <4>1, RowFacts
      <3> QED BY <3>1
    <2>2. b.index[s][p] = b.orders[o].level /\ b.orders[o].level \in LevelIndex
      BY <2>1, OrderPlaced
    <2> QED BY <2>1, <2>2, IndexFacts
  <1>3. /\ w \in Seq(OrderIndex) /\ n \in Nat /\ k \in 1 .. n /\ w[k] = o /\ DOMAIN w = 1 .. n
        /\ b.levels[l].head = IF w = <<>> THEN none ELSE w[1]
        /\ Lists(w, Members(b, l))
        /\ \A i \in 1 .. n : b.orders[w[i]].next = IF i < n THEN w[i + 1] ELSE none
    BY <1>2 DEF Lines, Line
  <1>4. /\ \A i \in 1 .. n : w[i] \in Members(b, l) /\ w[i] \in OrderIndex /\ w[i] # none
                             /\ w[i] \in Live(b)
        /\ \A i, j \in 1 .. n : w[i] = w[j] => i = j
    <2>1. \A x \in Members(b, l) : x \in OrderIndex /\ x # none /\ x \in Live(b)
      BY IndexFacts DEF Members, Live
    <2> HIDE DEF l, w, n
    <2> QED BY ONLY <1>3, <2>1 DEF Lists
  <1>5. /\ before # none => before \in Members(b, l) /\ before # o /\ b.orders[before].next = o
        /\ after # none => after \in Members(b, l) /\ after # o /\ b.orders[after].prev = o
        /\ before # none => before # after
    <2>1. /\ before = b.orders[o].prev /\ after = b.orders[o].next /\ l = b.orders[o].level
      BY <1>2
    <2> HIDE DEF before, after, l
    <2> QED BY <1>1, <2>1, Neighbours
  <1>6. /\ \A x \in OrderIndex : x # o =>
              /\ d.orders[x].id = b.orders[x].id /\ d.orders[x].quantity = b.orders[x].quantity
              /\ d.orders[x].level = b.orders[x].level /\ d.orders[x].active = b.orders[x].active
              /\ d.orders[x].next = IF x = before THEN after ELSE b.orders[x].next
        /\ ~d.orders[o].active
    <2>1. ASSUME NEW x \in OrderIndex, x # o
          PROVE  /\ d.orders[x].id = b.orders[x].id
                 /\ d.orders[x].quantity = b.orders[x].quantity
                 /\ d.orders[x].level = b.orders[x].level
                 /\ d.orders[x].active = b.orders[x].active
                 /\ d.orders[x].next = IF x = before THEN after ELSE b.orders[x].next
      <3>0. b.orders[x] \in OrderType /\ x # none BY <1>1, BookFields, IndexFacts
      <3>1. CASE x = before
        <4>1. d.orders[before] = [b.orders[before] EXCEPT !.next = after]
          BY <3>0, <3>1 DEF Leaves
        <4> HIDE DEF before, after
        <4> QED BY <3>0, <3>1, <4>1 DEF OrderType
      <3>2. CASE x = after /\ x # before
        <4>1. d.orders[after] = [b.orders[after] EXCEPT !.prev = before]
          BY <3>0, <3>2 DEF Leaves
        <4> HIDE DEF before, after
        <4> QED BY <3>0, <3>2, <4>1 DEF OrderType
      <3>3. CASE x # after /\ x # before BY <2>1, <3>3 DEF Leaves
      <3> QED BY <3>1, <3>2, <3>3
    <2>2. ~d.orders[o].active BY BlankFacts DEF Leaves
    <2> QED BY <2>1, <2>2
  <1>7. /\ d.index = b.index /\ \A j \in LevelIndex : j # l => d.levels[j] = b.levels[j]
        /\ d.levels[l].head = IF before = none THEN after ELSE b.levels[l].head
    BY <1>1, <1>2 DEF Leaves, BookType
  <1>8. /\ Members(d, l) = Members(b, l) \ {o}
        /\ \A j : j # l => Members(d, j) = Members(b, j)
    <2>1. Live(d) = Live(b) \ {o} BY ONLY <1>6 DEF Live
    <2>2. \A x \in Live(b) : x \in OrderIndex BY DEF Live
    <2>3. b.orders[o].level = l BY <1>2
    <2> HIDE DEF l, before, after
    <2> QED BY ONLY <1>6, <2>1, <2>2, <2>3 DEF Members
  <1>9. after = IF k < n THEN w[k + 1] ELSE none BY <1>3
  <1>10. before = IF k = 1 THEN none ELSE w[k - 1]
    <2>1. CASE k = 1
      <3> SUFFICES ASSUME before # none PROVE FALSE BY <2>1
      <3>1. before \in Members(b, l) /\ b.orders[before].next = o BY <1>5
      <3>2. PICK j \in 1 .. n : w[j] = before BY <1>3, <3>1 DEF Lists
      <3>3. o = IF j < n THEN w[j + 1] ELSE none BY <1>3, <3>1, <3>2
      <3>4. j < n /\ j + 1 \in 1 .. n BY <1>3, <1>4, <3>3
      <3>5. j + 1 = k BY <1>3, <1>4, <3>3, <3>4
      <3> QED BY <2>1, <3>4, <3>5
    <2>2. CASE k # 1
      <3>1. k - 1 \in 1 .. n /\ k - 1 < n /\ k - 1 + 1 = k BY <1>3, <2>2
      <3>2. w[k - 1] \in Live(b) /\ b.orders[w[k - 1]].next = o /\ o # none
        BY <1>3, <1>4, <3>1
      <3>3. b.orders[o].prev = w[k - 1] BY <1>1, <3>2 DEF LinksAgree
      <3> QED BY <2>2, <3>3
    <2> QED BY <2>1, <2>2
  <1> HIDE DEF l, w, n, before, after
  <1> DEFINE pos(i) == IF i < k THEN i ELSE i + 1
  <1>11. /\ v \in Seq(OrderIndex) /\ Len(v) = n - 1 /\ DOMAIN v = 1 .. n - 1
         /\ \A i \in 1 .. n - 1 : v[i] = w[pos(i)] /\ pos(i) \in 1 .. n /\ pos(i) # k
         /\ v = <<>> <=> n = 1
    <2>1. /\ v \in Seq(OrderIndex) /\ Len(v) = n - 1
          /\ \A i \in 1 .. n - 1 : v[i] = IF i < k THEN w[i] ELSE w[i + 1]
      BY <1>3, CutIs DEF n
    <2>2. DOMAIN v = 1 .. n - 1 BY <2>1
    <2>3. v = <<>> <=> n = 1
      <3>1. v = <<>> <=> Len(v) = 0
        <4> HIDE DEF v
        <4> QED BY <2>1, EmptySeq
      <3> QED BY <1>3, <2>1, <3>1
    <2> HIDE DEF v
    <2> QED BY <1>3, <2>1, <2>2, <2>3
  <1> HIDE DEF v
  <1>12. Lists(v, Members(d, l))
    <2>1. \A i \in DOMAIN v : v[i] \in Members(d, l)
      BY ONLY <1>3, <1>4, <1>8, <1>11
    <2>2. ASSUME NEW x \in Members(d, l) PROVE \E i \in DOMAIN v : v[i] = x
      <3>1. PICK j \in 1 .. n : w[j] = x BY <1>3, <1>8, <2>2 DEF Lists
      <3>2. j # k BY <1>3, <1>8, <2>2, <3>1
      <3>3. CASE j < k
        <4>1. j \in 1 .. n - 1 /\ pos(j) = j BY <1>3, <3>3
        <4> QED BY <1>11, <3>1, <4>1
      <3>4. CASE ~(j < k)
        <4>1. j - 1 \in 1 .. n - 1 /\ pos(j - 1) = j BY <1>3, <3>2, <3>4
        <4> QED BY <1>11, <3>1, <4>1
      <3> QED BY <3>3, <3>4
    <2>3. ASSUME NEW i \in DOMAIN v, NEW j \in DOMAIN v, v[i] = v[j] PROVE i = j
      <3>1. pos(i) = pos(j) BY <1>4, <1>11, <2>3
      <3>2. i \in 1 .. n - 1 /\ j \in 1 .. n - 1 BY <1>11
      <3> QED BY <1>3, <3>1, <3>2
    <2> QED BY <2>1, <2>2, <2>3 DEF Lists
  <1>13. d.levels[l].head = IF v = <<>> THEN none ELSE v[1]
    <2>1. CASE k = 1
      <3>1. d.levels[l].head = IF 1 < n THEN w[2] ELSE none BY <1>7, <1>9, <1>10, <2>1
      <3>2. CASE n = 1 BY <1>11, <3>1, <3>2
      <3>3. CASE n # 1
        <4>1. 1 \in 1 .. n - 1 /\ pos(1) = 2 /\ 1 < n BY <1>3, <2>1, <3>3
        <4> QED BY <1>11, <3>1, <3>3, <4>1
      <3> QED BY <3>2, <3>3
    <2>2. CASE k # 1
      <3>1. before # none /\ n # 1 /\ 1 \in 1 .. n - 1 /\ pos(1) = 1
        <4>1. k - 1 \in 1 .. n BY <1>3, <2>2
        <4> QED BY <1>3, <1>4, <1>10, <2>2, <4>1
      <3>2. w # <<>> BY <1>3
      <3> QED BY <1>3, <1>7, <1>11, <3>1, <3>2
    <2> QED BY <2>1, <2>2
  <1>14. ASSUME NEW i \in 1 .. n - 1
         PROVE  d.orders[v[i]].next = IF i < n - 1 THEN v[i + 1] ELSE none
    <2> DEFINE j == pos(i)
    <2>1. v[i] = w[j] /\ j \in 1 .. n /\ j # k BY <1>11
    <2>2. w[j] \in OrderIndex /\ w[j] # o BY <1>3, <1>4, <2>1
    <2>3. d.orders[w[j]].next = IF w[j] = before THEN after ELSE b.orders[w[j]].next
      BY <1>6, <2>2
    <2>4. b.orders[w[j]].next = IF j < n THEN w[j + 1] ELSE none BY <1>3, <2>1
    <2>5. i < n - 1 => i + 1 \in 1 .. n - 1 /\ v[i + 1] = w[pos(i + 1)]
      <3>1. i < n - 1 => i + 1 \in 1 .. n - 1 BY <1>3
      <3> QED BY <1>11, <3>1
    <2>6. CASE i = k - 1
      <3>1. j = k - 1 /\ k # 1 /\ pos(i + 1) = k + 1 /\ (i < n - 1 <=> k < n) BY <1>3, <2>6
      <3>2. w[j] = before BY <1>10, <3>1
      <3> HIDE DEF j, pos
      <3> QED BY <1>9, <2>1, <2>3, <2>5, <3>1, <3>2
    <2>7. CASE i # k - 1
      <3>1. /\ pos(i + 1) = j + 1 /\ (i < n - 1 <=> j < n) BY <1>3, <2>7
      <3>2. w[j] # before
        <4>1. CASE k = 1 BY <1>4, <1>10, <2>1, <4>1
        <4>2. CASE k # 1
          <5>1. k - 1 \in 1 .. n /\ j # k - 1 BY <1>3, <2>7, <4>2
          <5> QED BY <1>4, <1>10, <2>1, <4>2, <5>1
        <4> QED BY <4>1, <4>2
      <3> HIDE DEF j, pos
      <3> QED BY <2>1, <2>3, <2>4, <2>5, <3>1, <3>2
    <2> QED BY <2>6, <2>7
  <1>15. Line(d, l, v)
    <2>1. 1 .. Len(v) = 1 .. n - 1 BY <1>11
    <2> HIDE DEF pos
    <2> QED BY <1>11, <1>12, <1>13, <1>14, <2>1 DEF Line
  <1> HIDE DEF pos
  <1>16. OthersStay(b, d, s, p)
    <2> SUFFICES ASSUME NEW t \in Sides, NEW r \in Prices, ~(t = s /\ r = p), b.index[t][r] # none
                 PROVE  /\ Members(d, b.index[t][r]) = Members(b, b.index[t][r])
                        /\ d.levels[b.index[t][r]].head = b.levels[b.index[t][r]].head
                        /\ \A x \in Members(b, b.index[t][r]) :
                              d.orders[x].next = b.orders[x].next
      BY <1>7 DEF OthersStay
    <2> DEFINE m == b.index[t][r]
    <2>1. m \in LevelIndex BY <1>1, BookFields
    <2>2. m # l
      BY ONLY <1>1, b.index[t][r] # none, ~(t = s /\ r = p), s \in Sides, p \in Prices,
              t \in Sides, r \in Prices DEF IndexAgrees, l
    <2> HIDE DEF m
    <2>3. ASSUME NEW x \in Members(b, m) PROVE d.orders[x].next = b.orders[x].next
      <3>1. x \in OrderIndex /\ b.orders[x].level = m BY DEF Members, Live
      <3>2. x # o BY <1>2, <2>2, <3>1
      <3>3. x # before
        <4>1. before # none => b.orders[before].level = l BY <1>5 DEF Members
        <4> QED BY <2>2, <3>1, <4>1, IndexFacts
      <3> QED BY <1>6, <3>1, <3>2, <3>3
    <2>4. Members(d, m) = Members(b, m) /\ d.levels[m].head = b.levels[m].head
      BY <1>7, <1>8, <2>1, <2>2
    <2> QED BY <2>3, <2>4 DEF m
  <1>17. Lines(d, [W EXCEPT ![s][p] = v])
    <2>1. d.index[s][p] = l BY <1>7 DEF l
    <2>2. RowIs(d, s, p, v) BY <1>2, <1>15, <2>1 DEF RowIs
    <2> QED BY <1>11, <1>16, <2>2, RowChanges
  <1>18. Kept(b, d, o) BY <1>6 DEF Live, Kept
  <1> QED BY <1>17, <1>18 DEF v, w

(* remove_if_empty() takes away only a level with an empty row. *)
LEMMA GoneLines ==
    ASSUME NEW d, NEW side \in Sides, NEW p \in Prices, NEW l \in LevelIndex,
           l = d.index[side][p], Nearly(d, l, none), NEW c, c = remove_if_empty(d, side, l),
           NEW V, Lines(d, V)
    PROVE  Lines(c, V) /\ c.orders = d.orders
  <1>0. d \in BookType /\ IndexAgrees(d) BY DEF Nearly
  <1>1. CASE d.levels[l].order_count # 0
    <2>1. c = d BY <1>1 DEF remove_if_empty
    <2> QED BY <2>1
  <1>2. CASE d.levels[l].order_count = 0
    <2>1. d.levels[l].active /\ d.levels[l].price = p /\ l # none
      BY <1>0, IndexFacts DEF IndexAgrees
    <2>2. Members(d, l) = {}
      <3>1. TotalsAt(d, l) BY <2>1 DEF Nearly
      <3> QED BY <1>2, <3>1, SlotsFinite, FS_EmptySet DEF TotalsAt
    <2>3. c = [d EXCEPT !.index[side][p] = none, !.levels[l] = BlankLevel,
                        !.free_level = <<l>> \o @, !.active_levels = @ - 1]
      BY <1>2, <2>1 DEF remove_if_empty, level_remove
    <2>4. /\ c.orders = d.orders /\ c.levels = [d.levels EXCEPT ![l] = BlankLevel]
          /\ c.index = [d.index EXCEPT ![side][p] = none]
      BY <1>0, <2>3 DEF BookType
    <2>5. /\ \A k \in LevelIndex : k # l => c.levels[k] = d.levels[k]
          /\ \A s \in Sides, w \in Prices :
                c.index[s][w] = IF s = side /\ w = p THEN none ELSE d.index[s][w]
      <3>1. d.levels \in [LevelIndex -> LevelType]
            /\ d.index \in [Sides -> [Prices -> LevelIndex \cup {none}]]
        BY <1>0, BookFields
      <3> QED BY ONLY <2>4, <3>1
    <2>6. \A k : Members(c, k) = Members(d, k) BY <2>4 DEF Live, Members
    <2>7. OthersStay(d, c, side, p)
      <3> SUFFICES ASSUME NEW t \in Sides, NEW r \in Prices, ~(t = side /\ r = p)
                   PROVE  /\ c.index[t][r] = d.index[t][r]
                          /\ d.index[t][r] # none =>
                                c.levels[d.index[t][r]].head = d.levels[d.index[t][r]].head
        BY <2>4, <2>6 DEF OthersStay
      <3>1. c.index[t][r] = d.index[t][r] BY <2>5
      <3>2. d.index[t][r] # none => d.index[t][r] \in LevelIndex BY <1>0, BookFields
      <3>3. d.index[t][r] # none => d.index[t][r] # l
        BY ONLY <1>0, ~(t = side /\ r = p), side \in Sides, p \in Prices,
                t \in Sides, r \in Prices, l = d.index[side][p] DEF IndexAgrees
      <3> QED BY <2>5, <3>1, <3>2, <3>3
    <2>8. V[side][p] = <<>> /\ V \in [Sides -> [Prices -> Seq(OrderIndex)]]
      <3>1. Line(d, l, V[side][p]) /\ V \in [Sides -> [Prices -> Seq(OrderIndex)]]
        BY <2>1 DEF Lines
      <3> DEFINE w == V[side][p]
      <3>2. w \in Seq(OrderIndex) /\ DOMAIN w = {} BY <2>2, <3>1 DEF Line, Lists
      <3> HIDE DEF w
      <3>3. w = <<>>
        <4>1. DOMAIN w = 1 .. Len(w) BY <3>2
        <4>2. ~(Len(w) \in Nat \ {0})
          <5> SUFFICES ASSUME Len(w) \in Nat \ {0} PROVE FALSE OBVIOUS
          <5>1. 1 \in 1 .. Len(w) OBVIOUS
          <5> QED BY <3>2, <4>1, <5>1
        <4> QED BY <3>2, <4>2, EmptySeq
      <3> QED BY <3>1, <3>3 DEF w
    <2>9. Lines(c, [V EXCEPT ![side][p] = <<>>])
      <3>1. <<>> \in Seq(OrderIndex) OBVIOUS
      <3>2. RowIs(c, side, p, <<>>) BY <2>5 DEF RowIs
      <3> QED BY <2>7, <3>1, <3>2, RowChanges
    <2>10. [V EXCEPT ![side][p] = <<>>] = V BY ONLY <2>8, side \in Sides, p \in Prices
    <2> QED BY <2>4, <2>9, <2>10
  <1> QED BY <1>1, <1>2

(* From b to c, order o leaves its place, the k-th, in its row. *)
Quits(b, c, W, o, s, p, k) ==
    Lines(c, [W EXCEPT ![s][p] = Cut(W[s][p], k)]) /\ Kept(b, c, o)

(* drop(): the order's row without it, the others as they were. *)
LEMMA DropLines ==
    ASSUME NEW b, NEW o, Nearly(b, none, o), o \in Live(b), NEW c, c = drop(b, o),
           NEW W, Lines(b, W), NEW s \in Sides, NEW p \in Prices,
           NEW k \in 1 .. Len(W[s][p]), W[s][p][k] = o
    PROVE  Quits(b, c, W, o, s, p, k)
  <1>0. b \in BookType /\ IndexAgrees(b) BY DEF Nearly
  <1>1. PICK d : Leaves(b, d, o) /\ c = remove_if_empty(d, b.orders[o].side, b.orders[o].level)
    BY DropLeaves
  <1> DEFINE V == [W EXCEPT ![s][p] = Cut(W[s][p], k)]
             l == b.orders[o].level
  <1>2. Lines(d, V) /\ Kept(b, d, o) BY <1>1, LeaveLines
  <1>3. b.orders[o].side = s /\ b.orders[o].price = p
    <2> DEFINE w == W[s][p]
    <2>1. \A i \in 1 .. Len(w) :
             w[i] \in Live(b) /\ b.orders[w[i]].side = s /\ b.orders[w[i]].price = p
      <3>1. w = W[s][p] OBVIOUS
      <3> HIDE DEF w
      <3> QED BY <3>1, RowFacts
    <2> QED BY <2>1
  <1>4. l \in LevelIndex /\ l = b.index[s][p] BY <1>3, OrderPlaced
  <1>5. d.index = b.index BY <1>0, <1>1 DEF Leaves, BookType
  <1>6. Nearly(d, l, none) BY <1>1, LeaveKeeps
  <1> HIDE DEF V, l
  <1>7. c = remove_if_empty(d, s, l) BY <1>1, <1>3 DEF l
  <1>8. l = d.index[s][p] BY <1>4, <1>5
  <1>9. Lines(c, V) /\ c.orders = d.orders BY <1>2, <1>4, <1>6, <1>7, <1>8, GoneLines
  <1> QED BY <1>2, <1>9 DEF V, Quits, Kept

(* reduce() leaves every order in its place. *)
LEMMA ShrinkLines ==
    ASSUME NEW b, b \in BookType, NEW c, NEW o, NEW q, Shrinks(b, c, o, q), NEW W, Lines(b, W)
    PROVE  Lines(c, W)
  <1>1. Live(c) = Live(b) /\ \A l : Members(c, l) = Members(b, l)
    <2>1. \A x \in OrderIndex : c.orders[x].active = b.orders[x].active
                                /\ c.orders[x].level = b.orders[x].level
      BY DEF Shrinks
    <2> QED BY ONLY <2>1 DEF Live, Members
  <1>2. /\ c.index = b.index /\ \A l \in LevelIndex : c.levels[l].head = b.levels[l].head
        /\ \A x \in OrderIndex : c.orders[x].next = b.orders[x].next
    BY DEF Shrinks
  <1>3. ASSUME NEW s \in Sides, NEW p \in Prices
        PROVE  IF c.index[s][p] = none THEN W[s][p] = <<>> ELSE Line(c, c.index[s][p], W[s][p])
    <2>1. CASE b.index[s][p] = none BY <1>2, <2>1 DEF Lines
    <2>2. CASE b.index[s][p] # none
      <3> DEFINE l == b.index[s][p]
      <3>1. l \in LevelIndex BY <2>2, BookFields
      <3>2. Line(b, l, W[s][p]) BY <2>2 DEF Lines
      <3>3. \A x \in Members(b, l) : x \in OrderIndex BY DEF Members, Live
      <3> HIDE DEF l
      <3>4. Line(c, l, W[s][p]) BY <1>1, <1>2, <3>1, <3>2, <3>3, LineStays
      <3> QED BY <1>2, <2>2, <3>4 DEF l
    <2> QED BY <2>1, <2>2
  <1> QED BY <1>3 DEF Lines

(* add() with everything at hand: a new order at the end of its row. *)
LEMMA AddLines ==
    ASSUME NEW b, BookInv(b), NEW id \in Ids, NEW side \in Sides, NEW q \in Quantities,
           NEW p \in Prices, q # 0, b.lookup[id] = none, b.free_order # <<>>,
           b.index[side][p] # none \/ b.free_level # <<>>,
           NEW W, Lines(b, W), NEW r, r = add(b, id, side, q, p)
    PROVE  /\ r.error = "none"
           /\ \E o : Joins(b, r.book, W, o, side, p, id, q)
  <1> DEFINE a == level_get_or_add(b, side, p)
             o == Head(b.free_order)
             l == a.index[side][p]
             c == r.book
  <1>1. r.error = "none" /\ Rests(a, c, o, l, id, side, q, p) BY AddRests
  <1>2. /\ Nearly(a, l, none) /\ l \in LevelIndex /\ a.orders = b.orders
        /\ a.free_order = b.free_order
    BY LevelReady
  <1>3. Lines(a, W) BY LevelLines
  <1>4. Live(a) = Live(b) BY <1>2 DEF Live
  <1>5. o = Head(a.free_order) /\ a.free_order # <<>> /\ l = a.index[side][p] BY <1>2
  <1> HIDE DEF a, o, l, c
  <1>6. Joins(a, c, W, o, side, p, id, q) BY <1>1, <1>2, <1>3, <1>5, RestLines
  <1>7. Joins(b, c, W, o, side, p, id, q) BY <1>2, <1>4, <1>6 DEF Joins, Kept
  <1> QED BY <1>1, <1>7 DEF c
-----------------------------------------------------------------------------
(* The orders of a row are shown as they are known. *)
LEMMA ShownFacts ==
    ASSUME NEW b, NEW w \in Seq(OrderIndex)
    PROVE  /\ Shown(b, w) \in Seq({Entry(b, x) : x \in OrderIndex})
           /\ Len(Shown(b, w)) = Len(w) /\ Len(w) \in Nat
           /\ Shown(b, w) = [k \in 1 .. Len(w) |-> Shown(b, w)[k]]
           /\ \A k \in 1 .. Len(w) : Shown(b, w)[k] = Entry(b, w[k])
  <1> DEFINE E == {Entry(b, x) : x \in OrderIndex}
             f == Shown(b, w)
  <1>1. Len(w) \in Nat /\ \A k \in 1 .. Len(w) : w[k] \in OrderIndex OBVIOUS
  <1>2. f \in [1 .. Len(w) -> E] BY <1>1 DEF Shown
  <1>3. \A k \in 1 .. Len(w) : f[k] = Entry(b, w[k]) BY DEF Shown
  <1> HIDE DEF f, E
  <1>4. f \in Seq(E) /\ Len(f) = Len(w) BY <1>1, <1>2
  <1>5. f = [k \in 1 .. Len(w) |-> f[k]] BY <1>2
  <1> QED BY <1>1, <1>3, <1>4, <1>5 DEF f, E

(* Orders that keep their id and quantity are shown as before. *)
LEMMA ShownSame ==
    ASSUME NEW b, NEW c, NEW w \in Seq(OrderIndex),
           \A k \in 1 .. Len(w) : Entry(c, w[k]) = Entry(b, w[k])
    PROVE  Shown(c, w) = Shown(b, w)
  BY DEF Shown

(* An order at the end of a row is shown last. *)
LEMMA ShownLast ==
    ASSUME NEW b, NEW c, NEW w \in Seq(OrderIndex), NEW o \in OrderIndex,
           \A k \in 1 .. Len(w) : Entry(c, w[k]) = Entry(b, w[k])
    PROVE  Shown(c, Append(w, o)) = Append(Shown(b, w), Entry(c, o))
  <1> DEFINE e == Entry(c, o)
             v == Append(w, o)
             f == Shown(b, w)
             g == Append(f, e)
             h == Shown(c, v)
             n == Len(w)
  <1>1. /\ v \in Seq(OrderIndex) /\ Len(v) = n + 1 /\ n \in Nat /\ v[n + 1] = o
        /\ \A k \in 1 .. n : v[k] = w[k]
    OBVIOUS
  <1>2. /\ f \in Seq({Entry(b, x) : x \in OrderIndex}) /\ Len(f) = n
        /\ \A k \in 1 .. n : f[k] = Entry(b, w[k])
    BY ShownFacts
  <1> DEFINE E == {Entry(b, x) : x \in OrderIndex} \cup {e}
  <1>3. f \in Seq(E) /\ e \in E
    <2>1. \A k \in 1 .. n : f[k] \in E BY <1>2
    <2>2. f = [k \in 1 .. n |-> f[k]] BY ShownFacts
    <2> HIDE DEF f, E, e
    <2>3. f \in [1 .. n -> E] BY <2>1, <2>2
    <2>4. e \in E BY DEF E
    <2> QED BY <1>1, <2>3, <2>4
  <1> HIDE DEF v, f, E, n, e
  <1>4. /\ g \in Seq(E) /\ Len(g) = n + 1 /\ g[n + 1] = e /\ \A k \in 1 .. n : g[k] = f[k]
        /\ g = [k \in 1 .. n + 1 |-> g[k]]
    <2>1. /\ g \in Seq(E) /\ Len(g) = Len(f) + 1 /\ g[Len(f) + 1] = e
          /\ \A k \in 1 .. Len(f) : g[k] = f[k]
      BY <1>3, AppendProperties
    <2> HIDE DEF g
    <2>2. Len(f) = n BY <1>2
    <2>3. g = [k \in 1 .. Len(g) |-> g[k]] BY <2>1
    <2> QED BY <2>1, <2>2, <2>3
  <1>5. h = [k \in 1 .. n + 1 |-> Entry(c, v[k])] BY <1>1 DEF Shown
  <1> HIDE DEF g, h
  <1>6. ASSUME NEW k \in 1 .. n + 1 PROVE Entry(c, v[k]) = g[k]
    <2>1. CASE k = n + 1 BY <1>1, <1>4, <2>1 DEF e
    <2>2. CASE k # n + 1
      <3>1. k \in 1 .. n BY <1>1, <2>2
      <3>2. Entry(c, w[k]) = Entry(b, w[k]) BY <3>1 DEF n
      <3> QED BY <1>1, <1>2, <1>4, <3>1, <3>2
    <2> QED BY <2>1, <2>2
  <1>7. h = g BY ONLY <1>4, <1>5, <1>6, Zenon
  <1> QED BY <1>7 DEF h, g, f, v, e

(* Without its k-th order the others of a row are shown as before. *)
LEMMA ShownCut ==
    ASSUME NEW b, NEW c, NEW w \in Seq(OrderIndex), NEW k \in 1 .. Len(w),
           \A i \in 1 .. Len(w) : i # k => Entry(c, w[i]) = Entry(b, w[i])
    PROVE  Shown(c, Cut(w, k)) = Cut(Shown(b, w), k)
  <1> DEFINE v == Cut(w, k)
             f == Shown(b, w)
             g == Cut(f, k)
             h == Shown(c, v)
             n == Len(w)
  <1>1. /\ v \in Seq(OrderIndex) /\ Len(v) = n - 1 /\ n \in Nat /\ k \in 1 .. n
        /\ \A i \in 1 .. n - 1 : v[i] = IF i < k THEN w[i] ELSE w[i + 1]
    BY ONLY w \in Seq(OrderIndex), k \in 1 .. Len(w), CutIs
  <1>2. /\ f \in Seq({Entry(b, x) : x \in OrderIndex}) /\ Len(f) = n
        /\ \A i \in 1 .. n : f[i] = Entry(b, w[i])
    BY ShownFacts
  <1> HIDE DEF v, f
  <1>3. /\ g \in Seq({Entry(b, x) : x \in OrderIndex}) /\ Len(g) = n - 1
        /\ \A i \in 1 .. n - 1 : g[i] = IF i < k THEN f[i] ELSE f[i + 1]
    BY <1>1, <1>2, CutIs
  <1> HIDE DEF g, n
  <1>4. g = [i \in 1 .. n - 1 |-> g[i]] BY <1>3
  <1>5. h = [i \in 1 .. n - 1 |-> Entry(c, v[i])] BY <1>1 DEF Shown
  <1> HIDE DEF h
  <1>6. ASSUME NEW i \in 1 .. n - 1 PROVE Entry(c, v[i]) = g[i]
    <2>1. i \in 1 .. n /\ i + 1 \in 1 .. n /\ (i < k => i # k) /\ (~(i < k) => i + 1 # k)
      BY <1>1
    <2>2. \A j \in 1 .. n : j # k => Entry(c, w[j]) = f[j] BY <1>2 DEF n
    <2> QED BY <1>1, <1>3, <2>1, <2>2
  <1>7. h = g BY ONLY <1>4, <1>5, <1>6, Zenon
  <1> QED BY <1>7 DEF h, g, f, v

(* A queue whose k-th order has lost quantity q. *)
Lessened(f, k, q) == [f EXCEPT ![k].quantity = @ - q]

(* An order that loses quantity stays in its place. *)
LEMMA ShownLess ==
    ASSUME NEW b, NEW c, NEW w \in Seq(OrderIndex), NEW k \in 1 .. Len(w), NEW q,
           \A i \in 1 .. Len(w) : i # k => Entry(c, w[i]) = Entry(b, w[i]),
           c.orders[w[k]].id = b.orders[w[k]].id,
           c.orders[w[k]].quantity = b.orders[w[k]].quantity - q
    PROVE  Shown(c, w) = Lessened(Shown(b, w), k, q)
  <1> DEFINE f == Shown(b, w)
             g == [f EXCEPT ![k].quantity = @ - q]
             n == Len(w)
  <1>1. f = [i \in 1 .. n |-> f[i]] /\ \A i \in 1 .. n : f[i] = Entry(b, w[i]) BY ShownFacts
  <1> HIDE DEF f
  <1>2. /\ g = [i \in 1 .. n |-> g[i]] /\ g[k] = [f[k] EXCEPT !.quantity = @ - q]
        /\ \A i \in 1 .. n : i # k => g[i] = f[i]
    BY <1>1
  <1> HIDE DEF g
  <1>3. Entry(c, w[k]) = g[k]
    <2>1. g[k] = [Entry(b, w[k]) EXCEPT !.quantity = @ - q] BY <1>1, <1>2
    <2> QED BY <2>1 DEF Entry
  <1>4. \A i \in 1 .. n : Entry(c, w[i]) = g[i] BY <1>1, <1>2, <1>3
  <1>5. Shown(c, w) = [i \in 1 .. n |-> Entry(c, w[i])] BY DEF Shown
  <1>6. Shown(c, w) = g BY ONLY <1>2, <1>4, <1>5, Zenon
  <1> QED BY <1>6 DEF f, g, Lessened

(* Queues that agree for every side and price are the same. *)
LEMMA SameQueues ==
    ASSUME NEW S, NEW P, NEW Q, NEW R,
           Q = [s \in S |-> [p \in P |-> Q[s][p]]], R = [s \in S |-> [p \in P |-> R[s][p]]],
           \A s \in S, p \in P : Q[s][p] = R[s][p]
    PROVE  Q = R
  <1>1. \A s \in S : [p \in P |-> Q[s][p]] = [p \in P |-> R[s][p]] BY Zenon
  <1>2. [s \in S |-> [p \in P |-> Q[s][p]]] = [s \in S |-> [p \in P |-> R[s][p]]] BY <1>1, Zenon
  <1> QED BY <1>2, Zenon

(* The queues, side by side and price by price. *)
LEMMA QueuesAt ==
    ASSUME NEW b, NEW W
    PROVE  /\ Queues(b, W) = [s \in Sides |-> [p \in Prices |-> Queues(b, W)[s][p]]]
           /\ \A s \in Sides, p \in Prices : Queues(b, W)[s][p] = Shown(b, W[s][p])
  BY DEF Queues

(* What is shown for the other sides and prices. *)
OthersShown(b, c, W, V, s, p) ==
    \A t \in Sides, r \in Prices : ~(t = s /\ r = p) => Shown(c, V[t][r]) = Shown(b, W[t][r])

(* Only what is shown for one side and price changes. *)
OneShown(b, c, W, V, s, p) == Queues(c, V) = [Queues(b, W) EXCEPT ![s][p] = Shown(c, V[s][p])]

(* The others shown as they were, only one queue changes. *)
LEMMA QueueChanges ==
    ASSUME NEW b, NEW c, NEW W, NEW V, NEW s \in Sides, NEW p \in Prices,
           OthersShown(b, c, W, V, s, p)
    PROVE  OneShown(b, c, W, V, s, p)
  <1> DEFINE f == Shown(c, V[s][p])
             Q == Queues(b, W)
             R == [Q EXCEPT ![s][p] = f]
             Z == Queues(c, V)
  <1>1. /\ Q = [t \in Sides |-> [r \in Prices |-> Q[t][r]]]
        /\ \A t \in Sides, r \in Prices : Q[t][r] = Shown(b, W[t][r])
    BY QueuesAt
  <1>2. /\ Z = [t \in Sides |-> [r \in Prices |-> Z[t][r]]]
        /\ \A t \in Sides, r \in Prices : Z[t][r] = Shown(c, V[t][r])
    BY QueuesAt
  <1>6. Z[s][p] = f BY <1>2
  <1> HIDE DEF Q, Z, f
  <1>3. /\ R = [t \in Sides |-> [r \in Prices |-> R[t][r]]] /\ R[s][p] = f
        /\ \A t \in Sides, r \in Prices : ~(t = s /\ r = p) => R[t][r] = Q[t][r]
    <2>1. Q = [t \in Sides |-> [r \in Prices |-> Q[t][r]]] BY <1>1
    <2>2. R[s][p] = f /\ \A t \in Sides, r \in Prices : ~(t = s /\ r = p) => R[t][r] = Q[t][r]
      BY ONLY <2>1, s \in Sides, p \in Prices
    <2>3. R = [t \in Sides |-> [r \in Prices |-> R[t][r]]]
      BY ONLY <2>1, s \in Sides, p \in Prices
    <2> QED BY <2>2, <2>3
  <1> HIDE DEF R
  <1>4. \A t \in Sides, r \in Prices : Z[t][r] = R[t][r]
    BY <1>1, <1>2, <1>3, <1>6 DEF OthersShown
  <1>5. Z = R BY <1>2, <1>3, <1>4, SameQueues
  <1> QED BY <1>5 DEF Z, R, Q, f, OneShown

(* From b to c, the orders of a row other than o are the same. *)
LEMMA RowKept ==
    ASSUME NEW b, NEW z, Nearly(b, none, z), NEW W, Lines(b, W), NEW c, NEW o,
           Kept(b, c, o), NEW s \in Sides, NEW p \in Prices
    PROVE  \A i \in 1 .. Len(W[s][p]) : W[s][p][i] # o => Entry(c, W[s][p][i]) = Entry(b, W[s][p][i])
  <1> DEFINE w == W[s][p]
  <1>1. \A i \in 1 .. Len(w) : w[i] \in Live(b)
    <2>1. w = W[s][p] OBVIOUS
    <2> HIDE DEF w
    <2> QED BY <2>1, RowFacts
  <1> HIDE DEF w
  <1>2. \A i \in 1 .. Len(w) : w[i] # o => Entry(c, w[i]) = Entry(b, w[i]) BY <1>1 DEF Entry, Kept
  <1> QED BY <1>2 DEF w

(* A new order is queued behind the others of its side and price. *)
LEMMA QueueJoins ==
    ASSUME NEW b, NEW z, Nearly(b, none, z), NEW W, Lines(b, W), NEW c, NEW o, NEW id, NEW q,
           NEW s \in Sides, NEW p \in Prices, Joins(b, c, W, o, s, p, id, q)
    PROVE  QueueOf(c) = Promise!WithLast(QueueOf(b), s, p, id, q)
  <1> DEFINE w == W[s][p]
             e == [id |-> id, quantity |-> q]
             V == [W EXCEPT ![s][p] = Append(w, o)]
  <1>1. /\ Lines(c, V) /\ o \in OrderIndex /\ o \notin Live(b) /\ Entry(c, o) = e
        /\ Kept(b, c, o)
    BY DEF Joins, Entry
  <1>2. /\ W \in [Sides -> [Prices -> Seq(OrderIndex)]] BY DEF Lines
  <1>3. V[s][p] = Append(w, o)
        /\ \A t \in Sides, r \in Prices : ~(t = s /\ r = p) => V[t][r] = W[t][r]
    BY <1>2
  <1>4. ASSUME NEW t \in Sides, NEW r \in Prices
        PROVE  \A i \in 1 .. Len(W[t][r]) : Entry(c, W[t][r][i]) = Entry(b, W[t][r][i])
    <2> DEFINE u == W[t][r]
    <2>1. \A i \in 1 .. Len(u) : u[i] # o => Entry(c, u[i]) = Entry(b, u[i]) BY <1>1, RowKept
    <2>2. \A i \in 1 .. Len(u) : u[i] \in Live(b)
      <3>1. u = W[t][r] OBVIOUS
      <3> HIDE DEF u
      <3> QED BY <3>1, RowFacts
    <2> QED BY <1>1, <2>1, <2>2
  <1>5. w \in Seq(OrderIndex) BY <1>2
  <1> HIDE DEF e, V
  <1>6. Shown(c, Append(w, o)) = Append(Shown(b, w), e)
    <2>1. \A i \in 1 .. Len(w) : Entry(c, w[i]) = Entry(b, w[i]) BY <1>4
    <2> HIDE DEF w
    <2>2. o \in OrderIndex /\ Entry(c, o) = e BY <1>1
    <2>3. Shown(c, Append(w, o)) = Append(Shown(b, w), Entry(c, o))
      BY <1>5, <2>1, <2>2, ShownLast
    <2> QED BY <2>2, <2>3
  <1>7. OthersShown(b, c, W, V, s, p)
    <2> SUFFICES ASSUME NEW t \in Sides, NEW r \in Prices
                 PROVE  Shown(c, W[t][r]) = Shown(b, W[t][r])
      BY <1>3 DEF OthersShown
    <2>1. W[t][r] \in Seq(OrderIndex) BY <1>2
    <2> QED BY <1>4, <2>1, ShownSame
  <1>8. Queues(c, V) = [Queues(b, W) EXCEPT ![s][p] = Append(Shown(b, w), e)]
    <2>1. Shown(c, V[s][p]) = Append(Shown(b, w), e) BY <1>3, <1>6
    <2>2. Queues(c, V) = [Queues(b, W) EXCEPT ![s][p] = Shown(c, V[s][p])]
      <3>1. OneShown(b, c, W, V, s, p) BY <1>7, QueueChanges
      <3> QED BY <3>1 DEF OneShown
    <2> QED BY <2>1, <2>2, Zenon
  <1>9. QueueOf(c) = Queues(c, V) /\ QueueOf(b) = Queues(b, W) BY <1>1, QueueShows
  <1>10. Queues(b, W)[s][p] = Shown(b, w) BY QueuesAt
  <1> QED BY <1>8, <1>9, <1>10 DEF Promise!WithLast, e

(* The queues without the k-th order of a side and price, and with that    *)
(* order reduced.                                                          *)
CutOut(b, s, p, k) == [QueueOf(b) EXCEPT ![s][p] = Cut(QueueOf(b)[s][p], k)]
Lowered(b, s, p, k, q) == [QueueOf(b) EXCEPT ![s][p] = Lessened(QueueOf(b)[s][p], k, q)]

(* An order that quits leaves the others queued as they were. *)
LEMMA QueueQuits ==
    ASSUME NEW b, NEW o, Nearly(b, none, o), NEW W, Lines(b, W), NEW c, NEW s \in Sides,
           NEW p \in Prices, NEW k \in 1 .. Len(W[s][p]), W[s][p][k] = o,
           Quits(b, c, W, o, s, p, k)
    PROVE  QueueOf(c) = CutOut(b, s, p, k)
  <1> DEFINE w == W[s][p]
             V == [W EXCEPT ![s][p] = Cut(w, k)]
  <1>1. Lines(c, V) /\ Kept(b, c, o) BY DEF Quits
  <1>2. /\ W \in [Sides -> [Prices -> Seq(OrderIndex)]] BY DEF Lines
  <1>3. V[s][p] = Cut(w, k)
        /\ \A t \in Sides, r \in Prices : ~(t = s /\ r = p) => V[t][r] = W[t][r]
    BY <1>2
  <1>4. /\ \A i, j \in 1 .. Len(w) : w[i] = w[j] => i = j
        /\ o \in Live(b) /\ b.orders[o].side = s /\ b.orders[o].price = p
    <2>1. w = W[s][p] OBVIOUS
    <2> HIDE DEF w
    <2>2. /\ \A i, j \in 1 .. Len(w) : w[i] = w[j] => i = j
          /\ \A i \in 1 .. Len(w) :
                w[i] \in Live(b) /\ b.orders[w[i]].side = s /\ b.orders[w[i]].price = p
      BY <2>1, RowFacts
    <2> QED BY <2>1, <2>2
  <1>5. w \in Seq(OrderIndex) BY <1>2
  <1>6. \A i \in 1 .. Len(w) : i # k => Entry(c, w[i]) = Entry(b, w[i])
    <2>1. \A i \in 1 .. Len(w) : w[i] # o => Entry(c, w[i]) = Entry(b, w[i]) BY <1>1, RowKept
    <2>2. \A i \in 1 .. Len(w) : i # k => w[i] # o BY <1>4
    <2> QED BY <2>1, <2>2
  <1> HIDE DEF V
  <1>7. Shown(c, Cut(w, k)) = Cut(Shown(b, w), k)
    <2>1. k \in 1 .. Len(w) OBVIOUS
    <2> HIDE DEF w
    <2> QED BY <1>5, <1>6, <2>1, ShownCut
  <1>8. OthersShown(b, c, W, V, s, p)
    <2> SUFFICES ASSUME NEW t \in Sides, NEW r \in Prices, ~(t = s /\ r = p)
                 PROVE  Shown(c, W[t][r]) = Shown(b, W[t][r])
      BY <1>3 DEF OthersShown
    <2> DEFINE u == W[t][r]
    <2>1. u \in Seq(OrderIndex) BY <1>2
    <2>2. \A i \in 1 .. Len(u) : u[i] # o => Entry(c, u[i]) = Entry(b, u[i]) BY <1>1, RowKept
    <2>3. \A i \in 1 .. Len(u) : b.orders[u[i]].side = t /\ b.orders[u[i]].price = r
      <3>1. u = W[t][r] OBVIOUS
      <3> HIDE DEF u
      <3> QED BY <3>1, RowFacts
    <2>4. \A i \in 1 .. Len(u) : u[i] # o BY <1>4, <2>3
    <2> HIDE DEF u
    <2>5. Shown(c, u) = Shown(b, u) BY <2>1, <2>2, <2>4, ShownSame
    <2> QED BY <2>5 DEF u
  <1>9. Queues(c, V) = [Queues(b, W) EXCEPT ![s][p] = Cut(Shown(b, w), k)]
    <2>1. Shown(c, V[s][p]) = Cut(Shown(b, w), k) BY <1>3, <1>7
    <2>2. Queues(c, V) = [Queues(b, W) EXCEPT ![s][p] = Shown(c, V[s][p])]
      <3>1. OneShown(b, c, W, V, s, p) BY <1>8, QueueChanges
      <3> QED BY <3>1 DEF OneShown
    <2> QED BY <2>1, <2>2, Zenon
  <1>10. QueueOf(c) = Queues(c, V) /\ QueueOf(b) = Queues(b, W) BY <1>1, QueueShows
  <1>11. Queues(b, W)[s][p] = Shown(b, w) BY QueuesAt
  <1> QED BY <1>9, <1>10, <1>11 DEF CutOut

(* An order that loses quantity keeps its place in the queue. *)
LEMMA QueueShrinks ==
    ASSUME NEW b, BookInv(b), NEW o, NEW W, Lines(b, W), NEW c, NEW q, Shrinks(b, c, o, q),
           NEW s \in Sides, NEW p \in Prices, NEW k \in 1 .. Len(W[s][p]), W[s][p][k] = o
    PROVE  QueueOf(c) = Lowered(b, s, p, k, q)
  <1> DEFINE w == W[s][p]
  <1>0. Nearly(b, none, none) BY DEF BookInv
  <1>1. Lines(c, W)
    <2>1. b \in BookType BY <1>0 DEF Nearly
    <2> QED BY <2>1, ShrinkLines
  <1>2. W \in [Sides -> [Prices -> Seq(OrderIndex)]] BY DEF Lines
  <1>3. w \in Seq(OrderIndex) BY <1>2
  <1>4. /\ \A i, j \in 1 .. Len(w) : w[i] = w[j] => i = j
        /\ o \in Live(b) /\ b.orders[o].side = s /\ b.orders[o].price = p
    <2>1. w = W[s][p] OBVIOUS
    <2> HIDE DEF w
    <2>2. /\ \A i, j \in 1 .. Len(w) : w[i] = w[j] => i = j
          /\ \A i \in 1 .. Len(w) :
                w[i] \in Live(b) /\ b.orders[w[i]].side = s /\ b.orders[w[i]].price = p
      BY ONLY <1>0, <2>1, Lines(b, W), s \in Sides, p \in Prices, RowFacts
    <2> QED BY <2>1, <2>2
  <1>5. /\ Kept(b, c, o) /\ c.orders[o].id = b.orders[o].id
        /\ c.orders[o].quantity = b.orders[o].quantity - q
    BY <1>4 DEF Shrinks, Kept, Live
  <1>6. \A i \in 1 .. Len(w) : i # k => Entry(c, w[i]) = Entry(b, w[i])
    <2>1. \A i \in 1 .. Len(w) : w[i] # o => Entry(c, w[i]) = Entry(b, w[i])
      BY <1>0, <1>5, RowKept
    <2>2. \A i \in 1 .. Len(w) : i # k => w[i] # o BY <1>4
    <2> QED BY <2>1, <2>2
  <1>7. Shown(c, w) = Lessened(Shown(b, w), k, q)
    <2>1. k \in 1 .. Len(w) /\ w[k] = o OBVIOUS
    <2> HIDE DEF w
    <2>2. /\ c.orders[w[k]].id = b.orders[w[k]].id
          /\ c.orders[w[k]].quantity = b.orders[w[k]].quantity - q
      BY <1>5, <2>1
    <2> QED BY ONLY <1>3, <1>6, <2>1, <2>2, ShownLess
  <1>8. OthersShown(b, c, W, W, s, p)
    <2> SUFFICES ASSUME NEW t \in Sides, NEW r \in Prices, ~(t = s /\ r = p)
                 PROVE  Shown(c, W[t][r]) = Shown(b, W[t][r])
      BY DEF OthersShown
    <2> DEFINE u == W[t][r]
    <2>1. u \in Seq(OrderIndex) BY <1>2
    <2>2. \A i \in 1 .. Len(u) : u[i] # o => Entry(c, u[i]) = Entry(b, u[i])
      BY <1>0, <1>5, RowKept
    <2>3. \A i \in 1 .. Len(u) : b.orders[u[i]].side = t /\ b.orders[u[i]].price = r
      <3>1. u = W[t][r] OBVIOUS
      <3> HIDE DEF u
      <3> QED BY <1>0, <3>1, RowFacts
    <2>4. \A i \in 1 .. Len(u) : u[i] # o BY <1>4, <2>3
    <2> HIDE DEF u
    <2>5. Shown(c, u) = Shown(b, u) BY <2>1, <2>2, <2>4, ShownSame
    <2> QED BY <2>5 DEF u
  <1>9. OneShown(b, c, W, W, s, p) BY <1>8, QueueChanges
  <1>10. QueueOf(c) = Queues(c, W) /\ QueueOf(b) = Queues(b, W) BY <1>1, QueueShows
  <1>11. Queues(b, W)[s][p] = Shown(b, w) BY QueuesAt
  <1> HIDE DEF w
  <1>12. Queues(c, W) = [Queues(b, W) EXCEPT ![s][p] = Shown(c, w)] BY <1>9 DEF OneShown, w
  <1> QED BY <1>7, <1>10, <1>11, <1>12 DEF Lowered
-----------------------------------------------------------------------------
(* Order o is the k-th of its row, and that is where its id is found. *)
StandsAt(b, W, id, o, s, p, k) ==
    /\ k \in 1 .. Len(W[s][p]) /\ W[s][p][k] = o
    /\ <<s, p, k>> \in Promise!Where(QueueOf(b), id)
    /\ Promise!At(QueueOf(b), <<s, p, k>>) = Entry(b, o)

(* An order shown by the abstract book, found by its id. *)
LEMMA FoundAt ==
    ASSUME NEW b, BookInv(b), NEW W, Lines(b, W), NEW id \in Ids, b.lookup[id] # none,
           NEW o, o = b.lookup[id], NEW s, s = b.orders[o].side, NEW p, p = b.orders[o].price
    PROVE  /\ o \in Live(b) /\ b.orders[o].id = id /\ s \in Sides /\ p \in Prices
           /\ \E k : StandsAt(b, W, id, o, s, p, k)
  <1>0. Nearly(b, none, none) BY DEF BookInv
  <1>1. o \in Live(b) /\ b.orders[o].id = id BY <1>0 DEF Nearly, LookupAgrees
  <1>2. s \in Sides /\ p \in Prices /\ \E k \in 1 .. Len(W[s][p]) : W[s][p][k] = o
    BY ONLY <1>0, <1>1, Lines(b, W), s = b.orders[o].side, p = b.orders[o].price, OrderPlaced
  <1>3. PICK k \in 1 .. Len(W[s][p]) : W[s][p][k] = o BY <1>2
  <1> DEFINE w == W[s][p]
             f == QueueOf(b)[s][p]
  <1>4. w \in Seq(OrderIndex) /\ Len(w) \in 0 .. MaxOrders
    <2>1. w = W[s][p] OBVIOUS
    <2> HIDE DEF w
    <2> QED BY ONLY <1>0, <1>2, <2>1, Lines(b, W), RowFacts
  <1>5. f = Shown(b, w)
    <2>1. QueueOf(b) = Queues(b, W) BY QueueShows
    <2>2. Queues(b, W)[s][p] = Shown(b, w) BY ONLY <1>2, QueuesAt
    <2> QED BY <2>1, <2>2
  <1>6. k \in 1 .. Len(w) /\ w[k] = o BY <1>3
  <1> HIDE DEF w
  <1>7. Len(f) = Len(w) /\ f[k] = Entry(b, o)
    <2>1. Len(Shown(b, w)) = Len(w) /\ Shown(b, w)[k] = Entry(b, w[k])
      BY ONLY <1>4, <1>6, ShownFacts
    <2> HIDE DEF f
    <2> QED BY ONLY <1>5, <1>6, <2>1
  <1>8. Entry(b, o).id = id BY <1>1 DEF Entry
  <1>9. k \in 1 .. MaxOrders /\ k <= Len(f)
    <2> HIDE DEF f
    <2> QED BY ONLY <1>4, <1>6, <1>7, CapacityAssumption
  <1> DEFINE e == <<s, p, k>>
  <1>10. e \in Sides \X Prices \X (1 .. MaxOrders) /\ e[1] = s /\ e[2] = p /\ e[3] = k
    BY <1>2, <1>9
  <1>11. Promise!At(QueueOf(b), e) = Entry(b, o) BY <1>7, <1>10 DEF Promise!At
  <1>12. e \in Promise!Resting(QueueOf(b))
    BY <1>9, <1>10 DEF Promise!Resting, Promise!Sides, Sides
  <1>13. e \in Promise!Where(QueueOf(b), id) BY <1>8, <1>11, <1>12 DEF Promise!Where
  <1> QED BY <1>1, <1>2, <1>3, <1>11, <1>13 DEF StandsAt

(* A place in the queues, and the order in the row there. *)
SeatAt(b, W, e) ==
    /\ e = <<e[1], e[2], e[3]>> /\ e[1] \in Sides /\ e[2] \in Prices
    /\ e[3] \in 1 .. Len(W[e[1]][e[2]])
    /\ W[e[1]][e[2]][e[3]] \in Live(b)
    /\ b.orders[W[e[1]][e[2]][e[3]]].side = e[1]
    /\ b.orders[W[e[1]][e[2]][e[3]]].price = e[2]
    /\ Promise!At(QueueOf(b), e) = Entry(b, W[e[1]][e[2]][e[3]])

(* Every place in the queues is one. *)
LEMMA RestingAt ==
    ASSUME NEW b, BookInv(b), NEW W, Lines(b, W), NEW e \in Promise!Resting(QueueOf(b))
    PROVE  SeatAt(b, W, e)
  <1> DEFINE s == e[1]
             p == e[2]
             k == e[3]
             w == W[s][p]
             f == QueueOf(b)[s][p]
  <1>0. Nearly(b, none, none) BY DEF BookInv
  <1>1. /\ e \in Sides \X Prices \X (1 .. MaxOrders) /\ k <= Len(f)
    BY DEF Promise!Resting, Promise!Sides, Sides
  <1>2. e = <<s, p, k>> /\ s \in Sides /\ p \in Prices /\ k \in 1 .. MaxOrders BY <1>1
  <1> HIDE DEF s, p, k
  <1>3. f = Shown(b, w)
    <2>1. QueueOf(b) = Queues(b, W) BY QueueShows
    <2>2. Queues(b, W)[s][p] = Shown(b, w) BY ONLY <1>2, QueuesAt
    <2> QED BY <2>1, <2>2
  <1>4. /\ w \in Seq(OrderIndex) /\ Len(w) \in 0 .. MaxOrders
        /\ \A i \in 1 .. Len(w) :
              w[i] \in Live(b) /\ b.orders[w[i]].side = s /\ b.orders[w[i]].price = p
    <2>1. w = W[s][p] OBVIOUS
    <2> HIDE DEF w
    <2> QED BY ONLY <1>0, <1>2, <2>1, Lines(b, W), RowFacts
  <1> HIDE DEF w
  <1>5. Len(f) = Len(w) /\ \A i \in 1 .. Len(w) : f[i] = Entry(b, w[i])
    <2>1. /\ Len(Shown(b, w)) = Len(w)
          /\ \A i \in 1 .. Len(w) : Shown(b, w)[i] = Entry(b, w[i])
      BY <1>4, ShownFacts
    <2> HIDE DEF f
    <2> QED BY <1>3, <2>1
  <1> HIDE DEF f
  <1>6. k \in 1 .. Len(w) BY <1>1, <1>2, <1>4, <1>5
  <1>7. f[k] = Entry(b, w[k]) /\ w[k] \in Live(b) /\ b.orders[w[k]].side = s
        /\ b.orders[w[k]].price = p
    BY <1>4, <1>5, <1>6
  <1>8. Promise!At(QueueOf(b), e) = f[k] BY DEF Promise!At, f, s, p, k
  <1> QED BY <1>2, <1>6, <1>7, <1>8 DEF w, s, p, k, SeatAt

(* An id that the lookup does not know is shown nowhere. *)
LEMMA FoundNowhere ==
    ASSUME NEW b, BookInv(b), NEW W, Lines(b, W), NEW id \in Ids, b.lookup[id] = none
    PROVE  Promise!Where(QueueOf(b), id) = {}
  <1> SUFFICES ASSUME NEW e \in Promise!Where(QueueOf(b), id) PROVE FALSE OBVIOUS
  <1>1. e \in Promise!Resting(QueueOf(b)) /\ Promise!At(QueueOf(b), e).id = id
    BY DEF Promise!Where
  <1> DEFINE o == W[e[1]][e[2]][e[3]]
  <1>2. o \in Live(b) /\ Promise!At(QueueOf(b), e) = Entry(b, o)
    <2>1. SeatAt(b, W, e) BY <1>1, RestingAt
    <2> QED BY ONLY <2>1 DEF SeatAt
  <1> HIDE DEF o
  <1>3. b.orders[o].id = id BY <1>1, <1>2 DEF Entry
  <1>4. b.lookup[id] = o BY <1>2, <1>3 DEF BookInv, Nearly, LookupAgrees
  <1> QED BY <1>2, <1>4, IndexFacts DEF Live
-----------------------------------------------------------------------------
(* Sets matched one to one have as many members. *)
LEMMA OneToOne ==
    ASSUME NEW S, NEW T, IsFiniteSet(T), NEW f \in [S -> T],
           \A x, y \in S : f[x] = f[y] => x = y, \A t \in T : \E x \in S : f[x] = t
    PROVE  IsFiniteSet(S) /\ Cardinality(S) = Cardinality(T)
  <1>1. f \in Bijection(S, T) BY DEF Bijection, Injection, Surjection, IsInjective
  <1>2. ExistsBijection(S, T) BY <1>1, Zenon DEF ExistsBijection
  <1>3. ExistsBijection(T, S) BY <1>2, Fun_ExistsBijSymmetric
  <1> QED BY <1>3, FS_Bijection

(* A list of the members of a set is empty only if the set is. *)
LEMMA NothingListed ==
    ASSUME NEW X, NEW w \in Seq(X), NEW S, Lists(w, S)
    PROVE  w = <<>> <=> S = {}
  <1>1. DOMAIN w = 1 .. Len(w) /\ Len(w) \in Nat OBVIOUS
  <1>2. ASSUME w = <<>> PROVE S = {} BY <1>2 DEF Lists
  <1>3. ASSUME S = {} PROVE w = <<>>
    <2>1. ~(Len(w) \in Nat \ {0})
      <3> SUFFICES ASSUME Len(w) \in Nat \ {0} PROVE FALSE OBVIOUS
      <3>1. 1 \in DOMAIN w BY <1>1
      <3> QED BY <1>3, <3>1 DEF Lists
    <2> QED BY <1>1, <2>1, EmptySeq
  <1> QED BY <1>2, <1>3

(* The abstract book is full of orders when the pool has no slot left. *)
LEMMA OrdersFull ==
    ASSUME NEW b, BookInv(b), NEW W, Lines(b, W)
    PROVE  Cardinality(Promise!Resting(QueueOf(b))) = MaxOrders <=> b.free_order = <<>>
  <1> DEFINE R == Promise!Resting(QueueOf(b))
             f == [e \in R |-> W[e[1]][e[2]][e[3]]]
  <1>0. Nearly(b, none, none) BY DEF BookInv
  <1>1. \A e \in R : f[e] = W[e[1]][e[2]][e[3]] OBVIOUS
  <1>2. ASSUME NEW e \in R
        PROVE  /\ e = <<e[1], e[2], e[3]>> /\ e[1] \in Sides /\ e[2] \in Prices
               /\ e[3] \in 1 .. Len(W[e[1]][e[2]])
               /\ W[e[1]][e[2]][e[3]] \in Live(b)
               /\ b.orders[W[e[1]][e[2]][e[3]]].side = e[1]
               /\ b.orders[W[e[1]][e[2]][e[3]]].price = e[2]
    <2>1. SeatAt(b, W, e) BY RestingAt
    <2> HIDE DEF R, f
    <2> QED BY ONLY <2>1 DEF SeatAt
  <1>3. f \in [R -> Live(b)] BY <1>2
  <1> HIDE DEF f
  <1>4. ASSUME NEW d \in R, NEW e \in R, f[d] = f[e] PROVE d = e
    <2>1. d[1] = e[1] /\ d[2] = e[2]
      <3>1. b.orders[f[d]].side = d[1] /\ b.orders[f[d]].price = d[2] BY <1>1, <1>2
      <3>2. b.orders[f[e]].side = e[1] /\ b.orders[f[e]].price = e[2] BY <1>1, <1>2
      <3> QED BY <1>4, <3>1, <3>2
    <2> DEFINE s == e[1]
               p == e[2]
               w == W[s][p]
    <2>2. s \in Sides /\ p \in Prices BY <1>2
    <2>3. w = W[s][p] OBVIOUS
    <2>4. d[3] \in 1 .. Len(w) /\ e[3] \in 1 .. Len(w) /\ w[d[3]] = w[e[3]]
      <3>1. W[d[1]][d[2]] = w BY <2>1
      <3> QED BY <1>1, <1>2, <1>4, <3>1
    <2> HIDE DEF s, p, w
    <2>5. \A i, j \in 1 .. Len(w) : w[i] = w[j] => i = j
      BY ONLY <1>0, <2>2, <2>3, Lines(b, W), RowFacts
    <2>6. d[3] = e[3] BY <2>4, <2>5
    <2>7. d = <<d[1], d[2], d[3]>> /\ e = <<e[1], e[2], e[3]>> BY <1>2
    <2> QED BY <2>1, <2>6, <2>7, Zenon
  <1>5. ASSUME NEW o \in Live(b) PROVE \E e \in R : f[e] = o
    <2> DEFINE id == b.orders[o].id
               s == b.orders[o].side
               p == b.orders[o].price
    <2>1. id \in Ids /\ o = b.lookup[id] BY <1>0 DEF Nearly, LookupAgrees
    <2>2. b.lookup[id] # none BY <2>1, IndexFacts DEF Live
    <2>3. s = b.orders[o].side /\ p = b.orders[o].price OBVIOUS
    <2> HIDE DEF id, s, p
    <2>4. \E k : StandsAt(b, W, id, o, s, p, k) BY <2>1, <2>2, <2>3, FoundAt
    <2>5. PICK k : W[s][p][k] = o /\ <<s, p, k>> \in Promise!Where(QueueOf(b), id)
      BY <2>4 DEF StandsAt
    <2> DEFINE e == <<s, p, k>>
    <2>6. e \in R BY <2>5 DEF Promise!Where
    <2>7. f[e] = o BY <1>1, <2>5, <2>6
    <2> QED BY <2>6, <2>7
  <1>6. Cardinality(R) = Cardinality(Live(b))
    <2>1. IsFiniteSet(Live(b)) BY SlotsFinite
    <2> HIDE DEF R
    <2> QED BY <1>3, <1>4, <1>5, <2>1, OneToOne
  <1> HIDE DEF R
  <1>7. Cardinality(Live(b)) = MaxOrders <=> Live(b) = OrderIndex
    <2>1. Live(b) \in SUBSET OrderIndex BY DEF Live
    <2>2. /\ IsFiniteSet(OrderIndex) /\ Cardinality(OrderIndex) = MaxOrders BY IndexFacts
    <2>3. Cardinality(OrderIndex) = Cardinality(Live(b)) => OrderIndex = Live(b)
      BY <2>1, <2>2, FS_Subset
    <2> QED BY <2>2, <2>3
  <1>8. b.free_order = <<>> <=> OrderIndex \ Live(b) = {}
    <2>1. b.free_order \in Seq(OrderIndex) /\ Lists(b.free_order, OrderIndex \ Live(b))
      BY <1>0, BookFields DEF Nearly, PoolsWhole
    <2> QED BY <2>1, NothingListed
  <1>9. OrderIndex \ Live(b) = {} <=> Live(b) = OrderIndex BY DEF Live
  <1> QED BY <1>6, <1>7, <1>8, <1>9 DEF R

(* A queue is empty where the index has no level. *)
LEMMA QueueEmpty ==
    ASSUME NEW b, BookInv(b), NEW W, Lines(b, W), NEW s \in Sides, NEW p \in Prices
    PROVE  QueueOf(b)[s][p] = <<>> <=> b.index[s][p] = none
  <1> DEFINE w == W[s][p]
  <1>0. Nearly(b, none, none) BY DEF BookInv
  <1>1. QueueOf(b)[s][p] = Shown(b, w)
    <2>1. QueueOf(b) = Queues(b, W) BY QueueShows
    <2>2. Queues(b, W)[s][p] = Shown(b, w) BY QueuesAt
    <2> QED BY <2>1, <2>2
  <1>2. w = W[s][p] OBVIOUS
  <1> HIDE DEF w
  <1>3. w \in Seq(OrderIndex) /\ (w = <<>> <=> b.index[s][p] = none)
    BY <1>0, <1>2, RowFacts
  <1>4. /\ Shown(b, w) \in Seq({Entry(b, x) : x \in OrderIndex}) /\ Len(Shown(b, w)) = Len(w)
    BY <1>3, ShownFacts
  <1>5. Shown(b, w) = <<>> <=> w = <<>>
    <2> DEFINE g == Shown(b, w)
    <2> HIDE DEF g
    <2>1. g \in Seq({Entry(b, x) : x \in OrderIndex}) /\ Len(g) = Len(w) BY <1>4 DEF g
    <2>2. g = <<>> <=> Len(g) = 0 BY <2>1, EmptySeq
    <2>3. w = <<>> <=> Len(w) = 0 BY <1>3, EmptySeq
    <2>4. g = <<>> <=> w = <<>> BY <2>1, <2>2, <2>3
    <2> QED BY <2>4 DEF g
  <1> QED BY <1>1, <1>3, <1>5

(* There is no room at a price when it has no level and none is left. *)
LEMMA LevelsFull ==
    ASSUME NEW b, BookInv(b), NEW W, Lines(b, W), NEW s \in Sides, NEW p \in Prices
    PROVE  Promise!NoRoomAt(QueueOf(b), s, p) <=> b.index[s][p] = none /\ b.free_level = <<>>
  <1> DEFINE N == {e \in Sides \X Prices : QueueOf(b)[e[1]][e[2]] # <<>>}
             A == {l \in LevelIndex : b.levels[l].active}
             f == [e \in N |-> b.index[e[1]][e[2]]]
  <1>0. /\ Nearly(b, none, none) /\ IndexAgrees(b)
        /\ b.index \in [Sides -> [Prices -> LevelIndex \cup {none}]]
    BY BookFields DEF BookInv, Nearly
  <1>1. ASSUME NEW e \in N
        PROVE  /\ e[1] \in Sides /\ e[2] \in Prices /\ e = <<e[1], e[2]>>
               /\ b.index[e[1]][e[2]] # none
    <2>1. e[1] \in Sides /\ e[2] \in Prices /\ e = <<e[1], e[2]>> OBVIOUS
    <2> QED BY <2>1, QueueEmpty
  <1>2. \A e \in N : f[e] = b.index[e[1]][e[2]] OBVIOUS
  <1>3. f \in [N -> A]
    <2> SUFFICES ASSUME NEW e \in N PROVE b.index[e[1]][e[2]] \in A OBVIOUS
    <2> DEFINE t == e[1]
               r == e[2]
    <2>1. t \in Sides /\ r \in Prices /\ b.index[t][r] # none BY <1>1
    <2> HIDE DEF t, r
    <2>2. b.index[t][r] \in LevelIndex /\ b.levels[b.index[t][r]].active
      BY ONLY <1>0, <2>1 DEF IndexAgrees
    <2> QED BY <2>2 DEF t, r
  <1> HIDE DEF f
  <1>4. ASSUME NEW d \in N, NEW e \in N, f[d] = f[e] PROVE d = e
    <2>1. b.index[d[1]][d[2]] = b.index[e[1]][e[2]] BY <1>2, <1>4
    <2>2. d[1] = e[1] /\ d[2] = e[2] BY ONLY <1>0, <1>1, <2>1, d \in N, e \in N DEF IndexAgrees
    <2>3. d = <<d[1], d[2]>> /\ e = <<e[1], e[2]>> BY <1>1
    <2> QED BY <2>2, <2>3, Zenon
  <1>5. ASSUME NEW l \in A PROVE \E e \in N : f[e] = l
    <2>1. PICK t \in Sides, r \in Prices : b.index[t][r] = l BY <1>0 DEF IndexAgrees
    <2> DEFINE e == <<t, r>>
    <2>2. b.index[t][r] # none BY <2>1, IndexFacts
    <2>3. QueueOf(b)[t][r] # <<>> BY <2>2, QueueEmpty
    <2>4. e \in N BY <2>3
    <2>5. f[e] = l BY <1>2, <2>1, <2>4
    <2> QED BY <2>4, <2>5
  <1>6. Cardinality(N) = Cardinality(A)
    <2>1. IsFiniteSet(A) BY SlotsFinite
    <2> HIDE DEF N, A
    <2> QED BY <1>3, <1>4, <1>5, <2>1, OneToOne
  <1>7. Cardinality(A) >= MaxLevels <=> A = LevelIndex
    <2>1. A \in SUBSET LevelIndex OBVIOUS
    <2>2. IsFiniteSet(LevelIndex) /\ Cardinality(LevelIndex) = MaxLevels
      BY CapacityAssumption, FS_Interval DEF LevelIndex
    <2> HIDE DEF A
    <2>3. /\ Cardinality(A) <= Cardinality(LevelIndex) /\ IsFiniteSet(A)
          /\ Cardinality(LevelIndex) = Cardinality(A) => LevelIndex = A
      BY <2>1, <2>2, FS_Subset
    <2>4. Cardinality(A) \in Nat BY <2>3, FS_CardinalityType
    <2> QED BY <2>2, <2>3, <2>4, CapacityAssumption
  <1>8. b.free_level = <<>> <=> {l \in LevelIndex : ~b.levels[l].active} = {}
    <2>1. /\ b.free_level \in Seq(LevelIndex)
          /\ Lists(b.free_level, {l \in LevelIndex : ~b.levels[l].active})
      BY <1>0, BookFields DEF Nearly, PoolsWhole
    <2> QED BY <2>1, NothingListed
  <1>9. {l \in LevelIndex : ~b.levels[l].active} = {} <=> A = LevelIndex OBVIOUS
  <1>10. QueueOf(b)[s][p] = <<>> <=> b.index[s][p] = none BY QueueEmpty
  <1>11. Promise!NoRoomAt(QueueOf(b), s, p) <=>
            QueueOf(b)[s][p] = <<>> /\ Cardinality(N) >= MaxLevels
    BY DEF Promise!NoRoomAt, Promise!Sides, Sides, Promise!Cardinality, Cardinality
  <1> HIDE DEF N, A
  <1> QED BY <1>6, <1>7, <1>8, <1>9, <1>10, <1>11
-----------------------------------------------------------------------------
(* A call answers e and leaves the queues Q. *)
Answers(r, e, Q) == r.error = e /\ QueueOf(r.book) = Q

(* The abstract book without an order, and with one that is reduced. *)
LEMMA WithoutIs ==
    ASSUME NEW b, NEW s \in Sides, NEW p \in Prices, NEW k
    PROVE  Promise!Without(QueueOf(b), <<s, p, k>>) = CutOut(b, s, p, k)
  <1> DEFINE Q == QueueOf(b)
  <1> HIDE DEF Q
  <1>1. Promise!Without(Q, <<s, p, k>>) = [Q EXCEPT ![s][p] = Cut(Q[s][p], k)]
    BY DEF Promise!Without, Cut
  <1> QED BY <1>1 DEF Q, CutOut

(* What erase() and an exhausted reduce() leave. *)
LEMMA QuitAnswers ==
    ASSUME NEW b, NEW o, Nearly(b, none, o), NEW W, Lines(b, W), NEW c, NEW id,
           NEW s \in Sides, NEW p \in Prices, NEW k, StandsAt(b, W, id, o, s, p, k),
           Quits(b, c, W, o, s, p, k)
    PROVE  QueueOf(c) = Promise!Without(QueueOf(b), <<s, p, k>>) /\ \E V : Lines(c, V)
  <1>1. k \in 1 .. Len(W[s][p]) /\ W[s][p][k] = o BY DEF StandsAt
  <1>2. QueueOf(c) = CutOut(b, s, p, k) BY <1>1, QueueQuits
  <1>3. \E V : Lines(c, V) BY DEF Quits
  <1> QED BY <1>2, <1>3, WithoutIs

(* erase(). *)
LEMMA DropAnswers ==
    ASSUME NEW b, BookInv(b), NEW W, Lines(b, W), NEW c, NEW id, NEW o \in Live(b),
           NEW s \in Sides, NEW p \in Prices, NEW k, StandsAt(b, W, id, o, s, p, k),
           c = drop(b, o)
    PROVE  /\ Quits(b, c, W, o, s, p, k)
           /\ QueueOf(c) = Promise!Without(QueueOf(b), <<s, p, k>>) /\ \E V : Lines(c, V)
  <1>1. Nearly(b, none, o) BY WholeIsNearly
  <1>2. k \in 1 .. Len(W[s][p]) /\ W[s][p][k] = o BY DEF StandsAt
  <1>3. Quits(b, c, W, o, s, p, k) BY <1>1, <1>2, DropLines
  <1> QED BY <1>1, <1>3, QuitAnswers

(* What the abstract book says of a reduction of the order at e. *)
Reduced(b, r, e, n) ==
    LET Q == QueueOf(b) IN
    IF n = 0 \/ n > Promise!At(Q, e).quantity THEN Answers(r, "invalid_quantity", Q)
    ELSE IF n = Promise!At(Q, e).quantity THEN Answers(r, "none", Promise!Without(Q, e))
    ELSE Answers(r, "none", [Q EXCEPT ![e[1]][e[2]][e[3]].quantity = @ - n])

(* reduce(). *)
LEMMA ReduceAnswers ==
    ASSUME NEW b, BookInv(b), NEW W, Lines(b, W), NEW id, NEW o \in Live(b), NEW q \in Quantities,
           NEW s \in Sides, NEW p \in Prices, NEW k, StandsAt(b, W, id, o, s, p, k),
           NEW r, r = reduce(b, o, q)
    PROVE  Reduced(b, r, <<s, p, k>>, q) /\ \E V : Lines(r.book, V)
  <1> DEFINE c == [b EXCEPT !.levels[b.orders[o].level].total_quantity = @ - q,
                            !.orders[o].quantity = @ - q]
             e == <<s, p, k>>
             Q == QueueOf(b)
  <1>0. b.orders[o].quantity \in Nat /\ q \in Nat
    <2>1. b \in BookType /\ o \in OrderIndex BY DEF BookInv, Nearly, Live
    <2>2. b.orders[o] \in OrderType BY <2>1, BookFields
    <2> QED BY <2>2, ValueAssumption DEF OrderType
  <1>1. Promise!At(Q, e).quantity = b.orders[o].quantity BY DEF StandsAt, Entry
  <1>2. k \in 1 .. Len(W[s][p]) /\ W[s][p][k] = o BY DEF StandsAt
  <1>3. CASE q = 0 \/ q > b.orders[o].quantity
    <2>1. r.error = "invalid_quantity" /\ r.book = b BY <1>3 DEF reduce, Return
    <2>2. Answers(r, "invalid_quantity", Q) BY <2>1 DEF Answers
    <2> QED BY <1>1, <1>3, <2>1, <2>2 DEF Reduced
  <1>4. CASE ~(q = 0 \/ q > b.orders[o].quantity)
    <2>1. q <= b.orders[o].quantity BY <1>0, <1>4
    <2>2. r = Return(IF c.orders[o].quantity = 0 THEN drop(c, o) ELSE c, "none")
      BY <1>4 DEF reduce
    <2>3. Shrinks(b, c, o, q) BY <2>1, ReduceShrinks
    <2> HIDE DEF c, e, Q
    <2>4. c.orders[o].quantity = b.orders[o].quantity - q BY <2>3 DEF Shrinks
    <2>5. r.error = "none" /\ r.book = IF c.orders[o].quantity = 0 THEN drop(c, o) ELSE c
      BY <2>2 DEF Return
    <2>6. Lines(c, W)
      <3>1. b \in BookType BY DEF BookInv, Nearly
      <3> QED BY <2>3, <3>1, ShrinkLines
    <2>7. CASE q = b.orders[o].quantity
      <3> DEFINE d == drop(c, o)
      <3>1. Nearly(c, none, o) /\ o \in Live(c) BY <2>1, <2>3, ShrinkKeeps
      <3>2. Quits(c, d, W, o, s, p, k) BY <1>2, <2>6, <3>1, DropLines
      <3> HIDE DEF d
      <3>3. Kept(b, d, o)
        <4>1. Kept(b, c, o) /\ Live(c) = Live(b)
          BY <2>3 DEF Shrinks, Kept, Live
        <4> QED BY <3>2, <4>1 DEF Kept, Quits
      <3>4. Quits(b, d, W, o, s, p, k) BY <3>2, <3>3 DEF Quits
      <3>5. Nearly(b, none, o) BY WholeIsNearly
      <3>6. QueueOf(d) = Promise!Without(Q, e) /\ \E V : Lines(d, V)
        BY <3>4, <3>5, QuitAnswers DEF Q, e
      <3>7. r.book = d BY <1>0, <2>4, <2>5, <2>7 DEF d
      <3>8. Answers(r, "none", Promise!Without(Q, e)) BY <2>5, <3>6, <3>7 DEF Answers
      <3>9. Reduced(b, r, e, q) BY <1>1, <1>4, <2>7, <3>8 DEF Reduced, Q
      <3> QED BY <3>6, <3>7, <3>9 DEF e
    <2>8. CASE q # b.orders[o].quantity
      <3>1. r.book = c BY <1>0, <2>4, <2>5, <2>8
      <3>2. QueueOf(c) = Lowered(b, s, p, k, q) BY <1>2, <2>3, QueueShrinks
      <3>3. [Q EXCEPT ![s][p] = Lessened(Q[s][p], k, q)]
               = [Q EXCEPT ![e[1]][e[2]][e[3]].quantity = @ - q]
        BY DEF Lessened, e
      <3>4. Answers(r, "none", [Q EXCEPT ![e[1]][e[2]][e[3]].quantity = @ - q])
        BY <2>5, <3>1, <3>2, <3>3 DEF Answers, Lowered, Q
      <3>5. Reduced(b, r, e, q) BY <1>1, <1>4, <2>8, <3>4 DEF Reduced, Q
      <3> QED BY <2>6, <3>1, <3>5 DEF e
    <2> QED BY <2>7, <2>8
  <1> QED BY <1>3, <1>4

(* What the abstract book says of an add. *)
Added(b, r, id, s, p, q) ==
    LET Q == QueueOf(b) IN
    IF q = 0 THEN Answers(r, "invalid_quantity", Q)
    ELSE IF Promise!Where(Q, id) # {} THEN Answers(r, "duplicate_order", Q)
    ELSE IF Cardinality(Promise!Resting(Q)) = MaxOrders
         THEN Answers(r, "order_pool_exhausted", Q)
    ELSE IF Promise!NoRoomAt(Q, s, p) THEN Answers(r, "level_pool_exhausted", Q)
    ELSE Answers(r, "none", Promise!WithLast(Q, s, p, id, q))

(* The id is shown exactly when the lookup knows it. *)
LEMMA KnownIds ==
    ASSUME NEW b, BookInv(b), NEW W, Lines(b, W), NEW id \in Ids
    PROVE  Promise!Where(QueueOf(b), id) # {} <=> b.lookup[id] # none
  <1>1. ASSUME b.lookup[id] # none PROVE Promise!Where(QueueOf(b), id) # {}
    <2> DEFINE o == b.lookup[id]
               s == b.orders[o].side
               p == b.orders[o].price
    <2>1. o = b.lookup[id] /\ s = b.orders[o].side /\ p = b.orders[o].price OBVIOUS
    <2> HIDE DEF o, s, p
    <2>2. \E k : StandsAt(b, W, id, o, s, p, k) BY <1>1, <2>1, FoundAt
    <2> QED BY <2>2 DEF StandsAt
  <1> QED BY <1>1, FoundNowhere

(* Without a level for its price an add is refused. *)
LEMMA AddNoLevel ==
    ASSUME NEW b, BookInv(b), NEW id \in Ids, NEW side \in Sides, NEW q \in Quantities,
           NEW p \in Prices, q # 0, b.lookup[id] = none, b.free_order # <<>>,
           b.index[side][p] = none, b.free_level = <<>>
    PROVE  add(b, id, side, q, p).error = "level_pool_exhausted"
  <1> DEFINE o == Head(b.free_order)
             a == acquire_order(b)
  <1>1. b \in BookType BY DEF BookInv, Nearly
  <1>2. a.index = b.index /\ a.free_level = b.free_level BY <1>1 DEF acquire_order, BookType
  <1> HIDE DEF a, o
  <1>3. level_get_or_add(a, side, p) = a /\ level_find(a, side, p) = none
    BY <1>2 DEF level_get_or_add, level_find
  <1>4. add(b, id, side, q, p) = Return(release_order(a, o), "level_pool_exhausted")
    BY <1>3 DEF add, lookup_find, a, o
  <1> QED BY <1>4 DEF Return

(* An add with everything at hand. *)
LEMMA JoinAnswers ==
    ASSUME NEW b, BookInv(b), NEW id \in Ids, NEW side \in Sides, NEW q \in Quantities,
           NEW p \in Prices, q # 0, b.lookup[id] = none, b.free_order # <<>>,
           b.index[side][p] # none \/ b.free_level # <<>>,
           NEW W, Lines(b, W), NEW r, r = add(b, id, side, q, p)
    PROVE  /\ Answers(r, "none", Promise!WithLast(QueueOf(b), side, p, id, q))
           /\ \E V : Lines(r.book, V)
  <1>1. r.error = "none" /\ \E o : Joins(b, r.book, W, o, side, p, id, q) BY AddLines
  <1>2. PICK o : Joins(b, r.book, W, o, side, p, id, q) BY <1>1
  <1>3. Nearly(b, none, none) BY DEF BookInv
  <1> DEFINE c == r.book
  <1>4. Joins(b, c, W, o, side, p, id, q) BY <1>2
  <1> HIDE DEF c
  <1>5. QueueOf(c) = Promise!WithLast(QueueOf(b), side, p, id, q) BY <1>3, <1>4, QueueJoins
  <1>6. \E V : Lines(c, V) BY <1>4 DEF Joins
  <1> QED BY <1>1, <1>5, <1>6 DEF Answers, c

(* add(). *)
LEMMA AddAnswers ==
    ASSUME NEW b, BookInv(b), NEW id \in Ids, NEW side \in Sides, NEW q \in Quantities,
           NEW p \in Prices, NEW W, Lines(b, W), NEW r, r = add(b, id, side, q, p)
    PROVE  Added(b, r, id, side, p, q) /\ \E V : Lines(r.book, V)
  <1> DEFINE Q == QueueOf(b)
  <1>1. Promise!Where(Q, id) # {} <=> b.lookup[id] # none BY KnownIds
  <1>2. Cardinality(Promise!Resting(Q)) = MaxOrders <=> b.free_order = <<>> BY OrdersFull
  <1>3. Promise!NoRoomAt(Q, side, p) <=> b.index[side][p] = none /\ b.free_level = <<>>
    BY LevelsFull
  <1>4. Sound(b, r) BY AddSound
  <1>5. r.error # "none" => r.book = b BY <1>4 DEF Sound
  <1> HIDE DEF Q
  <1>6. ASSUME r.error # "none" PROVE (\E V : Lines(r.book, V)) /\ Answers(r, r.error, Q)
    BY <1>5, <1>6 DEF Answers, Q
  <1>7. CASE q = 0
    <2>1. r.error = "invalid_quantity" BY <1>7 DEF add, Return
    <2> QED BY <1>6, <1>7, <2>1 DEF Added, Q
  <1>8. CASE q # 0 /\ b.lookup[id] # none
    <2>1. r.error = "duplicate_order" BY <1>8 DEF add, Return, lookup_find
    <2> QED BY <1>1, <1>6, <1>8, <2>1 DEF Added, Q
  <1>9. CASE q # 0 /\ b.lookup[id] = none /\ b.free_order = <<>>
    <2>1. r.error = "order_pool_exhausted" BY <1>9 DEF add, Return, lookup_find
    <2> QED BY <1>1, <1>2, <1>6, <1>9, <2>1 DEF Added, Q
  <1>10. CASE /\ q # 0 /\ b.lookup[id] = none /\ b.free_order # <<>>
              /\ b.index[side][p] = none /\ b.free_level = <<>>
    <2>1. r.error = "level_pool_exhausted" BY <1>10, AddNoLevel
    <2> QED BY <1>1, <1>2, <1>3, <1>6, <1>10, <2>1 DEF Added, Q
  <1>11. CASE /\ q # 0 /\ b.lookup[id] = none /\ b.free_order # <<>>
              /\ b.index[side][p] # none \/ b.free_level # <<>>
    <2>1. /\ Answers(r, "none", Promise!WithLast(Q, side, p, id, q))
          /\ \E V : Lines(r.book, V)
      BY <1>11, JoinAnswers DEF Q
    <2> QED BY <1>1, <1>2, <1>3, <1>11, <2>1 DEF Added, Q
  <1> QED BY <1>7, <1>8, <1>9, <1>10, <1>11

(* What the abstract book says of a replace of the order at e. *)
Replaced(b, r, e, id, newid, p, q) ==
    LET Q == QueueOf(b) IN
    IF q = 0 THEN Answers(r, "invalid_quantity", Q)
    ELSE IF newid # id /\ Promise!Where(Q, newid) # {} THEN Answers(r, "duplicate_order", Q)
    ELSE IF p # e[2] /\ Promise!NoRoomAt(Q, e[1], p) THEN Answers(r, "level_pool_exhausted", Q)
    ELSE Answers(r, "none", Promise!WithLast(Promise!Without(Q, e), e[1], p, newid, q))

(* replace(): the old order quits and the new one joins, in one step. *)
LEMMA ReplaceAnswers ==
    ASSUME NEW b, BookInv(b), NEW W, Lines(b, W), NEW id \in Ids, NEW newid \in Ids,
           NEW q \in Quantities, NEW p \in Prices, b.lookup[id] # none, NEW o, o = b.lookup[id],
           NEW s, s = b.orders[o].side, NEW w, w = b.orders[o].price, NEW k,
           StandsAt(b, W, id, o, s, w, k), NEW r, r = replace(b, id, newid, q, p)
    PROVE  Replaced(b, r, <<s, w, k>>, id, newid, p, q) /\ \E V : Lines(r.book, V)
  <1> DEFINE Q == QueueOf(b)
             e == <<s, w, k>>
  <1>0. o \in Live(b) /\ b.orders[o].id = id /\ s \in Sides /\ w \in Prices BY FoundAt
  <1>1. Promise!Where(Q, newid) # {} <=> b.lookup[newid] # none BY KnownIds
  <1>2. Promise!NoRoomAt(Q, s, p) <=> b.index[s][p] = none /\ b.free_level = <<>>
    BY <1>0, LevelsFull
  <1>3. e[1] = s /\ e[2] = w OBVIOUS
  <1>4. Sound(b, r) BY ReplaceSound
  <1>5. r.error # "none" => r.book = b BY <1>4 DEF Sound
  <1> HIDE DEF Q, e
  <1>6. ASSUME r.error # "none" PROVE (\E V : Lines(r.book, V)) /\ Answers(r, r.error, Q)
    BY <1>5, <1>6 DEF Answers, Q
  <1>7. CASE q = 0
    <2>1. r.error = "invalid_quantity" BY <1>7 DEF replace, Return, lookup_find
    <2> QED BY <1>6, <1>7, <2>1 DEF Replaced, Q, e
  <1>8. CASE q # 0 /\ newid # id /\ b.lookup[newid] # none
    <2>1. r.error = "duplicate_order" BY <1>8 DEF replace, Return, lookup_find
    <2>2. Replaced(b, r, e, id, newid, p, q) BY <1>1, <1>6, <1>8, <2>1 DEF Replaced, Q
    <2> QED BY <1>6, <2>1, <2>2 DEF e
  <1>9. CASE /\ q # 0 /\ ~(newid # id /\ b.lookup[newid] # none)
             /\ p # w /\ b.index[s][p] = none /\ b.free_level = <<>>
    <2>1. r.error = "level_pool_exhausted"
      BY <1>9 DEF replace, Return, lookup_find, level_find
    <2>2. Replaced(b, r, e, id, newid, p, q)
      BY <1>1, <1>2, <1>3, <1>6, <1>9, <2>1 DEF Replaced, Q
    <2> QED BY <1>6, <2>1, <2>2 DEF e
  <1>10. CASE /\ q # 0 /\ ~(newid # id /\ b.lookup[newid] # none)
              /\ ~(p # w /\ b.index[s][p] = none /\ b.free_level = <<>>)
    <2> DEFINE c == drop(b, o)
    <2>1. erase(b, id).book = c BY DEF erase, lookup_find, Return
    <2>2. r = add(c, newid, s, q, p)
      BY <1>10, <2>1 DEF replace, lookup_find, level_find
    <2>3. Nearly(b, none, o) BY WholeIsNearly
    <2>4. /\ BookInv(c) /\ c.free_order # <<>>
          /\ c.lookup = [b.lookup EXCEPT ![b.orders[o].id] = none]
          /\ \A x \in Prices :
                \/ x = b.orders[o].price
                \/ b.index[b.orders[o].side][x] # none \/ b.free_level # <<>>
                => c.index[b.orders[o].side][x] # none \/ c.free_level # <<>>
      <3>1. c = drop(b, o) OBVIOUS
      <3> HIDE DEF c
      <3> QED BY ONLY <1>0, <2>3, <3>1, DropKeeps
    <2>5. QueueOf(c) = Promise!Without(Q, e) /\ \E V : Lines(c, V)
      BY <1>0, DropAnswers DEF Q, e
    <2> HIDE DEF c
    <2>6. PICK V : Lines(c, V) BY <2>5
    <2>7. c.index[s][p] # none \/ c.free_level # <<>> BY <1>10, <2>4
    <2>8. c.lookup[newid] = none
      <3>1. b.lookup \in [Ids -> OrderIndex \cup {none}] BY BookFields DEF BookInv, Nearly
      <3> QED BY <1>0, <1>10, <2>4, <3>1
    <2>9. /\ Answers(r, "none", Promise!WithLast(QueueOf(c), s, p, newid, q))
          /\ \E U : Lines(r.book, U)
      <3>1. s \in Sides /\ q # 0 /\ BookInv(c) /\ c.free_order # <<>> BY <1>0, <1>10, <2>4
      <3> QED BY ONLY <2>2, <2>6, <2>7, <2>8, <3>1, newid \in Ids, q \in Quantities,
                      p \in Prices, JoinAnswers
    <2>10. Answers(r, "none", Promise!WithLast(Promise!Without(Q, e), e[1], p, newid, q))
      BY <1>3, <2>5, <2>9
    <2>11. Replaced(b, r, e, id, newid, p, q)
      BY <1>1, <1>2, <1>3, <1>10, <2>10 DEF Replaced, Q
    <2> QED BY <2>9, <2>11 DEF e
  <1> QED BY <1>7, <1>8, <1>9, <1>10
-----------------------------------------------------------------------------
(* The messages process() is called with are those of the abstract book. *)
LEMMA SameMessages ==
    /\ \A stock \in Stocks, id \in Ids, side \in Sides, q \in Quantities, p \in Prices :
          [type |-> "AddOrder", stock |-> stock, id |-> id, side |-> side,
           quantity |-> q, price |-> p] \in Promise!Messages
    /\ \A id \in Ids, q \in Quantities :
          /\ [type |-> "OrderExecuted", id |-> id, quantity |-> q] \in Promise!Messages
          /\ [type |-> "OrderCancel", id |-> id, quantity |-> q] \in Promise!Messages
    /\ \A id \in Ids : [type |-> "OrderDelete", id |-> id] \in Promise!Messages
    /\ \A id, newid \in Ids, q \in Quantities, p \in Prices :
          [type |-> "OrderReplace", id |-> id, new_id |-> newid, quantity |-> q, price |-> p]
             \in Promise!Messages
    /\ [type |-> "Other"] \in Promise!Messages
  <1>1. \A stock \in Stocks, id \in Ids, side \in Sides, q \in Quantities, p \in Prices :
          [type |-> "AddOrder", stock |-> stock, id |-> id, side |-> side,
           quantity |-> q, price |-> p] \in Promise!Messages
    BY DEF Promise!Messages, Promise!Sides, Sides
  <1>2. \A id \in Ids, q \in Quantities :
          /\ [type |-> "OrderExecuted", id |-> id, quantity |-> q] \in Promise!Messages
          /\ [type |-> "OrderCancel", id |-> id, quantity |-> q] \in Promise!Messages
    BY DEF Promise!Messages
  <1>3. \A id \in Ids : [type |-> "OrderDelete", id |-> id] \in Promise!Messages
    BY DEF Promise!Messages
  <1>4. \A id, newid \in Ids, q \in Quantities, p \in Prices :
          [type |-> "OrderReplace", id |-> id, new_id |-> newid, quantity |-> q, price |-> p]
             \in Promise!Messages
    BY DEF Promise!Messages
  <1>5. [type |-> "Other"] \in Promise!Messages BY DEF Promise!Messages
  <1> QED BY <1>1, <1>2, <1>3, <1>4, <1>5

(* What the caller sees of a call that answers e and leaves the queues Q. *)
LEMMA Seen ==
    ASSUME NEW r, NEW e, NEW Q, Answers(r, e, Q), book' = r.book, result' = r.error
    PROVE  result' = e /\ Spec_queue' = Q
  <1>1. Spec_queue' = QueueOf(book') BY DEF Spec_queue, QueueOf
  <1> QED BY <1>1 DEF Answers

(* An add is one the abstract book allows. *)
LEMMA AddStep ==
    ASSUME NEW stock \in Stocks, NEW id \in Ids, NEW side \in Sides, NEW q \in Quantities,
           NEW p \in Prices, NEW r, book' = r.book, result' = r.error,
           message' = [type |-> "AddOrder", stock |-> stock, id |-> id, side |-> side,
                       quantity |-> q, price |-> p],
           IF symbol_matches(stock) THEN Added(book, r, id, side, p, q)
           ELSE Answers(r, "wrong_symbol", QueueOf(book))
    PROVE  Promise!Next
  <1> DEFINE m == message'
             Q == QueueOf(book)
             ok(e, Z) == result' = e /\ Spec_queue' = Z
  <1>1. \A e, Z : Answers(r, e, Z) => ok(e, Z) BY Seen
  <1>2. /\ m.type = "AddOrder" /\ m.stock = stock /\ m.id = id /\ m.side = side
        /\ m.quantity = q /\ m.price = p /\ m \in Promise!Messages
    BY SameMessages
  <1>3. Spec_queue = Q BY DEF Spec_queue, QueueOf
  <1> HIDE DEF m, Q
  <1>4. IF ~symbol_matches(stock) THEN ok("wrong_symbol", Q)
        ELSE IF q = 0 THEN ok("invalid_quantity", Q)
        ELSE IF Promise!Where(Q, id) # {} THEN ok("duplicate_order", Q)
        ELSE IF Cardinality(Promise!Resting(Q)) = MaxOrders THEN ok("order_pool_exhausted", Q)
        ELSE IF Promise!NoRoomAt(Q, side, p) THEN ok("level_pool_exhausted", Q)
        ELSE ok("none", Promise!WithLast(Q, side, p, id, q))
    <2> HIDE DEF ok
    <2> QED BY <1>1 DEF Added, Q
  <1>5. Promise!Cardinality(Promise!Resting(Q)) = Cardinality(Promise!Resting(Q))
    BY DEF Promise!Cardinality, Cardinality
  <1>6. Promise!Add(Q, m)
    BY <1>2, <1>4, <1>5 DEF Promise!Add, Promise!Refuse, Promise!Accept
  <1> QED BY <1>2, <1>3, <1>6 DEF Promise!Next, m

(* So is a call about an order that is not there. *)
LEMMA UnknownStep ==
    ASSUME NEW id \in Ids, Promise!Where(QueueOf(book), id) = {},
           NEW m, m \in Promise!Messages, message' = m, m.id = id,
           m.type \notin {"AddOrder", "Other"}, result' = "unknown_order", book' = book
    PROVE  Promise!Next
  <1>1. Spec_queue = QueueOf(book) /\ Spec_queue' = QueueOf(book')
    BY DEF Spec_queue, QueueOf
  <1>2. Spec_queue' = Spec_queue BY <1>1
  <1>3. Promise!Lifecycle(Spec_queue, message')
    BY <1>1, <1>2 DEF Promise!Lifecycle, Promise!Refuse
  <1> QED BY <1>3 DEF Promise!Next

(* An execution or a cancel. *)
LEMMA ReduceStep ==
    ASSUME NEW id \in Ids, NEW e \in Promise!Where(QueueOf(book), id), NEW n, NEW r,
           Reduced(book, r, e, n), book' = r.book, result' = r.error, NEW m,
           m \in Promise!Messages, message' = m, m.id = id, m.quantity = n,
           m.type \in {"OrderExecuted", "OrderCancel"}
    PROVE  Promise!Next
  <1> DEFINE Q == QueueOf(book)
             ok(x, Z) == result' = x /\ Spec_queue' = Z
  <1>1. \A x, Z : Answers(r, x, Z) => ok(x, Z) BY Seen
  <1>2. Spec_queue = Q BY DEF Spec_queue, QueueOf
  <1> HIDE DEF Q
  <1>3. IF n = 0 \/ n > Promise!At(Q, e).quantity THEN ok("invalid_quantity", Q)
        ELSE IF n = Promise!At(Q, e).quantity THEN ok("none", Promise!Without(Q, e))
        ELSE ok("none", [Q EXCEPT ![e[1]][e[2]][e[3]].quantity = @ - n])
    <2> HIDE DEF ok
    <2> QED BY <1>1 DEF Reduced, Q
  <1>4. Promise!Reduce(Q, e, n) BY <1>3 DEF Promise!Reduce, Promise!Refuse, Promise!Accept
  <1>5. Promise!Lifecycle(Q, m) BY <1>4 DEF Promise!Lifecycle, Q
  <1> QED BY <1>2, <1>5 DEF Promise!Next

(* A delete. *)
LEMMA DeleteStep ==
    ASSUME NEW id \in Ids, NEW e \in Promise!Where(QueueOf(book), id), NEW r,
           Answers(r, "none", Promise!Without(QueueOf(book), e)), book' = r.book,
           result' = r.error, NEW m, m \in Promise!Messages, message' = m, m.id = id,
           m.type = "OrderDelete"
    PROVE  Promise!Next
  <1>1. result' = "none" /\ Spec_queue' = Promise!Without(QueueOf(book), e) BY Seen
  <1>2. Spec_queue = QueueOf(book) BY DEF Spec_queue, QueueOf
  <1>3. Promise!Lifecycle(QueueOf(book), m) BY <1>1 DEF Promise!Lifecycle, Promise!Accept
  <1> QED BY <1>2, <1>3 DEF Promise!Next

(* A replace. *)
LEMMA ReplaceStep ==
    ASSUME NEW id \in Ids, NEW e \in Promise!Where(QueueOf(book), id), NEW newid, NEW p, NEW q,
           NEW r, Replaced(book, r, e, id, newid, p, q), book' = r.book, result' = r.error,
           NEW m, m \in Promise!Messages, message' = m, m.id = id, m.new_id = newid,
           m.price = p, m.quantity = q, m.type = "OrderReplace"
    PROVE  Promise!Next
  <1> DEFINE Q == QueueOf(book)
             ok(x, Z) == result' = x /\ Spec_queue' = Z
  <1>1. \A x, Z : Answers(r, x, Z) => ok(x, Z) BY Seen
  <1>2. Spec_queue = Q BY DEF Spec_queue, QueueOf
  <1> HIDE DEF Q
  <1>3. IF q = 0 THEN ok("invalid_quantity", Q)
        ELSE IF newid # id /\ Promise!Where(Q, newid) # {} THEN ok("duplicate_order", Q)
        ELSE IF p # e[2] /\ Promise!NoRoomAt(Q, e[1], p) THEN ok("level_pool_exhausted", Q)
        ELSE ok("none", Promise!WithLast(Promise!Without(Q, e), e[1], p, newid, q))
    <2> HIDE DEF ok
    <2> QED BY <1>1 DEF Replaced, Q
  <1>4. Promise!Replace(Q, e, m) BY <1>3 DEF Promise!Replace, Promise!Refuse, Promise!Accept
  <1>5. Promise!Lifecycle(Q, m) BY <1>4 DEF Promise!Lifecycle, Q
  <1> QED BY <1>2, <1>5 DEF Promise!Next
-----------------------------------------------------------------------------
(* The rows of the book, and what a step must do to them. *)
InRows == \E W : Lines(book, W)

(* The constructor's book has no row. *)
LEMMA FreshRows == Init => InRows /\ Promise!Init
  <1> SUFFICES ASSUME Init PROVE InRows /\ Promise!Init OBVIOUS
  <1> DEFINE W == [s \in Sides |-> [p \in Prices |-> <<>>]]
  <1>1. book.index = [s \in Sides |-> [p \in Prices |-> none]] BY DEF Init
  <1>2. Lines(book, W) BY <1>1 DEF Lines
  <1>3. Spec_queue = W BY <1>1 DEF Spec_queue
  <1>4. Promise!Init BY <1>3 DEF Init, Promise!Init, Promise!Sides, Sides
  <1> QED BY <1>2, <1>4 DEF InRows

(* Every call of process() is one step of the abstract book. *)
LEMMA StepRefines ==
    ASSUME Inv, InRows, Next
    PROVE  InRows' /\ Promise!Next
  <1>0. BookInv(book) BY DEF Inv
  <1>1. PICK W : Lines(book, W) BY DEF InRows
  <1>2. ASSUME NEW r, NEW V, Lines(r.book, V), book' = r.book PROVE InRows' BY <1>2 DEF InRows
  <1>3. ASSUME NEW stock \in Stocks, NEW id \in Ids, NEW side \in Sides, NEW q \in Quantities,
               NEW p \in Prices, AddOrder(stock, id, side, q, p)
        PROVE  InRows' /\ Promise!Next
    <2> DEFINE a == add(book, id, side, q, p)
               r == IF symbol_matches(stock) THEN a ELSE Return(book, "wrong_symbol")
    <2>1. /\ book' = r.book /\ result' = r.error
          /\ message' = [type |-> "AddOrder", stock |-> stock, id |-> id, side |-> side,
                         quantity |-> q, price |-> p]
      BY <1>3 DEF AddOrder, Finish
    <2>2. Added(book, a, id, side, p, q) /\ \E V : Lines(a.book, V) BY <1>0, <1>1, AddAnswers
    <2> HIDE DEF a
    <2>3. /\ IF symbol_matches(stock) THEN Added(book, r, id, side, p, q)
             ELSE Answers(r, "wrong_symbol", QueueOf(book))
          /\ \E V : Lines(r.book, V)
      <3>1. CASE symbol_matches(stock) BY <2>2, <3>1
      <3>2. CASE ~symbol_matches(stock)
        <4>1. r.book = book /\ r.error = "wrong_symbol" BY <3>2 DEF Return
        <4> QED BY <1>1, <3>2, <4>1 DEF Answers
      <3> QED BY <3>1, <3>2
    <2> HIDE DEF r
    <2> QED BY <1>2, <2>1, <2>3, AddStep
  <1>4. ASSUME NEW id \in Ids, book.lookup[id] = none, NEW m \in Promise!Messages,
               m.id = id, m.type \notin {"AddOrder", "Other"},
               Finish(m, Return(book, "unknown_order"))
        PROVE  InRows' /\ Promise!Next
    <2>1. book' = book /\ result' = "unknown_order" /\ message' = m BY <1>4 DEF Finish, Return
    <2>2. Promise!Where(QueueOf(book), id) = {} BY <1>0, <1>1, <1>4, FoundNowhere
    <2>3. InRows' BY <1>1, <2>1 DEF InRows
    <2> QED BY <1>4, <2>1, <2>2, <2>3, UnknownStep
  <1>5. ASSUME NEW id \in Ids, book.lookup[id] # none
        PROVE  \E o, s, p, k : /\ o = book.lookup[id] /\ s = book.orders[o].side
                               /\ p = book.orders[o].price /\ o \in Live(book)
                               /\ s \in Sides /\ p \in Prices
                               /\ StandsAt(book, W, id, o, s, p, k)
    <2> DEFINE o == book.lookup[id]
               s == book.orders[o].side
               p == book.orders[o].price
    <2>1. o = book.lookup[id] /\ s = book.orders[o].side /\ p = book.orders[o].price OBVIOUS
    <2> HIDE DEF o, s, p
    <2>2. /\ o \in Live(book) /\ s \in Sides /\ p \in Prices
          /\ \E k : StandsAt(book, W, id, o, s, p, k)
      BY <1>0, <1>1, <1>5, <2>1, FoundAt
    <2> QED BY <2>1, <2>2
  <1>6. ASSUME NEW id \in Ids, NEW q \in Quantities, OrderExecuted(id, q) \/ OrderCancel(id, q)
        PROVE  InRows' /\ Promise!Next
    <2> DEFINE r == execute(book, id, q)
    <2>1. PICK m : /\ m \in Promise!Messages /\ m.id = id /\ m.quantity = q
                   /\ m.type \in {"OrderExecuted", "OrderCancel"} /\ Finish(m, r)
      BY <1>6, SameMessages DEF OrderExecuted, OrderCancel, cancel
    <2>2. CASE book.lookup[id] = none
      <3>1. r = Return(book, "unknown_order") BY <2>2 DEF execute, lookup_find
      <3> QED BY <1>4, <2>1, <2>2, <3>1
    <2>3. CASE book.lookup[id] # none
      <3>1. PICK o, s, p, k : /\ o = book.lookup[id] /\ o \in Live(book)
                              /\ s \in Sides /\ p \in Prices
                              /\ StandsAt(book, W, id, o, s, p, k)
        BY <1>5, <2>3
      <3>2. r = reduce(book, o, q) BY <2>3, <3>1 DEF execute, lookup_find
      <3> HIDE DEF r
      <3>3. Reduced(book, r, <<s, p, k>>, q) /\ \E V : Lines(r.book, V)
        BY <1>0, <1>1, <3>1, <3>2, ReduceAnswers
      <3>4. <<s, p, k>> \in Promise!Where(QueueOf(book), id) BY <3>1 DEF StandsAt
      <3>5. book' = r.book /\ result' = r.error /\ message' = m BY <2>1 DEF Finish
      <3>6. Promise!Next BY <2>1, <3>3, <3>4, <3>5, ReduceStep
      <3> QED BY <1>2, <3>3, <3>5, <3>6
    <2> QED BY <2>2, <2>3
  <1>7. ASSUME NEW id \in Ids, OrderDelete(id)
        PROVE  InRows' /\ Promise!Next
    <2> DEFINE r == erase(book, id)
    <2>1. PICK m : /\ m \in Promise!Messages /\ m.id = id /\ m.type = "OrderDelete"
                   /\ Finish(m, r)
      BY <1>7, SameMessages DEF OrderDelete
    <2>2. CASE book.lookup[id] = none
      <3>1. r = Return(book, "unknown_order") BY <2>2 DEF erase, lookup_find
      <3> QED BY <1>4, <2>1, <2>2, <3>1
    <2>3. CASE book.lookup[id] # none
      <3>1. PICK o, s, p, k : /\ o = book.lookup[id] /\ o \in Live(book)
                              /\ s \in Sides /\ p \in Prices
                              /\ StandsAt(book, W, id, o, s, p, k)
        BY <1>5, <2>3
      <3> DEFINE c == drop(book, o)
      <3>2. r.book = c /\ r.error = "none" BY <2>3, <3>1 DEF erase, lookup_find, Return
      <3>3. QueueOf(c) = Promise!Without(QueueOf(book), <<s, p, k>>) /\ \E V : Lines(c, V)
        BY <1>0, <1>1, <3>1, DropAnswers
      <3> HIDE DEF r, c
      <3>4. Answers(r, "none", Promise!Without(QueueOf(book), <<s, p, k>>))
        BY <3>2, <3>3 DEF Answers
      <3>5. <<s, p, k>> \in Promise!Where(QueueOf(book), id) BY <3>1 DEF StandsAt
      <3>6. book' = r.book /\ result' = r.error /\ message' = m BY <2>1 DEF Finish
      <3>7. Promise!Next BY <2>1, <3>4, <3>5, <3>6, DeleteStep
      <3> QED BY <1>2, <3>2, <3>3, <3>6, <3>7
    <2> QED BY <2>2, <2>3
  <1>8. ASSUME NEW id \in Ids, NEW newid \in Ids, NEW q \in Quantities, NEW p \in Prices,
               OrderReplace(id, newid, q, p)
        PROVE  InRows' /\ Promise!Next
    <2> DEFINE r == replace(book, id, newid, q, p)
    <2>1. PICK m : /\ m \in Promise!Messages /\ m.id = id /\ m.new_id = newid
                   /\ m.quantity = q /\ m.price = p /\ m.type = "OrderReplace" /\ Finish(m, r)
      BY <1>8, SameMessages DEF OrderReplace
    <2>2. CASE book.lookup[id] = none
      <3>1. r = Return(book, "unknown_order") BY <2>2 DEF replace, lookup_find
      <3> QED BY <1>4, <2>1, <2>2, <3>1
    <2>3. CASE book.lookup[id] # none
      <3>1. PICK o, s, w, k : /\ o = book.lookup[id] /\ s = book.orders[o].side
                              /\ w = book.orders[o].price
                              /\ StandsAt(book, W, id, o, s, w, k)
        BY <1>5, <2>3
      <3>2. r = replace(book, id, newid, q, p) OBVIOUS
      <3> HIDE DEF r
      <3>3. Replaced(book, r, <<s, w, k>>, id, newid, p, q) /\ \E V : Lines(r.book, V)
        BY <1>0, <1>1, <2>3, <3>1, <3>2, ReplaceAnswers
      <3>4. <<s, w, k>> \in Promise!Where(QueueOf(book), id) BY <3>1 DEF StandsAt
      <3>5. book' = r.book /\ result' = r.error /\ message' = m BY <2>1 DEF Finish
      <3>6. Promise!Next BY <2>1, <3>3, <3>4, <3>5, ReplaceStep
      <3> QED BY <1>2, <3>3, <3>5, <3>6
    <2> QED BY <2>2, <2>3
  <1>9. ASSUME OtherMessage PROVE InRows' /\ Promise!Next
    <2>1. book' = book /\ result' = "none" /\ message' = [type |-> "Other"]
      BY <1>9 DEF OtherMessage, Finish, Return
    <2>2. InRows' BY <1>1, <2>1 DEF InRows
    <2>3. Spec_queue' = Spec_queue BY <2>1 DEF Spec_queue
    <2>4. Promise!Accept(Spec_queue) BY <2>1, <2>3 DEF Promise!Accept
    <2> QED BY <2>1, <2>2, <2>4, SameMessages DEF Promise!Next
  <1> QED BY <1>3, <1>6, <1>7, <1>8, <1>9 DEF Next

(* Whatever the capacities and the messages, process() answers as the      *)
(* abstract book does and leaves the queues it would: each price has its   *)
(* orders in the order of their arrival, an error changes nothing, and     *)
(* replace() is all or nothing.                                            *)
THEOREM BookImplements == Spec => ImplementsBookSpec
  <1>1. Init => Inv /\ InRows /\ Promise!Init
    <2>1. Init => result \in BookErrors /\ stats \in [accepted : Nat, ignored : Nat, rejected : Nat]
      BY DEF Init, BookErrors
    <2> QED BY <2>1, FreshBook, FreshRows DEF Inv
  <1>2. Inv /\ InRows /\ [Next]_vars =>
           (Inv /\ InRows)' /\ [Promise!Next]_<<Spec_queue, message, result>>
    <2> SUFFICES ASSUME Inv, InRows, [Next]_vars
                 PROVE  (Inv /\ InRows)' /\ [Promise!Next]_<<Spec_queue, message, result>>
      OBVIOUS
    <2>1. Inv' BY StepKeeps
    <2>2. CASE Next BY <2>1, <2>2, StepRefines
    <2>3. CASE UNCHANGED vars
      <3>1. InRows' BY <2>3 DEF InRows, vars
      <3>2. Spec_queue' = Spec_queue /\ message' = message /\ result' = result
        BY <2>3 DEF Spec_queue, vars
      <3> QED BY <2>1, <3>1, <3>2
    <2> QED BY <2>2, <2>3
  <1> QED BY <1>1, <1>2, PTL DEF Spec, ImplementsBookSpec, Promise!Spec
=============================================================================
