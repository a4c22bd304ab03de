----------------------------- MODULE LevelTree ------------------------------
(***************************************************************************)
(* book::OrderBook's price index: one AVL tree per side, with parent links,*)
(* over the pool of price levels that both sides share.  Operators take    *)
(* the tree t, a side s and slots of the pool, and return the tree; every  *)
(* loop is taken one iteration per step, a call begins and ends at "idle". *)
(* Fields of a level that belong to its queue are in module OrderBook.     *)
(***************************************************************************)
EXTENDS Integers, Sequences, FiniteSets, SequencesExt

CONSTANTS Prices,
          Quoted,     \* the prices that orders of each side have
          MaxLevels,
          Spans       \* the sizes of depth()'s output

none == -1
Sides == {"buy", "sell"}
LevelIndex == 0 .. MaxLevels - 1

ASSUME TreeAssumption ==
    /\ Prices \subseteq Nat /\ Quoted \in [Sides -> SUBSET Prices]
    /\ MaxLevels \in Nat \ {0} /\ Spans \subseteq Nat

VARIABLES tree,         \* the levels, member by member, the free list and the two roots
          index,        \* the slot that the orders of a side and price have as their level
          pc,           \* the loop that the call is in
          side, asked,  \* the call's side and price
          at,           \* the level its loop has come to
          fresh,        \* the level acquired and not yet in the tree
          size, out     \* depth()'s output
vars == <<tree, index, pc, side, asked, at, fresh, size, out>>
-----------------------------------------------------------------------------
(* child["left"] and child["right"] are the two members of a level. *)
other(d) == IF d = "left" THEN "right" ELSE "left"

height(t, c) == IF c = none THEN 0 ELSE t.height[c]

update(t, c) ==
    LET l == height(t, t.child["left"][c])
        r == height(t, t.child["right"][c])
    IN  [t EXCEPT !.height[c] = 1 + (IF l > r THEN l ELSE r)]

set_parent(t, c, p) == IF c = none THEN t ELSE [t EXCEPT !.parent[c] = p]
set_child(t, d, p, c) == [t EXCEPT !.child[d][p] = c]

replace_child(t, s, p, oldc, newc) ==
    set_parent(IF p = none THEN [t EXCEPT !.root[s] = newc]
               ELSE IF t.child["left"][p] = oldc THEN set_child(t, "left", p, newc)
               ELSE set_child(t, "right", p, newc),
               newc, p)

(* rotate_left() and rotate_right(): x goes down on its side d and its     *)
(* other child takes its place.                                            *)
rotate_drops_beta(t, s, x, d) ==
    LET y  == t.child[other(d)][x]
        t1 == replace_child(t, s, t.parent[x], x, y)
        t2 == set_parent(set_child(t1, d, y, x), x, y)
    IN  update(update(set_child(t2, other(d), x, none), x), y)
rotate(t, s, x, d) ==
    LET y    == t.child[other(d)][x]
        beta == t.child[d][y]
        t1   == replace_child(t, s, t.parent[x], x, y)
        t2   == set_parent(set_child(t1, d, y, x), x, y)
        t3   == set_parent(set_child(t2, other(d), x, beta), beta, x)
    IN  update(update(t3, x), y)

(* The rotations of rebalance_up() at c, whose side d is too tall. *)
lower(t, s, c, d) ==
    LET k == t.child[d][c]
    IN  rotate(IF height(t, t.child[d][k]) < height(t, t.child[other(d)][k])
               THEN rotate(t, s, k, d) ELSE t,
               s, c, other(d))

balance(t, c) == height(t, t.child["left"][c]) - height(t, t.child["right"][c])
restore(t, s, c) == IF balance(t, c) > 1 THEN lower(t, s, c, "left")
                    ELSE IF balance(t, c) < -1 THEN lower(t, s, c, "right")
                    ELSE t
(* What is on top where c was. *)
top(t, new, c) == IF balance(t, c) \in -1 .. 1 THEN c ELSE new.parent[c]

toward(t, c, p) == t.child[IF p < t.price[c] THEN "left" ELSE "right"][c]

level_acquire(t, p) ==
    LET c == Head(t.free_level)
    IN  [t EXCEPT !.price[c] = p, !.active[c] = TRUE, !.height[c] = 1, !.parent[c] = none,
                  !.child["left"][c] = none, !.child["right"][c] = none,
                  !.free_level = Tail(@), !.active_levels = @ + 1]

cleared(t, c) ==
    [t EXCEPT !.price[c] = 0, !.active[c] = FALSE, !.height[c] = 1, !.parent[c] = none,
              !.child["left"][c] = none, !.child["right"][c] = none,
              !.active_levels = @ - 1]
level_release_leaks(t, c) == cleared(t, c)
level_release(t, c) == [cleared(t, c) EXCEPT !.free_level = <<c>> \o @]

(* z has two children: its successor y takes its place, links and all. *)
splice(t, s, z, y) ==
    LET t1 == IF t.parent[y] = z THEN t
              ELSE set_parent(set_child(replace_child(t, s, t.parent[y], y, t.child["right"][y]),
                                        "right", y, t.child["right"][z]),
                              t.child["right"][z], y)
        t2 == set_child(replace_child(t1, s, t1.parent[z], z, y), "left", y, t1.child["left"][z])
    IN  update(set_parent(t2, t1.child["left"][z], y), y)
-----------------------------------------------------------------------------
Init ==
    /\ tree = [price |-> [c \in LevelIndex |-> 0], active |-> [c \in LevelIndex |-> FALSE],
               height |-> [c \in LevelIndex |-> 1], parent |-> [c \in LevelIndex |-> none],
               child |-> [d \in {"left", "right"} |-> [c \in LevelIndex |-> none]],
               root |-> [s \in Sides |-> none],
               free_level |-> [c \in 1 .. MaxLevels |-> c - 1], active_levels |-> 0]
    /\ index = [s \in Sides |-> [p \in Prices |-> none]]
    /\ pc = "idle" /\ side = "buy" /\ asked = 0 /\ at = none /\ fresh = none
    /\ size = 0 /\ out = <<>>

Goto(place, c) == pc' = place /\ at' = c
Call(s, p) == pc = "idle" /\ side' = s /\ asked' = p
SameCall == UNCHANGED <<side, asked, size, out>>

(* level_find(), for replace() and within level_get_or_add() *)
level_find(s, p, place) ==
    /\ Call(s, p) /\ Goto(place, tree.root[s])
    /\ UNCHANGED <<tree, index, fresh, size, out>>

Found == IF at = none THEN TRUE ELSE tree.price[at] = asked
FindNext ==
    /\ pc \in {"find", "get"} /\ ~Found
    /\ Goto(pc, toward(tree, at, asked)) /\ SameCall /\ UNCHANGED <<tree, index, fresh>>
FindReturn ==
    /\ pc \in {"find", "get"} /\ Found
    /\ pc = "get" => at # none \/ tree.free_level = <<>>   \* there, or level_pool_exhausted
    /\ Goto("idle", none) /\ SameCall /\ UNCHANGED <<tree, index, fresh>>

(* level_get_or_add(): the new level, and the way to its place *)
Acquire ==
    /\ pc = "get" /\ at = none /\ tree.free_level # <<>>
    /\ LET c == Head(tree.free_level)
           t == level_acquire(tree, asked)
       IN  IF t.root[side] = none
           THEN /\ tree' = [t EXCEPT !.root[side] = c]
                /\ index' = [index EXCEPT ![side][asked] = c]
                /\ Goto("idle", none) /\ UNCHANGED fresh
           ELSE /\ tree' = t /\ fresh' = c
                /\ Goto("descend", t.root[side]) /\ UNCHANGED index
    /\ SameCall
Descend ==
    /\ pc = "descend" /\ toward(tree, at, asked) # none
    /\ Goto("descend", toward(tree, at, asked)) /\ SameCall /\ UNCHANGED <<tree, index, fresh>>
Attach ==
    /\ pc = "descend" /\ toward(tree, at, asked) = none
    /\ LET d == IF asked < tree.price[at] THEN "left" ELSE "right"
       IN  tree' = set_child(set_parent(tree, fresh, at), d, at, fresh)
    /\ index' = [index EXCEPT ![side][asked] = fresh]
    /\ fresh' = none /\ Goto("rebalance", at) /\ SameCall

(* One iteration of rebalance_up() *)
Climbs(c) == Goto(IF c = none THEN "idle" ELSE "rebalance", c)
rebalance_up_stays(t) == LET new == restore(t, side, at) IN tree' = new /\ Climbs(top(t, new, at))
rebalance_up(t) ==
    LET new == restore(t, side, at) IN tree' = new /\ Climbs(new.parent[top(t, new, at)])
Rebalance ==
    pc = "rebalance" /\ rebalance_up(update(tree, at)) /\ SameCall /\ UNCHANGED <<index, fresh>>

(* level_remove() *)
Drop(t, z, from_rebalance) ==
    /\ tree' = level_release(t, z) /\ index' = [index EXCEPT ![side'][asked'] = none]
    /\ Climbs(from_rebalance) /\ UNCHANGED <<fresh, size, out>>
level_remove(s, p) ==
    /\ Call(s, p) /\ index[s][p] # none
    /\ LET z == index[s][p]
           l == tree.child["left"][z]
           r == tree.child["right"][z]
       IN  IF l = none \/ r = none
           THEN Drop(replace_child(tree, s, tree.parent[z], z, IF l = none THEN r ELSE l),
                     z, tree.parent[z])
           ELSE Goto("successor", r) /\ UNCHANGED <<tree, index, fresh, size, out>>
Successor ==
    /\ pc = "successor" /\ tree.child["left"][at] # none
    /\ Goto("successor", tree.child["left"][at]) /\ SameCall /\ UNCHANGED <<tree, index, fresh>>
Splice_rebalances_above ==
    LET z == index[side][asked]
    IN  /\ pc = "successor" /\ tree.child["left"][at] = none
        /\ UNCHANGED <<side, asked>>
        /\ Drop(splice(tree, side, z, at), z, tree.parent[z])
Splice ==
    LET z == index[side][asked]
    IN  /\ pc = "successor" /\ tree.child["left"][at] = none
        /\ UNCHANGED <<side, asked>>
        /\ Drop(splice(tree, side, z, at), z,
                IF tree.parent[at] = z THEN at ELSE tree.parent[at])
-----------------------------------------------------------------------------
(* depth(); best_bid() and best_ask() are its first level.  The walk goes  *)
(* down on the worse side or else up to the first ancestor on that side.   *)
better_side == IF side = "buy" THEN "right" ELSE "left"
worse_side == other(better_side)
Same == UNCHANGED <<tree, index, side, asked, fresh, size>>

depth(s, n) ==
    /\ Call(s, 0) /\ size' = n
    /\ Goto(IF tree.root[s] = none THEN "written" ELSE "extreme", tree.root[s])
    /\ UNCHANGED <<tree, index, fresh, out>>
Extreme ==
    /\ pc = "extreme"
    /\ LET next == tree.child[better_side][at]
       IN  IF next # none THEN Goto("extreme", next) ELSE Goto("write", at)
    /\ Same /\ UNCHANGED out
Write ==
    /\ pc = "write" /\ Len(out) < size
    /\ out' = Append(out, tree.price[at])
    /\ LET next == tree.child[worse_side][at]
       IN  IF next # none THEN Goto("extreme", next) ELSE Goto("climb", at)
    /\ Same
SpanFull ==
    /\ pc = "write" /\ Len(out) >= size /\ Goto("written", none) /\ Same /\ UNCHANGED out
Climb_once ==
    /\ pc = "climb"
    /\ LET p == tree.parent[at] IN Goto(IF p = none THEN "written" ELSE "write", p)
    /\ Same /\ UNCHANGED out
Climb ==
    /\ pc = "climb"
    /\ LET p == tree.parent[at]
       IN  IF p # none /\ tree.child[worse_side][p] = at THEN Goto("climb", p)
           ELSE Goto(IF p = none THEN "written" ELSE "write", p)
    /\ Same /\ UNCHANGED out
Return ==
    /\ pc = "written" /\ Goto("idle", none) /\ out' = <<>> /\ Same

Next ==
    \/ \E s \in Sides : \E p \in Quoted[s] : level_find(s, p, "find") \/ level_find(s, p, "get") \/ level_remove(s, p)
    \/ FindNext \/ FindReturn \/ Acquire \/ Descend \/ Attach
    \/ Rebalance \/ Successor \/ Splice
    \/ \E s \in Sides, n \in Spans : depth(s, n)
    \/ Extreme \/ Write \/ SpanFull \/ Climb \/ Return
Spec == Init /\ [][Next]_vars
-----------------------------------------------------------------------------
Active == {c \in LevelIndex : tree.active[c]}

(* level_find() ends at the very level the orders of the price refer to by *)
(* its slot, or at none if the side has no such price, after any sequence  *)
(* of insertions, removals and rotations; and no level changes its price   *)
(* or serves two of them.                                                  *)
FindExact ==
    /\ pc \in {"find", "get"} /\ Found => at = index[side][asked]
    /\ \A s \in Sides, p \in Prices : index[s][p] # none =>
          /\ index[s][p] \in Active /\ tree.price[index[s][p]] = p
          /\ \A r \in Sides, q \in Prices : index[r][q] = index[s][p] => r = s /\ q = p

(* rebalance_up() leaves AVL trees: the links of parents and children      *)
(* agree, stored heights are true, and no two sibling subtrees differ by   *)
(* more than one level, so every search is logarithmic.                    *)
Balanced ==
    pc = "idle" =>
        /\ \A s \in Sides : tree.root[s] # none => tree.parent[tree.root[s]] = none
        /\ \A c \in Active :
              LET l == tree.child["left"][c]
                  r == tree.child["right"][c]
                  p == tree.parent[c]
              IN  /\ \A k \in {l, r} \ {none} : k \in Active /\ tree.parent[k] = c
                  /\ p # none => c \in {tree.child["left"][p], tree.child["right"][p]}
                  /\ tree.height[c] = 1 + (IF height(tree, l) > height(tree, r)
                                           THEN height(tree, l) ELSE height(tree, r))
                  /\ balance(tree, c) \in -1 .. 1

(* The sides share the pool without losing a level or handing one out      *)
(* twice: free levels and those that orders refer to make up the pool.     *)
PoolExact ==
    /\ IsInjective(tree.free_level)
    /\ Range(tree.free_level) = LevelIndex \ Active
    /\ tree.active_levels = Cardinality(Active)
    /\ Active = ({index[s][p] : s \in Sides, p \in Prices} \cup {fresh}) \ {none}

(* depth() writes the best prices of a side in order, as many as fit, and  *)
(* best_bid() and best_ask() are the first of them: the walk through       *)
(* children and parents neither skips a level nor returns to one.          *)
better(a, b) == IF side = "buy" THEN a > b ELSE a < b
Resting(s) == {p \in Prices : index[s][p] # none}
DepthExact ==
    /\ Range(out) \subseteq Resting(side) /\ Len(out) <= size
    /\ \A m, n \in 1 .. Len(out) : m < n => better(out[m], out[n])
    /\ pc \in {"extreme", "write", "climb", "written"} =>
          \A p \in Resting(side) \ Range(out), q \in Range(out) : better(q, p)
    /\ pc = "written" /\ Len(out) < size => Range(out) = Resting(side)

(* No loop runs in a circle: each iteration leads to a level of lesser     *)
(* height on the way down, of greater height on the way up, so no loop     *)
(* takes more iterations than the tree is high.                            *)
LoopsEnd ==
    [][pc' = pc /\ at' # none =>
          /\ pc \in {"find", "get", "descend", "successor", "extreme"} =>
                tree.height[at'] < tree.height[at]
          /\ pc \in {"rebalance", "climb"} => tree.height[at'] > tree.height[at]]_vars
=============================================================================
