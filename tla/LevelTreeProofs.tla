-------------------------- MODULE LevelTreeProofs ---------------------------
(***************************************************************************)
(* The price index for every size of the pool and every set of prices.     *)
(***************************************************************************)
EXTENDS LevelTree, FiniteSetTheorems, SequenceTheorems, TLAPS

Dirs == {"left", "right"}
Slot == LevelIndex \cup {none}
before(d, a, b) == IF d = "left" THEN a < b ELSE b < a

TreeType ==
    [price : [LevelIndex -> Nat], active : [LevelIndex -> BOOLEAN],
     height : [LevelIndex -> Nat], parent : [LevelIndex -> Slot],
     child : [Dirs -> [LevelIndex -> Slot]], root : [Sides -> Slot],
     free_level : Seq(LevelIndex), active_levels : Int]

Used(t) == {c \in LevelIndex : t.active[c]}

(* S[c] is the set of the levels of the subtree of c. *)
Below(t, S) ==
    /\ S \in [Slot -> SUBSET Used(t)] /\ S[none] = {}
    /\ \A c \in Used(t) : S[c] = {c} \cup S[t.child["left"][c]] \cup S[t.child["right"][c]]
Linked(t) ==
    /\ \A c \in Used(t), d \in Dirs : t.child[d][c] # none =>
          t.child[d][c] \in Used(t) /\ t.parent[t.child[d][c]] = c
    /\ \A c \in Used(t) : t.parent[c] # none =>
          t.parent[c] \in Used(t) /\ \E d \in Dirs : t.child[d][t.parent[c]] = c
Ordered(t, S) ==
    \A c \in Used(t), d \in Dirs : \A j \in S[t.child[d][c]] : before(d, t.price[j], t.price[c])
Nested(t, S) ==
    \A k \in Used(t) : \A j \in S[k] : S[j] \subseteq S[k] /\ (j # k => t.parent[j] \in S[k])
Rooted(t, S, n) ==
    /\ \A s \in Sides : t.root[s] # none => t.root[s] \in Used(t) /\ t.parent[t.root[s]] = none
    /\ \A c \in Used(t) : t.parent[c] = none /\ c # n => \E s \in Sides : t.root[s] = c
    /\ S[t.root["buy"]] \cap S[t.root["sell"]] = {}
    /\ \A c \in Used(t) : c # n => \E s \in Sides : c \in S[t.root[s]]
    /\ \A s \in Sides : n \notin S[t.root[s]]
Convex(t, S) ==
    \A s \in Sides : \A c, j \in S[t.root[s]] : \A a, b \in S[c] :
        t.price[a] < t.price[j] /\ t.price[j] < t.price[b] => j \in S[c]
Indexed(t, ix, S) ==
    /\ \A s \in Sides : \A j \in S[t.root[s]] : t.price[j] \in Prices /\ ix[s][t.price[j]] = j
    /\ \A s \in Sides, p \in Prices : ix[s][p] # none =>
          ix[s][p] \in S[t.root[s]] /\ t.price[ix[s][p]] = p
Forest(t, S, n) == /\ t \in TreeType /\ Below(t, S) /\ Linked(t) /\ Ordered(t, S) /\ Nested(t, S)
                   /\ Rooted(t, S, n) /\ Convex(t, S)

(* Heights, while level w is to be repaired and its parent still knows it  *)
(* with height b.                                                          *)
Even(h, l, r) == h = 1 + (IF l > r THEN l ELSE r) /\ l - r \in -1 .. 1
Near(l, r, x, y) == (x = l /\ y - r \in -1 .. 1) \/ (y = r /\ x - l \in -1 .. 1)
known(t, w, b, c) == IF c = w /\ w # none THEN b ELSE height(t, c)
Heights(t, w, b) ==
    /\ \A c \in Used(t) : t.height[c] > 0
    /\ \A c \in Used(t) : c # w =>
          Even(t.height[c], known(t, w, b, t.child["left"][c]), known(t, w, b, t.child["right"][c]))
    /\ w # none => /\ b \in Nat /\ t.height[w] <= b
                   /\ \E l, r \in Nat :
                         /\ Even(b, l, r)
                         /\ Near(l, r, height(t, t.child["left"][w]), height(t, t.child["right"][w]))

Pool(t) ==
    /\ IsInjective(t.free_level) /\ Range(t.free_level) = LevelIndex \ Used(t)
    /\ t.active_levels = Cardinality(Used(t))

(* Where a call is. *)
Searching(t, S) ==
    /\ at # none => at \in S[t.root[side]]
    /\ \A j \in S[t.root[side]] : t.price[j] = asked => j \in S[at]
Descending(t, S) ==
    /\ fresh \in Used(t) /\ t.parent[fresh] = none /\ t.price[fresh] = asked
    /\ \A d \in Dirs : t.child[d][fresh] = none
    /\ index[side][asked] = none /\ at \in S[t.root[side]]
    /\ \A j \in S[t.root[side]] \ S[at] : asked < t.price[j] <=> t.price[at] < t.price[j]
Succeeding(t, S) ==
    LET z == index[side][asked]
    IN  /\ z # none /\ t.child["left"][z] # none /\ at \in S[t.child["right"][z]]
        /\ \A j \in S[t.child["right"][z]] \ S[at], k \in S[at] : t.price[k] < t.price[j]

Written(t, c) == t.price[c] \in Range(out)
Walked(t, S) ==
    \A j \in S[t.root[side]] : ~Written(t, j) => \A q \in Range(out) : better(q, t.price[j])
AtExtreme(t, S) ==
    /\ at \in S[t.root[side]] /\ \A k \in S[at] : ~Written(t, k)
    /\ \A j \in S[t.root[side]] \ S[at] : ~Written(t, j) =>
          \A k \in S[at] : better(t.price[k], t.price[j])
AtWrite(t, S) ==
    /\ at \in S[t.root[side]] /\ ~Written(t, at)
    /\ \A j \in S[t.root[side]] : ~Written(t, j) /\ j # at => better(t.price[at], t.price[j])
AtClimb(t, S) ==
    /\ at \in S[t.root[side]] /\ \A k \in S[at] : Written(t, k)
    /\ out # <<>> /\ \E k \in S[at] : out[Len(out)] = t.price[k]

CallInv(t, S) ==
    /\ pc \in {"idle", "find", "get", "descend", "rebalance", "successor", "extreme", "write",
               "climb", "written"}
    /\ side \in Sides /\ size \in Nat /\ at \in Slot /\ out \in Seq(Nat)
    /\ pc \in {"find", "get", "descend", "successor"} => asked \in Prices
    /\ pc # "descend" => fresh = none
    /\ pc \in {"find", "get"} => Searching(t, S)
    /\ pc = "descend" => Descending(t, S)
    /\ pc = "rebalance" => at \in S[t.root[side]]
    /\ pc = "successor" => Succeeding(t, S)
    /\ pc \in {"extreme", "write", "climb", "written"} => Walked(t, S)
    /\ pc \notin {"extreme", "write", "climb", "written"} => out = <<>>
    /\ pc = "extreme" => AtExtreme(t, S)
    /\ pc = "write" => AtWrite(t, S)
    /\ pc = "climb" => AtClimb(t, S)
    /\ pc = "written" /\ Len(out) < size => \A j \in S[t.root[side]] : Written(t, j)
    /\ Len(out) <= size
    /\ \A m, n \in 1 .. Len(out) : m < n => better(out[m], out[n])
    /\ Range(out) \subseteq Resting(side)

Known(S) ==
    /\ Forest(tree, S, fresh) /\ Indexed(tree, index, S)
    /\ CallInv(tree, S)
TreeInv ==
    /\ \E S : Known(S)
    /\ \E b : Heights(tree, IF pc = "rebalance" THEN at ELSE none, b)
    /\ Pool(tree) /\ index \in [Sides -> [Prices -> Slot]]
-----------------------------------------------------------------------------
(* The range of none, and the two sides of a level. *)
LEMMA Basics ==
    /\ none \notin LevelIndex /\ none \in Slot /\ LevelIndex \subseteq Slot
    /\ \A d \in Dirs : other(d) \in Dirs /\ other(d) # d /\ other(other(d)) = d
                       /\ Dirs = {d, other(d)}
    /\ Prices \subseteq Nat
  <1>1. none \notin LevelIndex BY TreeAssumption DEF none, LevelIndex
  <1>2. \A d \in Dirs : other(d) \in Dirs /\ other(d) # d /\ other(other(d)) = d
                       /\ Dirs = {d, other(d)}
    BY DEF Dirs, other
  <1> QED BY <1>1, <1>2, TreeAssumption DEF Slot

(* The members of a tree. *)
LEMMA Fields ==
    ASSUME NEW t \in TreeType
    PROVE  /\ t.price \in [LevelIndex -> Nat] /\ t.active \in [LevelIndex -> BOOLEAN]
           /\ t.height \in [LevelIndex -> Nat] /\ t.parent \in [LevelIndex -> Slot]
           /\ t.child \in [Dirs -> [LevelIndex -> Slot]] /\ t.root \in [Sides -> Slot]
           /\ t.free_level \in Seq(LevelIndex) /\ t.active_levels \in Int
  BY DEF TreeType

(* What the links leave alone. *)
SameRest(t, u) ==
    /\ u.price = t.price /\ u.active = t.active
    /\ u.free_level = t.free_level /\ u.active_levels = t.active_levels
SameLinks(t, u) == u.parent = t.parent /\ u.child = t.child /\ u.root = t.root

taller(l, r) == 1 + (IF l > r THEN l ELSE r)

(* Heights are numbers. *)
LEMMA HeightIs ==
    ASSUME NEW t \in TreeType, NEW c \in Slot
    PROVE  height(t, c) \in Nat
  BY Fields DEF height, Slot

(* What each of the steps on links makes of t. *)
Updated(t, u, c) ==
    /\ u \in TreeType /\ SameRest(t, u) /\ SameLinks(t, u)
    /\ u.height[c] = taller(height(t, t.child["left"][c]), height(t, t.child["right"][c]))
    /\ \A k \in LevelIndex : k # c => u.height[k] = t.height[k]
Parented(t, u, c, p) ==
    /\ u \in TreeType /\ SameRest(t, u)
    /\ u.child = t.child /\ u.root = t.root /\ u.height = t.height
    /\ \A k \in LevelIndex : u.parent[k] = IF k = c THEN p ELSE t.parent[k]
Given(t, u, e, k, v) ==
    /\ u \in TreeType /\ SameRest(t, u)
    /\ u.parent = t.parent /\ u.root = t.root /\ u.height = t.height
    /\ \A c \in LevelIndex, d \in Dirs :
          u.child[d][c] = IF c = k /\ d = e THEN v ELSE t.child[d][c]
Replaced(t, u, s, p, o, v) ==
    /\ u \in TreeType /\ SameRest(t, u) /\ u.height = t.height
    /\ \A k \in LevelIndex : u.parent[k] = IF k = v THEN p ELSE t.parent[k]
    /\ \A k \in LevelIndex, d \in Dirs :
          u.child[d][k] = IF k = p /\ t.child[d][k] = o THEN v ELSE t.child[d][k]
    /\ \A r \in Sides : u.root[r] = IF p = none /\ r = s THEN v ELSE t.root[r]
Hangs(t, p, o) == p # none => \E d \in Dirs : t.child[d][p] = o /\ t.child[other(d)][p] # o

(* update() *)
LEMMA UpdateFacts ==
    ASSUME NEW t \in TreeType, NEW c \in LevelIndex, NEW u, u = update(t, c)
    PROVE  Updated(t, u, c)
  <1> DEFINE h == taller(height(t, t.child["left"][c]), height(t, t.child["right"][c]))
  <1>1. h \in Nat
    <2>1. t.child["left"][c] \in Slot /\ t.child["right"][c] \in Slot BY Fields DEF Dirs
    <2> QED BY <2>1, HeightIs DEF taller
  <1>2. u = [t EXCEPT !.height[c] = h] BY DEF update, taller
  <1> HIDE DEF h
  <1>3. u \in TreeType
    <2>1. [t.height EXCEPT ![c] = h] \in [LevelIndex -> Nat] BY <1>1, Fields
    <2>2. u = [t EXCEPT !.height = [t.height EXCEPT ![c] = h]] BY <1>2
    <2> QED BY <2>1, <2>2 DEF TreeType
  <1>4. SameRest(t, u) /\ SameLinks(t, u) BY <1>2 DEF SameRest, SameLinks, TreeType
  <1>5. u.height = [t.height EXCEPT ![c] = h] BY <1>2 DEF TreeType
  <1> QED BY <1>3, <1>4, <1>5, Fields DEF h, Updated

(* set_parent() *)
LEMMA ParentFacts ==
    ASSUME NEW t \in TreeType, NEW c \in Slot, NEW p \in Slot, NEW u, u = set_parent(t, c, p)
    PROVE  Parented(t, u, c, p)
  <1>1. CASE c = none BY <1>1, Basics DEF set_parent, SameRest, Parented
  <1>2. CASE c # none
    <2>1. c \in LevelIndex BY <1>2 DEF Slot
    <2>2. u = [t EXCEPT !.parent[c] = p] BY <1>2 DEF set_parent
    <2>3. u \in TreeType
      <3>1. [t.parent EXCEPT ![c] = p] \in [LevelIndex -> Slot] BY <2>1, Fields
      <3>2. u = [t EXCEPT !.parent = [t.parent EXCEPT ![c] = p]] BY <2>2
      <3> QED BY <3>1, <3>2 DEF TreeType
    <2>4. /\ SameRest(t, u) /\ u.child = t.child /\ u.root = t.root /\ u.height = t.height
          /\ u.parent = [t.parent EXCEPT ![c] = p]
      BY <2>2 DEF SameRest, TreeType
    <2> QED BY <2>1, <2>3, <2>4, Fields DEF Parented
  <1> QED BY <1>1, <1>2

(* set_child() *)
LEMMA ChildFacts ==
    ASSUME NEW t \in TreeType, NEW e \in Dirs, NEW k \in LevelIndex, NEW v \in Slot,
           NEW u, u = set_child(t, e, k, v)
    PROVE  Given(t, u, e, k, v)
  <1>1. u \in TreeType BY DEF TreeType, set_child
  <1>2. /\ SameRest(t, u) /\ u.parent = t.parent /\ u.root = t.root /\ u.height = t.height
        /\ u.child = [t.child EXCEPT ![e][k] = v]
    BY DEF SameRest, TreeType, set_child
  <1>3. t.child \in [Dirs -> [LevelIndex -> Slot]] BY Fields
  <1>4. ASSUME NEW c \in LevelIndex, NEW d \in Dirs
        PROVE  u.child[d][c] = IF c = k /\ d = e THEN v ELSE t.child[d][c]
    BY ONLY <1>2, <1>3, <1>4, e \in Dirs, k \in LevelIndex
  <1> QED BY <1>1, <1>2, <1>4 DEF Given

(* replace_child(), for a child that is on one side of its parent only. *)
LEMMA ReplaceFacts ==
    ASSUME NEW t \in TreeType, NEW s \in Sides, NEW p \in Slot, NEW o \in LevelIndex,
           NEW v \in Slot, NEW u, u = replace_child(t, s, p, o, v),
           Hangs(t, p, o)
    PROVE  Replaced(t, u, s, p, o, v)
  <1>1. CASE p = none
    <2> DEFINE w == [t EXCEPT !.root[s] = v]
    <2>1. w \in TreeType BY DEF TreeType
    <2>2. /\ SameRest(t, w) /\ w.parent = t.parent /\ w.child = t.child /\ w.height = t.height
          /\ w.root = [t.root EXCEPT ![s] = v]
      BY DEF SameRest, TreeType
    <2>3. u = set_parent(w, v, p) BY <1>1 DEF replace_child
    <2> HIDE DEF w
    <2>4. /\ u \in TreeType /\ SameRest(w, u)
          /\ u.child = w.child /\ u.root = w.root /\ u.height = w.height
          /\ \A k \in LevelIndex : u.parent[k] = IF k = v THEN p ELSE w.parent[k]
      BY <2>1, <2>3, ParentFacts, SMTT(30) DEF Parented
    <2>5. \A k \in LevelIndex : k # p BY <1>1, Basics
    <2> QED BY <1>1, <2>2, <2>4, <2>5, Fields DEF SameRest, Replaced
  <1>2. CASE p # none
    <2>1. PICK e \in Dirs : t.child[e][p] = o /\ t.child[other(e)][p] # o BY <1>2 DEF Hangs
    <2> DEFINE w == set_child(t, e, p, v)
    <2>2. p \in LevelIndex BY <1>2 DEF Slot
    <2>3. u = set_parent(w, v, p) BY <1>2, <2>1 DEF replace_child, Dirs, other
    <2>4. /\ w \in TreeType /\ SameRest(t, w)
          /\ w.parent = t.parent /\ w.root = t.root /\ w.height = t.height
          /\ \A k \in LevelIndex, d \in Dirs :
                 w.child[d][k] = IF k = p /\ d = e THEN v ELSE t.child[d][k]
      BY <2>2, ChildFacts DEF Given
    <2> HIDE DEF w
    <2>5. /\ u \in TreeType /\ SameRest(w, u)
          /\ u.child = w.child /\ u.root = w.root /\ u.height = w.height
          /\ \A k \in LevelIndex : u.parent[k] = IF k = v THEN p ELSE w.parent[k]
      BY <2>3, <2>4, ParentFacts, SMTT(30) DEF Parented
    <2>6. \A d \in Dirs : t.child[d][p] = o <=> d = e BY <2>1, Basics
    <2> QED BY <1>2, <2>4, <2>5, <2>6 DEF SameRest, Replaced
  <1> QED BY <1>1, <1>2
-----------------------------------------------------------------------------
Shape(t, S) == t \in TreeType /\ Below(t, S) /\ Linked(t) /\ Ordered(t, S) /\ Nested(t, S)

(* A level and its two subtrees. *)
LEMMA SubFacts ==
    ASSUME NEW t, NEW S, Shape(t, S), NEW c \in Used(t), NEW d \in Dirs, NEW k, k = t.child[d][c]
    PROVE  /\ c \in LevelIndex /\ k \in Slot /\ t.parent[c] \in Slot /\ t.price[c] \in Nat
           /\ S[c] = {c} \cup S[k] \cup S[t.child[other(d)][c]]
           /\ c \notin S[k] /\ S[k] \cap S[t.child[other(d)][c]] = {}
           /\ S[c] \subseteq Used(t) /\ S[k] \subseteq Used(t)
           /\ k # none => /\ k \in Used(t) /\ k \in LevelIndex /\ k \in S[k] /\ k # c
                          /\ t.parent[k] = c /\ k # t.child[other(d)][c]
           /\ k = none => S[k] = {}
  <1>1. /\ t \in TreeType /\ Below(t, S) /\ Linked(t) /\ Ordered(t, S) BY DEF Shape
  <1>2. c \in LevelIndex BY DEF Used
  <1>3. k \in Slot /\ t.child[other(d)][c] \in Slot BY <1>1, <1>2, Fields, Basics
  <1>4. t.parent[c] \in Slot /\ t.price[c] \in Nat BY <1>1, <1>2, Fields
  <1>5. S[c] = {c} \cup S[k] \cup S[t.child[other(d)][c]]
    <2>1. S[c] = {c} \cup S[t.child["left"][c]] \cup S[t.child["right"][c]] BY <1>1 DEF Below
    <2> QED BY <2>1 DEF other, Dirs
  <1>6. S[c] \subseteq Used(t) /\ S[k] \subseteq Used(t) /\ S[none] = {}
    BY <1>1, <1>2, <1>3, Basics DEF Below
  <1>7. \A j \in S[k] : before(d, t.price[j], t.price[c]) BY <1>1 DEF Ordered
  <1>8. \A j \in S[t.child[other(d)][c]] : before(other(d), t.price[j], t.price[c])
    BY <1>1, Basics DEF Ordered
  <1>9. \A j \in S[k] : t.price[j] \in Nat BY <1>1, <1>6, Fields DEF Used
  <1>10. c \notin S[k] BY <1>4, <1>7 DEF before
  <1>11. S[k] \cap S[t.child[other(d)][c]] = {}
    <2> SUFFICES ASSUME NEW j \in S[k], j \in S[t.child[other(d)][c]] PROVE FALSE OBVIOUS
    <2>1. before(d, t.price[j], t.price[c]) /\ before(other(d), t.price[j], t.price[c])
      BY <1>7, <1>8
    <2> QED BY <1>4, <1>9, <2>1 DEF before, other, Dirs
  <1>12. ASSUME k # none
         PROVE  /\ k \in Used(t) /\ k \in LevelIndex /\ k \in S[k] /\ k # c
                /\ t.parent[k] = c /\ k # t.child[other(d)][c]
    <2>1. k \in Used(t) /\ t.parent[k] = c BY <1>1, <1>12 DEF Linked
    <2>2. k \in S[k] BY <1>1, <2>1 DEF Below
    <2> QED BY <1>10, <1>11, <2>1, <2>2 DEF Used
  <1> QED BY <1>2, <1>3, <1>4, <1>5, <1>6, <1>10, <1>11, <1>12

(* The same of a level c with its children k and o. *)
Half(t, S, c, k) ==
    /\ c \in LevelIndex /\ k \in Slot /\ c \notin S[k]
    /\ S[c] \subseteq Used(t) /\ S[k] \subseteq Used(t)
    /\ k # none => /\ k \in Used(t) /\ k \in LevelIndex /\ k \in S[k] /\ k # c
                   /\ t.parent[k] = c
    /\ k = none => S[k] = {}
Family(t, S, c, k, o) ==
    /\ Half(t, S, c, k) /\ Half(t, S, c, o)
    /\ S[c] = {c} \cup S[k] \cup S[o] /\ S[k] \cap S[o] = {} /\ (k # none => k # o)

(* A level and its two children, as one fact. *)
LEMMA FamilyFacts ==
    ASSUME NEW t, NEW S, Shape(t, S), NEW c \in Used(t), NEW d \in Dirs,
           NEW k, k = t.child[d][c], NEW o, o = t.child[other(d)][c]
    PROVE  Family(t, S, c, k, o)
  <1>1. Half(t, S, c, k)
    <2>1. /\ c \in LevelIndex /\ k \in Slot /\ c \notin S[k]
          /\ S[c] \subseteq Used(t) /\ S[k] \subseteq Used(t)
      BY SubFacts
    <2>2. k # none => /\ k \in Used(t) /\ k \in LevelIndex /\ k \in S[k] /\ k # c
                      /\ t.parent[k] = c
      BY SubFacts
    <2>3. k = none => S[k] = {} BY DEF Shape, Below
    <2> QED BY <2>1, <2>2, <2>3 DEF Half
  <1>2. Half(t, S, c, o)
    <2>1. PICK e \in Dirs : e = other(d) BY Basics
    <2> QED BY <2>1, SubFacts DEF Half
  <1>3. S[c] = {c} \cup S[k] \cup S[o] /\ S[k] \cap S[o] = {} /\ (k # none => k # o)
    BY SubFacts
  <1> QED BY <1>1, <1>2, <1>3 DEF Family

(* A level and its parent. *)
LEMMA UpFacts ==
    ASSUME NEW t, NEW S, Shape(t, S), NEW c \in Used(t), NEW p, p = t.parent[c], p # none
    PROVE  /\ p \in Used(t) /\ p \in LevelIndex /\ p # c /\ p \notin S[c]
           /\ \E d \in Dirs : t.child[d][p] = c /\ t.child[other(d)][p] # c
  <1>1. Linked(t) BY DEF Shape
  <1>2. p \in Used(t) /\ \E d \in Dirs : t.child[d][p] = c BY <1>1 DEF Linked
  <1>3. PICK d \in Dirs : t.child[d][p] = c BY <1>2
  <1>4. c # none BY Basics DEF Used
  <1>5. /\ p \in LevelIndex /\ p \notin S[c] /\ c \in S[c] /\ c # t.child[other(d)][p]
    BY <1>2, <1>3, <1>4, SubFacts
  <1> QED BY <1>2, <1>3, <1>5

(* What rotate() does to the links, for a level x whose other child is y,  *)
(* with beta between them.                                                 *)
Rotated(t, u, s, x, d, y, beta, p) ==
    /\ u \in TreeType /\ SameRest(t, u)
    /\ \A k \in LevelIndex : u.parent[k] = IF k = y THEN p ELSE IF k = x THEN y
                                           ELSE IF k = beta THEN x ELSE t.parent[k]
    /\ \A k \in LevelIndex, e \in Dirs :
          u.child[e][k] = IF k = y /\ e = d THEN x ELSE IF k = x /\ e # d THEN beta
                          ELSE IF k = p /\ t.child[e][k] = x THEN y ELSE t.child[e][k]
    /\ \A r \in Sides : u.root[r] = IF p = none /\ r = s THEN y ELSE t.root[r]
Reheighted(t, u, x, d, y, beta) ==
    /\ \A k \in LevelIndex : k \notin {x, y} => u.height[k] = t.height[k]
    /\ u.height[x] = taller(height(t, t.child[d][x]), height(t, beta))
    /\ u.height[y] = taller(u.height[x], height(t, t.child[other(d)][y]))

(* The larger of two does not depend on their order. *)
LEMMA Taller ==
    ASSUME NEW l \in Nat, NEW r \in Nat
    PROVE  taller(l, r) = taller(r, l) /\ taller(l, r) \in Nat
  BY DEF taller

(* The levels that a rotation is about are different ones. *)
LEMMA Apart ==
    ASSUME NEW t, NEW S, Shape(t, S), NEW x \in Used(t), NEW d \in Dirs,
           NEW y, y = t.child[other(d)][x], y # none, NEW beta, beta = t.child[d][y],
           NEW p, p = t.parent[x]
    PROVE  /\ x \in LevelIndex /\ y \in LevelIndex /\ y \in Used(t) /\ beta \in Slot /\ p \in Slot
           /\ x # y /\ beta # x /\ beta # y /\ p # x /\ p # y
           /\ p # none => p # beta /\ p \in Used(t) /\ p \in LevelIndex
           /\ x \notin S[y]
  <1>1. /\ x \in LevelIndex /\ p \in Slot /\ x \notin S[y]
        /\ y \in Used(t) /\ y \in LevelIndex /\ y \in S[y] /\ y # x
    BY Basics, SubFacts
  <1>2. /\ beta \in Slot /\ S[beta] \subseteq S[y] /\ (beta # none => beta \in S[beta] /\ beta # y)
    BY <1>1, SubFacts
  <1>3. beta # x /\ beta # y BY <1>1, <1>2, Basics
  <1>4. ASSUME p # none
        PROVE  p # x /\ p # y /\ p # beta /\ p \in Used(t) /\ p \in LevelIndex
    <2>1. p \in Used(t) /\ p \in LevelIndex /\ p # x /\ \E e \in Dirs : t.child[e][p] = x
      BY <1>4, UpFacts
    <2>2. PICK e \in Dirs : t.child[e][p] = x BY <2>1
    <2>3. x \in S[x] /\ S[x] \subseteq S[p]
      <3>1. x # none BY <1>1, Basics
      <3>2. x \in S[x] BY <2>1, <2>2, <3>1, SubFacts
      <3>3. S[p] = {p} \cup S[x] \cup S[t.child[other(e)][p]] BY <2>1, <2>2, SubFacts
      <3> QED BY <3>2, <3>3
    <2>4. p \notin {y, beta} BY <1>1, <1>2, <2>3
    <2> QED BY <2>1, <2>4
  <1> QED BY <1>1, <1>2, <1>3, <1>4, Basics

(* rotate(), link by link *)
LEMMA RotateFacts ==
    ASSUME NEW t, NEW S, Shape(t, S), NEW s \in Sides, NEW x \in Used(t), NEW d \in Dirs,
           NEW y, y = t.child[other(d)][x], y # none, NEW beta, beta = t.child[d][y],
           NEW p, p = t.parent[x], NEW u, u = rotate(t, s, x, d)
    PROVE  Rotated(t, u, s, x, d, y, beta, p) /\ Reheighted(t, u, x, d, y, beta)
  <1>1. /\ x \in LevelIndex /\ y \in LevelIndex /\ y \in Used(t) /\ beta \in Slot /\ p \in Slot
        /\ x # y /\ beta # x /\ beta # y /\ p # x /\ p # y
        /\ p # none => p # beta /\ p \in Used(t) /\ p \in LevelIndex
    BY Apart
  <1>2. t \in TreeType BY DEF Shape
  <1>3. /\ other(d) \in Dirs /\ other(d) # d /\ none \notin LevelIndex /\ other(other(d)) = d
        /\ \A e \in Dirs : e = d \/ e = other(d)
    BY Basics
  <1>4. Hangs(t, p, x) BY UpFacts DEF Hangs
  <1>5. x \in Slot /\ y \in Slot BY <1>1, Basics
  <1>a. PICK t1 : t1 = replace_child(t, s, p, x, y) OBVIOUS
  <1>b. PICK t2a : t2a = set_child(t1, d, y, x) OBVIOUS
  <1>c. PICK t2 : t2 = set_parent(t2a, x, y) OBVIOUS
  <1>d. PICK t3a : t3a = set_child(t2, other(d), x, beta) OBVIOUS
  <1>e. PICK t3 : t3 = set_parent(t3a, beta, x) OBVIOUS
  <1>f. PICK t4 : t4 = update(t3, x) OBVIOUS
  <1>g. u = update(t4, y) BY <1>a, <1>b, <1>c, <1>d, <1>e, <1>f DEF rotate
  <1>6. Replaced(t, t1, s, p, x, y) BY <1>1, <1>2, <1>4, <1>5, <1>a, ReplaceFacts
  <1>7. Given(t1, t2a, d, y, x)
    <2>1. t1 \in TreeType BY <1>6 DEF Replaced
    <2> QED BY <1>1, <1>5, <1>b, <2>1, ChildFacts
  <1>8. Parented(t2a, t2, x, y)
    <2>1. t2a \in TreeType BY <1>7 DEF Given
    <2> QED BY <1>5, <1>c, <2>1, ParentFacts
  <1>9. Given(t2, t3a, other(d), x, beta)
    <2>1. t2 \in TreeType BY <1>8 DEF Parented
    <2> QED BY <1>1, <1>3, <1>d, <2>1, ChildFacts
  <1>10. Parented(t3a, t3, beta, x)
    <2>1. t3a \in TreeType BY <1>9 DEF Given
    <2> QED BY <1>1, <1>5, <1>e, <2>1, ParentFacts
  <1>11. Updated(t3, t4, x)
    <2>1. t3 \in TreeType BY <1>10 DEF Parented
    <2> QED BY <1>1, <1>f, <2>1, UpdateFacts
  <1>12. Updated(t4, u, y)
    <2>1. t4 \in TreeType BY <1>11 DEF Updated
    <2> QED BY <1>1, <1>g, <2>1, UpdateFacts
  <1>13. SameRest(t, u) BY <1>6, <1>7, <1>8, <1>9, <1>10, <1>11, <1>12 DEF SameRest, Updated, Given, Parented, Replaced
  <1>14. /\ \A k \in LevelIndex : u.parent[k] = t3.parent[k]
         /\ \A k \in LevelIndex, e \in Dirs : u.child[e][k] = t3.child[e][k]
         /\ \A r \in Sides : u.root[r] = t1.root[r]
         /\ t3.height = t.height
         /\ \A e \in Dirs, k \in LevelIndex : t4.child[e][k] = t3.child[e][k]
    BY <1>6, <1>7, <1>8, <1>9, <1>10, <1>11, <1>12 DEF SameLinks, Updated, Given, Parented, Replaced
  <1>15. \A k \in LevelIndex : u.parent[k] = IF k = y THEN p ELSE IF k = x THEN y
                                             ELSE IF k = beta THEN x ELSE t.parent[k]
    BY <1>1, <1>6, <1>7, <1>8, <1>9, <1>10, <1>14 DEF Given, Parented, Replaced
  <1>16. \A k \in LevelIndex, e \in Dirs :
            t3.child[e][k] = IF k = y /\ e = d THEN x ELSE IF k = x /\ e # d THEN beta
                             ELSE IF k = p /\ t.child[e][k] = x THEN y ELSE t.child[e][k]
    BY <1>1, <1>3, <1>6, <1>7, <1>8, <1>9, <1>10 DEF Given, Parented, Replaced
  <1>17. Rotated(t, u, s, x, d, y, beta, p)
    BY <1>6, <1>12, <1>13, <1>14, <1>15, <1>16, SMTT(30) DEF Rotated, Updated, Replaced
  <1>18. u.height[x] = taller(height(t, t.child[d][x]), height(t, beta))
    <2>1. t3.child[d][x] = t.child[d][x] /\ t3.child[other(d)][x] = beta BY <1>1, <1>3, <1>16
    <2>2. \A k : height(t3, k) = height(t, k) BY <1>14 DEF height
    <2>3. t.child[d][x] \in Slot BY <1>1, <1>2, Fields
    <2>4. height(t, t.child[d][x]) \in Nat /\ height(t, beta) \in Nat BY <1>1, <1>2, <2>3, HeightIs
    <2>5. \/ u.height[x] = taller(height(t, t.child[d][x]), height(t, beta))
          \/ u.height[x] = taller(height(t, beta), height(t, t.child[d][x]))
      BY <1>1, <1>11, <1>12, <2>1, <2>2 DEF Dirs, other, Updated
    <2> QED BY <2>4, <2>5, Taller
  <1>19. u.height[y] = taller(u.height[x], height(t, t.child[other(d)][y]))
    <2> DEFINE gamma == t.child[other(d)][y]
    <2>1. t4.child[d][y] = x /\ t4.child[other(d)][y] = gamma
      BY <1>1, <1>3, <1>14, <1>16
    <2>2. gamma \in Slot /\ (gamma # none => gamma # x /\ gamma # y)
      <3>1. gamma \in Slot /\ (gamma # none => gamma \in S[gamma] /\ gamma # y) /\ S[gamma] \subseteq S[y]
        BY <1>1, <1>3, SubFacts
      <3>2. x \notin S[y] BY Apart
      <3> QED BY <3>1, <3>2
    <2> HIDE DEF gamma
    <2>3. height(t4, gamma) = height(t, gamma)
      BY <1>11, <1>14, <2>2 DEF height, Slot, Updated
    <2>4. height(t4, x) = u.height[x] BY <1>1, <1>3, <1>12 DEF height, Updated
    <2>5. u.height[x] \in Nat BY <1>1, <1>12, Fields DEF Updated
    <2>6. height(t, gamma) \in Nat BY <1>2, <2>2, HeightIs
    <2>7. \/ u.height[y] = taller(u.height[x], height(t, gamma))
          \/ u.height[y] = taller(height(t, gamma), u.height[x])
      BY <1>12, <2>1, <2>3, <2>4 DEF Dirs, other, Updated
    <2>8. u.height[y] = taller(u.height[x], height(t, gamma)) BY <2>5, <2>6, <2>7, Taller
    <2> QED BY <2>8 DEF gamma
  <1>20. \A k \in LevelIndex : k \notin {x, y} => u.height[k] = t.height[k]
    BY <1>11, <1>12, <1>14 DEF Updated
  <1> QED BY <1>17, <1>18, <1>19, <1>20 DEF Reheighted

(* The subtrees after rotate(), and that a step keeps the levels of each   *)
(* side.                                                                   *)
Turned(S, x, y, a, beta) ==
    [k \in Slot |-> IF k = y THEN S[x] ELSE IF k = x THEN {x} \cup S[a] \cup S[beta] ELSE S[k]]
SameSides(t, S, u, R) == \A r \in Sides : R[u.root[r]] = S[t.root[r]]

(* The levels of a side are those below its root. *)
LEMMA RootFacts ==
    ASSUME NEW t, NEW S, NEW n, Forest(t, S, n), NEW s \in Sides, NEW x \in S[t.root[s]]
    PROVE  /\ Shape(t, S) /\ x \in Used(t) /\ x \in LevelIndex /\ x # n
           /\ S[t.root[s]] \subseteq Used(t)
           /\ t.root[s] \in Used(t) /\ t.parent[t.root[s]] = none
           /\ t.parent[x] = none <=> t.root[s] = x
           /\ t.parent[x] # none => t.parent[x] \in S[t.root[s]]
           /\ S[x] \subseteq S[t.root[s]]
           /\ \A r \in Sides : x \in S[t.root[r]] => r = s
  <1>1. /\ t \in TreeType /\ Below(t, S) /\ Linked(t) /\ Ordered(t, S) /\ Nested(t, S)
        /\ Rooted(t, S, n)
    BY DEF Forest
  <1>2. t.root[s] \in Slot BY <1>1, Fields
  <1>3. S[t.root[s]] \subseteq Used(t) /\ t.root[s] # none BY <1>1, <1>2 DEF Below
  <1>4. t.root[s] \in Used(t) /\ t.parent[t.root[s]] = none BY <1>1, <1>3 DEF Rooted
  <1>5. S[x] \subseteq S[t.root[s]] /\ (x # t.root[s] => t.parent[x] \in S[t.root[s]])
    BY <1>1, <1>4 DEF Nested
  <1>6. none \notin Used(t) BY Basics DEF Used
  <1>7. x # n BY <1>1 DEF Rooted
  <1>8. \A r \in Sides : x \in S[t.root[r]] => r = s BY <1>1 DEF Rooted, Sides
  <1>9. Shape(t, S) /\ x \in Used(t) /\ x \in LevelIndex BY <1>1, <1>3 DEF Shape, Used
  <1>10. t.parent[x] = none <=> t.root[s] = x BY <1>3, <1>4, <1>5, <1>6
  <1> QED BY <1>3, <1>4, <1>5, <1>6, <1>7, <1>8, <1>9, <1>10

(* rotate() keeps a search tree with the same levels. *)
LEMMA RotateForest ==
    ASSUME NEW t, NEW S, NEW n, Forest(t, S, n), NEW s \in Sides, NEW x \in S[t.root[s]],
           NEW d \in Dirs, NEW y, y = t.child[other(d)][x], y # none,
           NEW beta, beta = t.child[d][y], NEW p, p = t.parent[x], NEW a, a = t.child[d][x],
           NEW u, Rotated(t, u, s, x, d, y, beta, p), NEW R, R = Turned(S, x, y, a, beta)
    PROVE  Forest(u, R, n) /\ SameSides(t, S, u, R)
  <1>1. /\ Shape(t, S) /\ x \in Used(t) /\ x \in LevelIndex /\ x # n
        /\ S[t.root[s]] \subseteq Used(t)
        /\ t.parent[x] = none <=> t.root[s] = x
        /\ \A r \in Sides : x \in S[t.root[r]] => r = s
    BY RootFacts
  <1>2. /\ x \in LevelIndex /\ y \in LevelIndex /\ y \in Used(t) /\ beta \in Slot /\ p \in Slot
        /\ x # y /\ beta # x /\ beta # y /\ p # x /\ p # y
        /\ p # none => p # beta /\ p \in Used(t) /\ p \in LevelIndex
        /\ x \notin S[y]
    BY <1>1, Apart
  <1>3. PICK gamma : gamma = t.child[other(d)][y] OBVIOUS
  <1>4. /\ other(d) \in Dirs /\ other(d) # d /\ none \notin LevelIndex /\ other(other(d)) = d
        /\ \A e \in Dirs : e = d \/ e = other(d)
    BY Basics
  <1>5. /\ a \in Slot /\ S[x] = {x} \cup S[a] \cup S[y] /\ x \notin S[a] /\ S[a] \cap S[y] = {}
        /\ S[a] \subseteq Used(t) /\ S[x] \subseteq Used(t)
        /\ a # none => a \in Used(t) /\ a \in S[a] /\ t.parent[a] = x
        /\ a = none => S[a] = {}
    <2>1. Family(t, S, x, a, y) BY <1>1, FamilyFacts
    <2> QED BY <2>1 DEF Family, Half
  <1>6. y \in S[y] /\ t.parent[y] = x BY <1>1, <1>4, SubFacts
  <1>7. /\ gamma \in Slot /\ S[y] = {y} \cup S[gamma] \cup S[beta] /\ y \notin S[gamma]
        /\ S[gamma] \cap S[beta] = {}
        /\ gamma # none => gamma \in Used(t) /\ gamma \in S[gamma] /\ t.parent[gamma] = y
        /\ gamma = none => S[gamma] = {}
    <2>1. Family(t, S, y, beta, gamma) BY <1>1, <1>2, <1>3, FamilyFacts
    <2> QED BY <2>1 DEF Family, Half
  <1>8. /\ y \notin S[beta] /\ (beta = none => S[beta] = {})
        /\ beta # none => beta \in Used(t) /\ beta \in S[beta] /\ t.parent[beta] = y
    <2>1. Family(t, S, y, beta, gamma) BY <1>1, <1>2, <1>3, FamilyFacts
    <2> QED BY <2>1 DEF Family, Half
  <1>9. /\ t \in TreeType /\ Below(t, S) /\ Linked(t) /\ Ordered(t, S) /\ Nested(t, S)
        /\ Rooted(t, S, n) /\ Convex(t, S)
    BY DEF Forest
  <1>10. /\ u \in TreeType /\ Used(u) = Used(t) /\ u.price = t.price
    BY DEF Rotated, SameRest, Used
  <1>11. /\ R[y] = S[x] /\ R[x] = {x} \cup S[a] \cup S[beta]
         /\ \A k \in Slot : k # x /\ k # y => R[k] = S[k]
    BY <1>2, <1>4, Basics DEF Turned
  <1>12. /\ u.child[d][y] = x /\ u.child[other(d)][y] = gamma
         /\ u.child[d][x] = a /\ u.child[other(d)][x] = beta
    <2>1. gamma # x BY <1>2, <1>7, <1>4
    <2>2. \A k \in LevelIndex, e \in Dirs :
            u.child[e][k] = IF k = y /\ e = d THEN x ELSE IF k = x /\ e # d THEN beta
                            ELSE IF k = p /\ t.child[e][k] = x THEN y ELSE t.child[e][k]
      BY DEF Rotated
    <2> QED BY <1>2, <1>3, <1>4, <2>1, <2>2
  <1>13. \A k \in LevelIndex, e \in Dirs : k # x /\ k # y =>
            u.child[e][k] = IF k = p /\ t.child[e][k] = x THEN y ELSE t.child[e][k]
    BY DEF Rotated
  <1>14. \A k \in LevelIndex : u.parent[k] = IF k = y THEN p ELSE IF k = x THEN y
                                             ELSE IF k = beta THEN x ELSE t.parent[k]
    BY DEF Rotated
  <1>15. ASSUME NEW k \in Used(t), k # x, k # y, NEW e \in Dirs
         PROVE  /\ R[u.child[e][k]] = S[t.child[e][k]] /\ t.child[e][k] # y
                /\ t.child[e][k] = x => k = p
                /\ t.child[e][k] # x => u.child[e][k] = t.child[e][k]
    <2>1. k \in LevelIndex BY <1>15 DEF Used
    <2>2. t.child[e][k] \in Slot /\ (t.child[e][k] # none => t.parent[t.child[e][k]] = k)
      BY <1>1, <1>15, SubFacts
    <2>3. t.child[e][k] # y BY <1>6, <1>15, <2>2
    <2>4. t.child[e][k] = x => k = p BY <1>4, <1>1, <2>2
    <2> QED BY <1>11, <1>13, <1>15, <2>1, <2>2, <2>3, <2>4
  <1>16. Below(u, R)
    <2>1. S \in [Slot -> SUBSET Used(t)] /\ S[none] = {} BY <1>9 DEF Below
    <2>2. R = [k \in Slot |-> R[k]] BY DEF Turned
    <2>3. S[beta] \subseteq Used(t) BY <1>2, <2>1
    <2>4. \A k \in Slot : R[k] \in SUBSET Used(u) BY <1>1, <1>5, <1>10, <1>11, <2>1, <2>3, ZenonT(40)
    <2>5. R \in [Slot -> SUBSET Used(u)] BY <2>2, <2>4
    <2>6. R[none] = {} BY <1>2, <1>4, <1>11, <2>1, Basics
    <2>7. ASSUME NEW k \in Used(u)
          PROVE  R[k] = {k} \cup R[u.child["left"][k]] \cup R[u.child["right"][k]]
      <3>1. ASSUME R[k] = {k} \cup R[u.child[d][k]] \cup R[u.child[other(d)][k]]
            PROVE  R[k] = {k} \cup R[u.child["left"][k]] \cup R[u.child["right"][k]]
        BY <3>1 DEF Dirs, other
      <3>2. CASE k = y
        <4>1. R[gamma] = S[gamma]
          <5>1. gamma # x /\ gamma # y BY <1>1, <1>2, <1>4, <1>7
          <5> QED BY <1>7, <1>11, <5>1
        <4>2. R[k] = {k} \cup R[x] \cup R[gamma] BY <1>5, <1>7, <1>11, <3>2, <4>1
        <4>3. R[k] = {k} \cup R[u.child[d][k]] \cup R[u.child[other(d)][k]]
          BY ONLY <1>12, <3>2, <4>2
        <4> QED BY ONLY <3>1, <4>3
      <3>3. CASE k = x
        <4>1. R[a] = S[a] /\ R[beta] = S[beta] BY <1>2, <1>5, <1>6, <1>11, <1>4
        <4>2. R[k] = {k} \cup R[a] \cup R[beta] BY <1>11, <3>3, <4>1
        <4>3. R[k] = {k} \cup R[u.child[d][k]] \cup R[u.child[other(d)][k]]
          BY ONLY <1>12, <3>3, <4>2
        <4> QED BY ONLY <3>1, <4>3
      <3>4. CASE k # x /\ k # y
        <4>1. S[k] = {k} \cup S[t.child["left"][k]] \cup S[t.child["right"][k]]
          BY <1>9, <1>10 DEF Below
        <4>2. k \in Slot BY Basics DEF Used
        <4> QED BY <1>10, <1>11, <1>15, <3>4, <4>1, <4>2 DEF Dirs
      <3> QED BY <3>2, <3>3, <3>4
    <2> QED BY <2>5, <2>6, <2>7 DEF Below
  <1>17. Linked(u)
    <2>1. ASSUME NEW c \in Used(t), NEW e \in Dirs, NEW v, v = u.child[e][c], v # none
          PROVE  v \in Used(t) /\ u.parent[v] = c
      <3>1. CASE c = y
        <4>1. CASE e = d BY <1>1, <1>2, <1>12, <1>14, <2>1, <3>1, <4>1
        <4>2. CASE e = other(d)
          <5>1. v = gamma /\ gamma # none BY <1>12, <2>1, <3>1, <4>2
          <5>2. gamma \in LevelIndex /\ gamma \in S[y] BY <1>7, <5>1 DEF Used
          <5>3. gamma # x /\ gamma # y /\ gamma # beta BY <1>2, <1>7, <1>8, <5>1, <5>2
          <5> QED BY <1>7, <1>14, <3>1, <5>1, <5>2, <5>3
        <4> QED BY <1>4, <4>1, <4>2
      <3>2. CASE c = x
        <4>1. CASE e = d
          <5>1. v = a /\ a # none BY <1>12, <2>1, <3>2, <4>1
          <5>2. a \in LevelIndex /\ a # y /\ a # x BY <1>5, <1>6, <5>1 DEF Used
          <5>3. a # beta BY <1>5, <1>7, <1>8, <5>1
          <5> QED BY <1>5, <1>14, <3>2, <5>1, <5>2, <5>3
        <4>2. CASE e = other(d)
          <5>1. v = beta /\ beta # none BY <1>12, <2>1, <3>2, <4>2
          <5> QED BY <1>2, <1>8, <1>14, <3>2, <5>1 DEF Used
        <4> QED BY <1>4, <4>1, <4>2
      <3>3. CASE c # x /\ c # y
        <4>1. CASE t.child[e][c] = x
          <5>1. c = p BY <1>15, <3>3, <4>1
          <5>2. c \in LevelIndex BY DEF Used
          <5>3. v = y BY <1>13, <2>1, <3>3, <4>1, <5>1, <5>2
          <5> QED BY <1>2, <1>14, <5>1, <5>3
        <4>2. CASE t.child[e][c] # x
          <5>1. v = t.child[e][c] /\ v # y BY <1>15, <2>1, <3>3, <4>2
          <5>2. v \in Used(t) /\ v \in LevelIndex /\ t.parent[v] = c
            BY <1>1, <2>1, <5>1, SubFacts
          <5>3. v # beta BY <1>8, <2>1, <3>3, <5>2
          <5> QED BY <1>14, <4>2, <5>1, <5>2, <5>3
        <4> QED BY <4>1, <4>2
      <3> QED BY <3>1, <3>2, <3>3
    <2>2. ASSUME NEW c \in Used(t), NEW q, q = u.parent[c], q # none
          PROVE  q \in Used(t) /\ \E e \in Dirs : u.child[e][q] = c
      <3>0. c \in LevelIndex BY DEF Used
      <3>1. CASE c = y
        <4>1. q = p /\ p \in LevelIndex /\ p \in Used(t) BY <1>2, <1>14, <2>2, <3>1
        <4>2. PICK e \in Dirs : t.child[e][p] = x BY <1>1, <2>2, <4>1, UpFacts
        <4>3. u.child[e][p] = y BY <1>2, <1>13, <4>1, <4>2
        <4> QED BY <3>1, <4>1, <4>3
      <3>2. CASE c = x BY <1>2, <1>12, <1>14, <2>2, <3>2
      <3>3. CASE c = beta
        <4>1. q = x BY <1>2, <1>14, <2>2, <3>0, <3>3
        <4> QED BY <1>1, <1>4, <1>12, <3>3, <4>1
      <3>4. CASE c # y /\ c # x /\ c # beta
        <4>1. q = t.parent[c] BY <1>14, <2>2, <3>0, <3>4
        <4>2. q \in Used(t) /\ q \in LevelIndex /\ \E e \in Dirs : t.child[e][q] = c
          BY <1>1, <2>2, <4>1, UpFacts
        <4>3. PICK e \in Dirs : t.child[e][q] = c BY <4>2
        <4>4. CASE q = x
          <5>1. c = a BY <1>4, <3>4, <4>3, <4>4
          <5> QED BY <1>12, <4>2, <4>4, <5>1
        <4>5. CASE q = y
          <5>1. c = gamma BY <1>3, <1>4, <3>4, <4>3, <4>5
          <5> QED BY <1>4, <1>12, <4>2, <4>5, <5>1
        <4>6. CASE q # x /\ q # y BY <1>13, <3>4, <4>2, <4>3, <4>6
        <4> QED BY <4>4, <4>5, <4>6
      <3> QED BY <3>1, <3>2, <3>3, <3>4
    <2> QED BY <1>10, <2>1, <2>2 DEF Linked
  <1>18. Ordered(u, R)
    <2>1. /\ \A j \in S[y] : before(other(d), t.price[j], t.price[x])
          /\ \A j \in S[a] : before(d, t.price[j], t.price[x])
          /\ \A j \in S[beta] : before(d, t.price[j], t.price[y])
          /\ \A j \in S[gamma] : before(other(d), t.price[j], t.price[y])
      BY <1>1, <1>2, <1>3, <1>4, <1>9 DEF Ordered
    <2>2. \A j \in Used(t) : t.price[j] \in Nat BY <1>9, Fields DEF Used
    <2>3. R[a] = S[a] /\ R[beta] = S[beta] /\ R[gamma] = S[gamma]
      BY <1>2, <1>4, <1>5, <1>6, <1>7, <1>11
    <2>4. ASSUME NEW c \in Used(t), NEW e \in Dirs, NEW j \in R[u.child[e][c]]
          PROVE  before(e, t.price[j], t.price[c])
      <3>1. CASE c = y
        <4>1. CASE e = d
          <5>1. j \in {x} \cup S[a] \cup S[beta] BY <1>11, <1>12, <2>4, <3>1, <4>1
          <5>2. before(d, t.price[x], t.price[y])
            BY <1>1, <1>2, <1>6, <2>1, <2>2 DEF before, other, Dirs
          <5>3. ASSUME j \in S[a] PROVE before(d, t.price[j], t.price[y])
            <6>1. before(d, t.price[j], t.price[x]) BY <2>1, <5>3
            <6>2. t.price[j] \in Nat /\ t.price[x] \in Nat /\ t.price[y] \in Nat
              BY <1>1, <1>2, <1>5, <2>2, <5>3
            <6> QED BY ONLY <5>2, <6>1, <6>2 DEF before
          <5> QED BY <2>1, <3>1, <4>1, <5>1, <5>2, <5>3
        <4>2. CASE e = other(d) BY <1>12, <2>1, <2>3, <2>4, <3>1, <4>2
        <4> QED BY <1>4, <4>1, <4>2
      <3>2. CASE c = x
        <4>1. CASE e = d BY <1>12, <2>1, <2>3, <2>4, <3>2, <4>1
        <4>2. CASE e = other(d) BY <1>7, <1>12, <2>1, <2>3, <2>4, <3>2, <4>2
        <4> QED BY <1>4, <4>1, <4>2
      <3>3. CASE c # x /\ c # y
        <4>1. j \in S[t.child[e][c]] BY <1>15, <2>4, <3>3
        <4> QED BY <1>9, <4>1 DEF Ordered
      <3> QED BY <3>1, <3>2, <3>3
    <2> QED BY <1>10, <2>4 DEF Ordered
  <1>19. Nested(u, R)
    <2>1. \A k \in Used(t) : \A j \in S[k] : S[j] \subseteq S[k] /\ (j # k => t.parent[j] \in S[k])
      BY <1>9 DEF Nested
    <2>2. \A k \in Used(t) : S[k] \subseteq Used(t) /\ k \in LevelIndex /\ k \in Slot
      BY <1>9, Basics DEF Below, Used
    <2>3. R[x] \subseteq S[x] BY <1>5, <1>7, <1>11
    <2>4. y \in S[x] BY <1>5, <1>6
    <2>5. ASSUME NEW k \in Used(t), NEW j \in R[k]
          PROVE  R[j] \subseteq R[k] /\ (j # k => u.parent[j] \in R[k])
      <3>1. CASE k # x /\ k # y
        <4>1. R[k] = S[k] /\ j \in S[k] /\ j \in LevelIndex /\ j \in Slot
          BY <1>11, <2>2, <2>5, <3>1
        <4>2. y \in S[k] => x \in S[k] BY <1>6, <2>1, <3>1
        <4>3. x \in S[k] => S[x] \subseteq S[k] /\ p \in S[k] BY <2>1, <3>1
        <4>4. CASE j = y BY <1>2, <1>11, <1>14, <4>1, <4>2, <4>3, <4>4
        <4>5. CASE j = x BY <1>2, <1>11, <1>14, <2>3, <2>4, <4>1, <4>3, <4>5
        <4>6. CASE j # x /\ j # y
          <5>1. R[j] \subseteq R[k] BY <1>11, <2>1, <4>1, <4>6
          <5>2. ASSUME j # k PROVE u.parent[j] \in R[k]
            <6>1. t.parent[j] \in S[k] BY <2>1, <4>1, <5>2
            <6>2. CASE j = beta
              <7>1. x \in S[k] BY <1>4, <1>8, <4>1, <4>2, <6>1, <6>2
              <7> QED BY <1>14, <4>1, <4>6, <6>2, <7>1
            <6>3. CASE j # beta BY <1>14, <4>1, <4>6, <6>1, <6>3
            <6> QED BY <6>2, <6>3
          <5> QED BY <5>1, <5>2
        <4> QED BY <4>4, <4>5, <4>6
      <3>2. CASE k = y
        <4>1. R[k] = S[x] /\ j \in S[x] /\ j \in LevelIndex /\ j \in Slot
          BY <1>1, <1>11, <2>2, <2>5, <3>2
        <4>2. CASE j = y BY <3>2, <4>2
        <4>3. CASE j = x BY <1>1, <1>2, <1>14, <2>3, <2>4, <4>1, <4>3
        <4>4. CASE j # x /\ j # y
          <5>1. S[j] \subseteq S[x] /\ t.parent[j] \in S[x] BY <1>1, <2>1, <4>1, <4>4
          <5>2. R[j] \subseteq R[k] BY <1>11, <4>1, <4>4, <5>1
          <5>3. u.parent[j] \in S[x] BY <1>5, <1>14, <4>1, <4>4, <5>1
          <5> QED BY <4>1, <5>2, <5>3
        <4> QED BY <4>2, <4>3, <4>4
      <3>3. CASE k = x
        <4>1. j \in {x} \cup S[a] \cup S[beta] /\ R[k] = {x} \cup S[a] \cup S[beta]
          BY <1>11, <2>5, <3>3
        <4>2. CASE j = x BY <3>3, <4>2
        <4>3. CASE j \in S[a]
          <5>1. a \in Used(t) /\ j \in Used(t) /\ j \in LevelIndex /\ j \in Slot
            BY <1>5, <2>2, <4>3
          <5>2. j # x /\ j # y /\ j # beta
            <6>1. j # x /\ j # y BY <1>5, <1>6, <4>3
            <6>2. CASE beta = none BY <1>4, <5>1, <6>1, <6>2
            <6>3. CASE beta # none
              <7>1. beta \in S[y] BY <1>7, <1>8, <6>3
              <7> QED BY <1>5, <4>3, <6>1, <7>1
            <6> QED BY <6>2, <6>3
          <5>3. R[j] \subseteq S[a] BY <1>11, <2>1, <4>3, <5>1, <5>2
          <5>4. u.parent[j] = t.parent[j] BY <1>14, <5>1, <5>2
          <5>5. j # a => t.parent[j] \in S[a] BY <2>1, <4>3, <5>1
          <5>6. j = a => t.parent[j] = x BY <1>5, <4>3
          <5> QED BY <4>1, <5>3, <5>4, <5>5, <5>6
        <4>4. CASE j \in S[beta]
          <5>1. beta \in Used(t) /\ j \in Used(t) /\ j \in LevelIndex /\ j \in Slot
            BY <1>8, <2>2, <4>4
          <5>2. j # x /\ j # y BY <1>2, <1>7, <1>8, <4>4
          <5>3. R[j] \subseteq S[beta] BY <1>11, <2>1, <4>4, <5>1, <5>2
          <5>4. j = beta => u.parent[j] = x BY <1>14, <5>1, <5>2
          <5>5. j # beta => u.parent[j] = t.parent[j] /\ t.parent[j] \in S[beta]
            BY <1>14, <2>1, <4>4, <5>1, <5>2
          <5> QED BY <4>1, <5>3, <5>4, <5>5
        <4> QED BY <4>1, <4>2, <4>3, <4>4
      <3> QED BY <3>1, <3>2, <3>3
    <2> QED BY <1>10, <2>5 DEF Nested
  <1>20. ASSUME NEW r \in Sides
         PROVE  /\ R[u.root[r]] = S[t.root[r]]
                /\ t.root[r] = x => r = s /\ u.root[r] = y /\ p = none
                /\ t.root[r] # x => u.root[r] = t.root[r] /\ u.root[r] # y
    <2>1. u.root[r] = IF p = none /\ r = s THEN y ELSE t.root[r] BY DEF Rotated
    <2>2. t.root[r] # none => t.root[r] \in Used(t) /\ t.parent[t.root[r]] = none
      BY <1>9 DEF Rooted
    <2>3. t.root[r] \in Slot BY <1>9, Fields
    <2>4. CASE t.root[r] = x
      <3>1. x \in S[x] BY <1>5
      <3>2. r = s BY <1>1, <2>4, <3>1
      <3> QED BY <1>1, <1>11, <2>1, <2>4, <3>2
    <2>5. CASE t.root[r] # x
      <3>1. u.root[r] = t.root[r] BY <1>1, <2>1, <2>5
      <3>2. t.root[r] # y
        <4> SUFFICES ASSUME t.root[r] = y PROVE FALSE OBVIOUS
        <4>1. t.parent[y] = none BY <1>2, <1>4, <2>2
        <4> QED BY <1>1, <1>4, <1>6, <4>1
      <3> QED BY <1>11, <2>3, <2>5, <3>1, <3>2
    <2> QED BY <2>4, <2>5
  <1>21. Rooted(u, R, n)
    <2>1. ASSUME NEW r \in Sides, u.root[r] # none
          PROVE  u.root[r] \in Used(t) /\ u.parent[u.root[r]] = none
      <3>1. CASE t.root[r] = x BY <1>2, <1>14, <1>20, <2>1, <3>1
      <3>2. CASE t.root[r] # x
        <4>1. u.root[r] = t.root[r] /\ u.root[r] # y BY <1>20, <3>2
        <4>2. t.root[r] \in Used(t) /\ t.parent[t.root[r]] = none BY <1>9, <2>1, <4>1 DEF Rooted
        <4>3. t.root[r] # beta BY <1>2, <1>4, <1>8, <2>1, <4>1, <4>2
        <4> QED BY <1>14, <3>2, <4>1, <4>2, <4>3 DEF Used
      <3> QED BY <3>1, <3>2
    <2>2. ASSUME NEW c \in Used(t), u.parent[c] = none, c # n
          PROVE  \E r \in Sides : u.root[r] = c
      <3>1. c \in LevelIndex BY DEF Used
      <3>2. CASE c = y
        <4>1. p = none BY <1>14, <2>2, <3>1, <3>2
        <4> QED BY <1>1, <1>20, <3>2, <4>1
      <3>3. CASE c # y
        <4>1. c # x /\ c # beta /\ t.parent[c] = none
          BY <1>1, <1>2, <1>4, <1>14, <2>2, <3>1, <3>3
        <4>2. PICK r \in Sides : t.root[r] = c BY <1>9, <2>2, <4>1 DEF Rooted
        <4> QED BY <1>20, <4>1, <4>2
      <3> QED BY <3>2, <3>3
    <2>3. /\ R[u.root["buy"]] \cap R[u.root["sell"]] = {}
          /\ \A c \in Used(t) : c # n => \E r \in Sides : c \in R[u.root[r]]
          /\ \A r \in Sides : n \notin R[u.root[r]]
      <3>1. \A r \in Sides : R[u.root[r]] = S[t.root[r]] BY <1>20
      <3> QED BY <1>9, <3>1 DEF Rooted, Sides
    <2> QED BY <1>10, <2>1, <2>2, <2>3 DEF Rooted
  <1>22. Convex(u, R)
    <2> USE DEF Convex
    <2> TAKE r \in Sides
    <2> TAKE c, j \in R[u.root[r]]
    <2> TAKE f, g \in R[c]
    <2> HAVE u.price[f] < u.price[j] /\ u.price[j] < u.price[g]
    <2> HIDE DEF Convex
    <2>0. /\ c \in S[t.root[r]] /\ j \in S[t.root[r]]
          /\ t.price[f] < t.price[j] /\ t.price[j] < t.price[g]
      BY <1>10, <1>20
    <2>1. \A k \in S[t.root[r]] : \A h, i \in S[k] :
             t.price[h] < t.price[j] /\ t.price[j] < t.price[i] => j \in S[k]
      BY <1>9, <2>0 DEF Convex
    <2>2. /\ c \in Used(t) /\ S[c] \subseteq S[t.root[r]]
          /\ t.parent[c] # none => t.parent[c] \in S[t.root[r]]
      BY <2>0, RootFacts
    <2>3. c \in Slot BY <2>2, Basics DEF Used
    <2>4. CASE c # x /\ c # y BY <1>11, <2>0, <2>1, <2>3, <2>4
    <2>5. CASE c = y
      <3>1. x \in S[t.root[r]] BY <1>1, <1>4, <1>6, <2>2, <2>5
      <3> QED BY <1>11, <2>0, <2>1, <2>5, <3>1
    <2>6. CASE c = x
      <3>1. f \in S[x] /\ g \in S[x] BY <1>5, <1>7, <1>11, <2>6
      <3>2. j \in S[x] BY <2>0, <2>1, <2>6, <3>1
      <3>3. ASSUME j \in {y} \cup S[gamma] PROVE FALSE
        <4>1. \A k \in R[x] : before(d, t.price[k], t.price[y])
          BY <1>2, <1>10, <1>12, <1>18 DEF Ordered
        <4>2. j = y \/ before(other(d), t.price[j], t.price[y])
          BY <1>2, <1>3, <1>4, <1>9, <3>3 DEF Ordered
        <4>3. before(d, t.price[f], t.price[y]) /\ before(d, t.price[g], t.price[y])
          BY <2>6, <4>1
        <4>4. \A k \in Used(t) : t.price[k] \in Nat BY <1>9, Fields DEF Used
        <4>5. /\ t.price[f] \in Nat /\ t.price[g] \in Nat /\ t.price[j] \in Nat
              /\ t.price[y] \in Nat
          BY <1>2, <1>5, <3>1, <3>2, <4>4
        <4>6. j = y \/ (IF d = "left" THEN t.price[y] < t.price[j] ELSE t.price[j] < t.price[y])
          BY ONLY <4>2, d \in Dirs DEF before, other, Dirs
        <4> QED BY ONLY <2>0, <4>3, <4>5, <4>6 DEF before
      <3> QED BY <1>5, <1>7, <1>11, <2>6, <3>2, <3>3
    <2> QED BY <2>4, <2>5, <2>6
  <1> QED BY <1>10, <1>16, <1>17, <1>18, <1>19, <1>20, <1>21, <1>22 DEF Forest, SameSides
-----------------------------------------------------------------------------
(* The stored height of c is true, and its subtrees differ by one at most. *)
HeightOK(t, c) ==
    Even(t.height[c], height(t, t.child["left"][c]), height(t, t.child["right"][c]))

(* Which of the two subtrees comes first does not matter. *)
LEMMA EitherSide ==
    ASSUME NEW t \in TreeType, NEW c \in LevelIndex, NEW d \in Dirs,
           NEW l, l = height(t, t.child[d][c]), NEW r, r = height(t, t.child[other(d)][c])
    PROVE  /\ l \in Nat /\ r \in Nat /\ t.height[c] \in Nat
           /\ HeightOK(t, c) <=> Even(t.height[c], l, r)
  <1>1. l \in Nat /\ r \in Nat /\ t.height[c] \in Nat BY Fields, HeightIs, Basics
  <1>2. CASE d = "left" BY <1>1, <1>2 DEF HeightOK, other
  <1>3. CASE d = "right"
    <2>1. HeightOK(t, c) <=> Even(t.height[c], r, l) BY <1>3 DEF HeightOK, other
    <2>2. Even(t.height[c], r, l) <=> Even(t.height[c], l, r) BY ONLY <1>1 DEF Even
    <2> QED BY <1>1, <2>1, <2>2
  <1> QED BY <1>2, <1>3 DEF Dirs

(* What rotate() does to heights: a, beta and gamma are the three subtrees *)
(* of x and y, p is the parent of x.                                       *)
Trio(t, x, d, y, a, beta, gamma, p) ==
    /\ y = t.child[other(d)][x] /\ y # none /\ a = t.child[d][x]
    /\ beta = t.child[d][y] /\ gamma = t.child[other(d)][y] /\ p = t.parent[x]
Turn(t, u, x, d, y, a, beta, gamma, p) ==
    /\ u \in TreeType /\ Used(u) = Used(t)
    /\ u.child[d][y] = x /\ u.child[other(d)][y] = gamma
    /\ u.child[d][x] = a /\ u.child[other(d)][x] = beta
    /\ u.parent[y] = p /\ u.parent[x] = y
    /\ u.height[x] = taller(height(t, a), height(t, beta))
    /\ u.height[y] = taller(u.height[x], height(t, gamma))
    /\ height(u, a) = height(t, a) /\ height(u, beta) = height(t, beta)
    /\ height(u, gamma) = height(t, gamma)
    /\ \A c \in Used(t) : c # x /\ c # y => u.height[c] = t.height[c]
    /\ \A c \in Used(t) : c # x /\ c # y /\ c # p /\ HeightOK(t, c) => HeightOK(u, c)
    /\ p # none => \A e \in Dirs :
          /\ u.child[e][p] = IF t.child[e][p] = x THEN y ELSE t.child[e][p]
          /\ height(u, u.child[e][p]) =
                IF t.child[e][p] = x THEN u.height[y] ELSE height(t, t.child[e][p])
    /\ \A c \in Used(t) : c # x /\ c # y /\ c # beta => u.parent[c] = t.parent[c]

(* rotate(), named for the levels that take part in it. *)
LEMMA TurnFacts ==
    ASSUME NEW t, NEW S, NEW n, Forest(t, S, n), NEW s \in Sides, NEW x \in S[t.root[s]],
           NEW d \in Dirs, NEW y, NEW a, NEW beta, NEW gamma, NEW p,
           Trio(t, x, d, y, a, beta, gamma, p), NEW u, u = rotate(t, s, x, d)
    PROVE  /\ Turn(t, u, x, d, y, a, beta, gamma, p) /\ SameRest(t, u)
           /\ \E R : Forest(u, R, n) /\ SameSides(t, S, u, R)
  <1>1. /\ y = t.child[other(d)][x] /\ y # none /\ a = t.child[d][x]
        /\ beta = t.child[d][y] /\ gamma = t.child[other(d)][y] /\ p = t.parent[x]
    BY DEF Trio
  <1>2. /\ Shape(t, S) /\ x \in Used(t) /\ x \in LevelIndex BY RootFacts
  <1>3. Rotated(t, u, s, x, d, y, beta, p) /\ Reheighted(t, u, x, d, y, beta)
    BY <1>1, <1>2, RotateFacts
  <1>4. PICK R : R = Turned(S, x, y, a, beta) OBVIOUS
  <1>5. Forest(u, R, n) /\ SameSides(t, S, u, R) BY <1>1, <1>3, <1>4, RotateForest
  <1>6. /\ y \in LevelIndex /\ y \in Used(t) /\ beta \in Slot /\ p \in Slot
        /\ x # y /\ beta # x /\ beta # y /\ p # x /\ p # y
        /\ p # none => p # beta /\ p \in Used(t) /\ p \in LevelIndex
        /\ x \notin S[y]
    BY <1>1, <1>2, Apart
  <1>7. Family(t, S, x, a, y) BY <1>1, <1>2, FamilyFacts
  <1>8. Family(t, S, y, beta, gamma) BY <1>1, <1>2, <1>6, FamilyFacts
  <1>9. /\ other(d) \in Dirs /\ other(d) # d /\ none \notin LevelIndex /\ other(other(d)) = d
        /\ \A e \in Dirs : e = d \/ e = other(d)
    BY Basics
  <1>10. /\ u \in TreeType /\ SameRest(t, u) /\ Used(u) = Used(t)
         /\ t \in TreeType
    BY <1>3 DEF Rotated, SameRest, Used, Forest
  <1>11. /\ a \in Slot /\ a # x /\ a # y /\ gamma \in Slot /\ gamma # x /\ gamma # y
    <2>1. a \in Slot /\ gamma \in Slot BY <1>7, <1>8 DEF Family, Half
    <2>2. a # x /\ a # y BY <1>1, <1>7, <1>9, <1>2, <1>6 DEF Family, Half
    <2>3. gamma # y BY <1>6, <1>8, <1>9 DEF Family, Half
    <2>4. gamma # x BY <1>2, <1>6, <1>8, <1>9 DEF Family, Half
    <2> QED BY <2>1, <2>2, <2>3, <2>4
  <1>12. \A k \in LevelIndex, e \in Dirs :
            u.child[e][k] = IF k = y /\ e = d THEN x ELSE IF k = x /\ e # d THEN beta
                            ELSE IF k = p /\ t.child[e][k] = x THEN y ELSE t.child[e][k]
    BY <1>3 DEF Rotated
  <1>13. \A k \in LevelIndex : u.parent[k] = IF k = y THEN p ELSE IF k = x THEN y
                                             ELSE IF k = beta THEN x ELSE t.parent[k]
    BY <1>3 DEF Rotated
  <1>14. /\ \A k \in LevelIndex : k # x /\ k # y => u.height[k] = t.height[k]
         /\ u.height[x] = taller(height(t, a), height(t, beta))
         /\ u.height[y] = taller(u.height[x], height(t, gamma))
    BY <1>1, <1>3 DEF Reheighted
  <1>15. \A k \in Slot : k # x /\ k # y => height(u, k) = height(t, k)
    BY <1>14 DEF height, Slot
  <1>16. /\ u.child[d][y] = x /\ u.child[other(d)][y] = gamma
         /\ u.child[d][x] = a /\ u.child[other(d)][x] = beta
         /\ u.parent[y] = p /\ u.parent[x] = y
    BY <1>1, <1>2, <1>6, <1>9, <1>11, <1>12, <1>13
  <1>17. ASSUME NEW c \in Used(t), c # x, c # y, NEW e \in Dirs
         PROVE  /\ t.child[e][c] \in Slot /\ t.child[e][c] # y
                /\ t.child[e][c] = x => c = p
                /\ u.child[e][c] = IF t.child[e][c] = x THEN y ELSE t.child[e][c]
    <2>1. c \in LevelIndex BY DEF Used
    <2>2. t.child[e][c] \in Slot /\ (t.child[e][c] # none => t.parent[t.child[e][c]] = c)
      BY <1>2, SubFacts
    <2>3. t.parent[y] = x BY <1>1, <1>7 DEF Family, Half
    <2>4. t.child[e][c] = x => c = p BY <1>1, <1>2, <1>9, <2>2
    <2>5. t.child[e][c] # y BY <1>1, <1>17, <2>2, <2>3
    <2> QED BY <1>12, <1>17, <2>1, <2>2, <2>4, <2>5
  <1>18. ASSUME NEW c \in Used(t), c # x, c # y, c # p, HeightOK(t, c) PROVE HeightOK(u, c)
    <2>1. c \in LevelIndex BY DEF Used
    <2>2. \A e \in Dirs : u.child[e][c] = t.child[e][c] /\ height(u, u.child[e][c]) = height(t, t.child[e][c])
      BY <1>15, <1>17, <1>18
    <2> QED BY <1>14, <1>18, <2>1, <2>2 DEF HeightOK, Dirs
  <1>19. ASSUME p # none, NEW e \in Dirs
         PROVE  /\ u.child[e][p] = IF t.child[e][p] = x THEN y ELSE t.child[e][p]
                /\ height(u, u.child[e][p]) =
                      IF t.child[e][p] = x THEN u.height[y] ELSE height(t, t.child[e][p])
    <2>1. p \in Used(t) /\ p # x /\ p # y BY <1>6, <1>19
    <2>2. height(u, y) = u.height[y] BY <1>6, <1>9 DEF height
    <2> QED BY <1>15, <1>17, <2>1, <2>2
  <1>20. /\ height(u, a) = height(t, a) /\ height(u, beta) = height(t, beta)
         /\ height(u, gamma) = height(t, gamma)
    BY <1>6, <1>11, <1>15
  <1>21. /\ \A c \in Used(t) : c # x /\ c # y => u.height[c] = t.height[c]
         /\ \A c \in Used(t) : c # x /\ c # y /\ c # beta => u.parent[c] = t.parent[c]
    BY <1>13, <1>14 DEF Used
  <1>22. Turn(t, u, x, d, y, a, beta, gamma, p)
    BY <1>10, <1>14, <1>16, <1>18, <1>19, <1>20, <1>21 DEF Turn
  <1> QED BY <1>5, <1>10, <1>22

(* Heights around a level with one subtree two levels taller. *)
LEMMA OneRotation ==
    ASSUME NEW ha \in Nat, NEW hk \in Nat, hk = ha + 2, NEW hb \in Nat, NEW hg \in Nat,
           Even(hk, hg, hb), ~(hg < hb),
           NEW hx, hx = taller(ha, hb), NEW hy, hy = taller(hx, hg)
    PROVE  Even(hx, ha, hb) /\ Even(hy, hx, hg) /\ hy - ha \in 2 .. 3
  BY DEF Even, taller

(* The same where the inner of its grandchildren is the taller one. *)
LEMMA TwoRotations ==
    ASSUME NEW ha \in Nat, NEW hk \in Nat, hk = ha + 2, NEW hc \in Nat, NEW hg \in Nat,
           Even(hk, hc, hg), hc < hg, NEW gl \in Nat, NEW gr \in Nat, Even(hg, gl, gr),
           NEW hx, hx = taller(hc, gl), NEW hw, hw = taller(ha, gr), NEW hy, hy = taller(hw, hx)
    PROVE  Even(hx, hc, gl) /\ Even(hw, ha, gr) /\ Even(hy, hw, hx) /\ hy - ha \in 2 .. 3
  BY DEF Even, taller

(* The subtree where w was is repaired, with tp on top, and nothing else   *)
(* has changed but the height that w's parent q sees.                      *)
Sound(t, w, q) == \A c \in Used(t) : c # w /\ c # q => HeightOK(t, c)
Mended(t, u, w, q, tp) ==
    /\ u \in TreeType /\ SameRest(t, u) /\ tp \in Used(t) /\ u.parent[tp] = q
    /\ \A c \in Used(t) : c # q => HeightOK(u, c)
    /\ q # none => /\ u.height[q] = t.height[q]
                   /\ \A e \in Dirs : height(u, u.child[e][q]) =
                         IF t.child[e][q] = w THEN u.height[tp] ELSE height(t, t.child[e][q])
Kept(t, S, u, n) == \E R : Forest(u, R, n) /\ SameSides(t, S, u, R)

(* The rotations of rebalance_up(): side d of w is two levels taller. *)
LEMMA LowerFacts ==
    ASSUME NEW t, NEW S, NEW n, Forest(t, S, n), NEW s \in Sides, NEW w \in S[t.root[s]],
           NEW d \in Dirs, NEW q, q = t.parent[w], Sound(t, w, q), NEW ha,
           ha = height(t, t.child[other(d)][w]), height(t, t.child[d][w]) = ha + 2,
           NEW u, u = lower(t, s, w, d), NEW tp, tp = u.parent[w]
    PROVE  Mended(t, u, w, q, tp) /\ Kept(t, S, u, n) /\ u.height[tp] - ha \in 2 .. 3
  <1>1. /\ Shape(t, S) /\ w \in Used(t) /\ w \in LevelIndex /\ S[w] \subseteq S[t.root[s]]
        /\ t \in TreeType
    BY RootFacts DEF Shape
  <1>2. /\ other(d) \in Dirs /\ other(d) # d /\ none \notin LevelIndex /\ other(other(d)) = d
        /\ \A e \in Dirs : e = d \/ e = other(d)
    BY Basics
  <1>3. PICK k, o, kd, g : /\ k = t.child[d][w] /\ o = t.child[other(d)][w]
                           /\ kd = t.child[d][k] /\ g = t.child[other(d)][k]
    OBVIOUS
  <1>4. Family(t, S, w, k, o) BY <1>1, <1>3, FamilyFacts
  <1>5. ha \in Nat /\ o \in Slot BY <1>1, <1>3, <1>4, HeightIs DEF Family, Half
  <1>6. k # none BY <1>3, <1>5 DEF height
  <1>7. /\ k \in Used(t) /\ k \in LevelIndex /\ k # w /\ t.parent[k] = w /\ k \in S[w]
        /\ k \in S[t.root[s]]
    BY <1>1, <1>4, <1>6 DEF Family, Half
  <1>8. Family(t, S, k, kd, g) BY <1>1, <1>3, <1>7, FamilyFacts
  <1>9. q # none => q \in Used(t) /\ q \in LevelIndex /\ q # w /\ q \notin S[w]
    BY <1>1, UpFacts
  <1>10. k # q /\ q # w BY <1>1, <1>2, <1>7, <1>9
  <1>11. /\ Even(t.height[k], height(t, kd), height(t, g)) /\ t.height[k] = ha + 2
         /\ height(t, kd) \in Nat /\ height(t, g) \in Nat /\ t.height[k] \in Nat
    <2>1. HeightOK(t, k) BY <1>7, <1>10 DEF Sound
    <2>2. height(t, k) = t.height[k] BY <1>6 DEF height
    <2> QED BY <1>1, <1>3, <1>7, <2>1, <2>2, EitherSide
  <1>12. CASE ~(height(t, kd) < height(t, g))
    <2>1. u = rotate(t, s, w, other(d)) BY <1>3, <1>12 DEF lower
    <2>2. Trio(t, w, other(d), k, o, g, kd, q) BY <1>2, <1>3, <1>6 DEF Trio
    <2>3. /\ Turn(t, u, w, other(d), k, o, g, kd, q) /\ SameRest(t, u) /\ Kept(t, S, u, n)
      BY <1>2, <2>1, <2>2, TurnFacts DEF Kept
    <2>4. /\ u \in TreeType /\ Used(u) = Used(t) /\ u.parent[k] = q /\ tp = k
          /\ u.child[d][k] = kd /\ u.child[other(d)][k] = w
          /\ u.child[d][w] = g /\ u.child[other(d)][w] = o
          /\ u.height[w] = taller(ha, height(t, g))
          /\ u.height[k] = taller(u.height[w], height(t, kd))
          /\ height(u, o) = ha /\ height(u, g) = height(t, g) /\ height(u, kd) = height(t, kd)
      BY <1>2, <1>3, <2>3 DEF Turn
    <2>5. height(u, w) = u.height[w] BY <1>1, <1>2 DEF height
    <2>6. /\ Even(u.height[w], ha, height(t, g)) /\ Even(u.height[k], u.height[w], height(t, kd))
          /\ u.height[k] - ha \in 2 .. 3
      BY <1>5, <1>11, <1>12, <2>4, OneRotation
    <2>7. HeightOK(u, w) BY <1>1, <1>2, <2>4, <2>6, EitherSide
    <2>8. HeightOK(u, k) BY <1>2, <1>7, <2>4, <2>5, <2>6, EitherSide
    <2>9. \A c \in Used(t) : c # q => HeightOK(u, c)
      BY <2>3, <2>7, <2>8 DEF Turn, Sound
    <2>10. q # none => /\ u.height[q] = t.height[q]
                       /\ \A e \in Dirs : height(u, u.child[e][q]) =
                            IF t.child[e][q] = w THEN u.height[tp] ELSE height(t, t.child[e][q])
      BY <1>9, <1>10, <2>3, <2>4 DEF Turn
    <2> QED BY <1>7, <2>3, <2>4, <2>6, <2>9, <2>10 DEF Mended
  <1>13. CASE height(t, kd) < height(t, g)
    <2>1. PICK v : v = rotate(t, s, k, d) OBVIOUS
    <2>2. u = rotate(v, s, w, other(d)) BY <1>3, <1>13, <2>1 DEF lower
    <2>3. g # none BY <1>11, <1>13 DEF height
    <2>4. /\ g \in Used(t) /\ g \in LevelIndex /\ g # k /\ t.parent[g] = k /\ g \in S[k]
      BY <1>8, <2>3 DEF Family, Half
    <2>5. g # w /\ g # q
      <3>1. g \in S[w] /\ w \notin S[k] BY <1>4, <2>4 DEF Family, Half
      <3> QED BY <1>2, <1>9, <2>4, <3>1
    <2>6. PICK gd, go : gd = t.child[d][g] /\ go = t.child[other(d)][g] OBVIOUS
    <2>7. Trio(t, k, d, g, kd, gd, go, w) BY <1>3, <1>7, <2>3, <2>6 DEF Trio
    <2>8. /\ Turn(t, v, k, d, g, kd, gd, go, w) /\ SameRest(t, v)
          /\ \E R : Forest(v, R, n) /\ SameSides(t, S, v, R)
      BY <1>7, <2>1, <2>7, TurnFacts
    <2>9. PICK R : Forest(v, R, n) /\ SameSides(t, S, v, R) BY <2>8
    <2>10. w \in R[v.root[s]] BY <2>9 DEF SameSides
    <2>11. /\ v \in TreeType /\ Used(v) = Used(t)
           /\ v.child[d][g] = k /\ v.child[other(d)][g] = go
           /\ v.child[d][k] = kd /\ v.child[other(d)][k] = gd
           /\ v.height[k] = taller(height(t, kd), height(t, gd))
           /\ height(v, kd) = height(t, kd) /\ height(v, gd) = height(t, gd)
           /\ height(v, go) = height(t, go)
      BY <2>8 DEF Turn
    <2>12. v.child[d][w] = g /\ v.child[other(d)][w] = o /\ height(v, o) = ha
      <3>1. w # none BY <1>1, <1>2
      <3>2. o # k BY <1>4, <1>6 DEF Family
      <3>3. \A e \in Dirs :
               /\ v.child[e][w] = IF t.child[e][w] = k THEN g ELSE t.child[e][w]
               /\ height(v, v.child[e][w]) =
                     IF t.child[e][w] = k THEN v.height[g] ELSE height(t, t.child[e][w])
        BY <2>8, <3>1 DEF Turn
      <3> QED BY <1>2, <1>3, <3>2, <3>3
    <2>13. v.parent[w] = q
      <3>1. w # gd
        <4>1. Family(t, S, g, gd, go) BY <1>1, <2>4, <2>6, FamilyFacts
        <4>2. w \notin S[g] BY <1>4, <1>8, <2>4 DEF Family, Half
        <4> QED BY <1>1, <1>2, <4>1, <4>2 DEF Family, Half
      <3> QED BY <1>1, <1>7, <2>5, <2>8, <3>1 DEF Turn
    <2>14. Trio(v, w, other(d), g, o, go, k, q) BY <1>2, <2>3, <2>11, <2>12, <2>13 DEF Trio
    <2>15. /\ Turn(v, u, w, other(d), g, o, go, k, q) /\ SameRest(v, u)
           /\ \E Q : Forest(u, Q, n) /\ SameSides(v, R, u, Q)
      BY <1>2, <2>2, <2>9, <2>10, <2>14, TurnFacts
    <2>16. Kept(t, S, u, n) BY <2>9, <2>15 DEF SameSides, Kept
    <2>17. SameRest(t, u) BY <2>8, <2>15 DEF SameRest
    <2>18. /\ u \in TreeType /\ u.parent[g] = q /\ tp = g
           /\ u.child[d][g] = k /\ u.child[other(d)][g] = w
           /\ u.child[d][w] = go /\ u.child[other(d)][w] = o
           /\ u.height[w] = taller(ha, height(t, go))
           /\ u.height[g] = taller(u.height[w], v.height[k])
           /\ height(u, o) = ha /\ height(u, go) = height(t, go) /\ height(u, k) = v.height[k]
      <3>1. height(v, k) = v.height[k] BY <1>6 DEF height
      <3> QED BY <1>2, <2>11, <2>12, <2>15, <3>1 DEF Turn
    <2>19. Even(t.height[g], height(t, gd), height(t, go)) /\ height(t, gd) \in Nat
           /\ height(t, go) \in Nat /\ height(t, g) = t.height[g]
      <3>1. HeightOK(t, g) BY <2>4, <2>5 DEF Sound
      <3> QED BY <1>1, <2>3, <2>4, <2>6, <3>1, EitherSide DEF height
    <2>20. /\ Even(v.height[k], height(t, kd), height(t, gd)) /\ Even(u.height[w], ha, height(t, go))
           /\ Even(u.height[g], u.height[w], v.height[k]) /\ u.height[g] - ha \in 2 .. 3
      BY <1>5, <1>11, <1>13, <2>11, <2>18, <2>19, TwoRotations
    <2>21. HeightOK(v, k) BY <1>7, <2>11, <2>20, EitherSide
    <2>22. HeightOK(u, w) BY <1>1, <1>2, <2>18, <2>20, EitherSide
    <2>23. HeightOK(u, g)
      <3>1. height(u, w) = u.height[w] BY <1>1, <1>2 DEF height
      <3> QED BY <1>2, <2>4, <2>18, <2>20, <3>1, EitherSide
    <2>24. ASSUME NEW c \in Used(t), c # q PROVE HeightOK(u, c)
      <3>1. CASE c = w \/ c = g BY <2>22, <2>23, <3>1
      <3>2. CASE c # w /\ c # g
        <4>1. HeightOK(v, c)
          <5>1. CASE c = k BY <2>21, <5>1
          <5>2. CASE c # k
            <6>1. HeightOK(t, c) BY <2>24, <3>2 DEF Sound
            <6> QED BY <2>8, <3>2, <5>2, <6>1 DEF Turn
          <5> QED BY <5>1, <5>2
        <4> QED BY <2>11, <2>15, <2>24, <3>2, <4>1 DEF Turn
      <3> QED BY <3>1, <3>2
    <2>25. ASSUME q # none
           PROVE  /\ u.height[q] = t.height[q]
                  /\ \A e \in Dirs : height(u, u.child[e][q]) =
                        IF t.child[e][q] = w THEN u.height[tp] ELSE height(t, t.child[e][q])
      <3>1. q \in Used(t) /\ q # w /\ q # k /\ q # g BY <1>9, <1>10, <2>5, <2>25
      <3>2. u.height[q] = t.height[q] BY <2>8, <2>11, <2>15, <3>1 DEF Turn
      <3>3. ASSUME NEW e \in Dirs
            PROVE  /\ v.child[e][q] = t.child[e][q]
                   /\ t.child[e][q] # w => height(v, t.child[e][q]) = height(t, t.child[e][q])
        <4>1. PICK c : c = t.child[e][q] OBVIOUS
        <4>2. c \in Slot /\ (c # none => t.parent[c] = q /\ c \in Used(t))
          BY <1>1, <3>1, <4>1, SubFacts
        <4>3. c # k /\ c # g BY <1>2, <1>6, <1>7, <2>3, <2>4, <2>25, <3>1, <4>2
        <4>4. height(v, c) = height(t, c) BY <2>8, <4>2, <4>3 DEF Turn, height
        <4>5. q \in LevelIndex BY <3>1 DEF Used
        <4>6. Rotated(t, v, s, k, d, g, gd, w)
          BY <1>1, <1>3, <1>7, <2>1, <2>3, <2>6, RotateFacts
        <4>7. v.child[e][q] = t.child[e][q] BY <3>1, <4>5, <4>6 DEF Rotated
        <4> QED BY <4>1, <4>4, <4>7
      <3>4. \A e \in Dirs : height(u, u.child[e][q]) =
               IF v.child[e][q] = w THEN u.height[g] ELSE height(v, v.child[e][q])
        BY <2>15, <2>25 DEF Turn
      <3> QED BY <2>18, <3>2, <3>3, <3>4
    <2> QED BY <2>4, <2>16, <2>17, <2>18, <2>20, <2>24, <2>25 DEF Mended
  <1> QED BY <1>12, <1>13

(* A height that is stored is no link. *)
LEMMA SameForest ==
    ASSUME NEW t, NEW S, NEW n, Forest(t, S, n), NEW u \in TreeType, SameRest(t, u), SameLinks(t, u)
    PROVE  Forest(u, S, n) /\ SameSides(t, S, u, S) /\ Used(u) = Used(t)
  <1>1. /\ u.price = t.price /\ u.parent = t.parent /\ u.child = t.child /\ u.root = t.root
        /\ Used(u) = Used(t)
    BY DEF SameRest, SameLinks, Used
  <1>2. Below(u, S) /\ Linked(u) BY <1>1 DEF Forest, Below, Linked
  <1>3. Ordered(u, S) /\ Nested(u, S) BY <1>1 DEF Forest, Ordered, Nested
  <1>4. Rooted(u, S, n) BY <1>1 DEF Forest, Rooted
  <1>5. Convex(u, S) BY <1>1 DEF Forest, Convex
  <1> QED BY <1>1, <1>2, <1>3, <1>4, <1>5 DEF Forest, SameSides

(* Heights at a level to be repaired, before and after: b is what its      *)
(* parent knows, x and y are the heights of its subtrees.                  *)
Stale(b, x, y) == \E l, r \in Nat : Even(b, l, r) /\ Near(l, r, x, y)

(* update() and the rotations bring the height to within one of b. *)
LEMMA Repair ==
    ASSUME NEW b \in Nat, NEW x \in Nat, NEW y \in Nat, Stale(b, x, y)
    PROVE  /\ x - y \in -2 .. 2
           /\ x - y = 2 => b - y \in 2 .. 3
           /\ x - y = -2 => b - x \in 2 .. 3
           /\ x - y \in -1 .. 1 => Even(taller(x, y), x, y) /\ taller(x, y) - b \in -1 .. 1
  <1>1. PICK l, r \in Nat : Even(b, l, r) /\ Near(l, r, x, y) BY DEF Stale
  <1> QED BY <1>1 DEF Even, Near, taller

(* What is known of the heights when w is to be repaired. *)
LEMMA StaleFacts ==
    ASSUME NEW t, NEW S, Shape(t, S), NEW w \in Used(t), NEW b, Heights(t, w, b),
           NEW q, q = t.parent[w]
    PROVE  /\ b \in Nat /\ t.height[w] <= b /\ \A c \in Used(t) : t.height[c] > 0
           /\ Stale(b, height(t, t.child["left"][w]), height(t, t.child["right"][w]))
           /\ Sound(t, w, q)
           /\ q # none => /\ t.height[q] > b
                          /\ \E e \in Dirs : /\ t.child[e][q] = w /\ t.child[other(e)][q] # w
                                             /\ Even(t.height[q], b, height(t, t.child[other(e)][q]))
  <1>1. w # none /\ w \in LevelIndex /\ t \in TreeType BY Basics DEF Used, Shape
  <1>2. /\ b \in Nat /\ t.height[w] <= b /\ \A c \in Used(t) : t.height[c] > 0
        /\ Stale(b, height(t, t.child["left"][w]), height(t, t.child["right"][w]))
    BY <1>1 DEF Heights, Stale
  <1>3. \A c \in Used(t) : c # w =>
           Even(t.height[c], known(t, w, b, t.child["left"][c]), known(t, w, b, t.child["right"][c]))
    BY DEF Heights
  <1>4. Sound(t, w, q)
    <2>1. ASSUME NEW c \in Used(t), c # w, c # q PROVE HeightOK(t, c)
      <3>1. \A e \in Dirs : t.child[e][c] # w BY <1>1, <2>1, SubFacts
      <3>2. \A e \in Dirs : known(t, w, b, t.child[e][c]) = height(t, t.child[e][c])
        BY <3>1 DEF known
      <3> QED BY <1>3, <2>1, <3>2 DEF HeightOK, Dirs
    <2> QED BY <2>1 DEF Sound
  <1>5. ASSUME q # none
        PROVE  /\ t.height[q] > b
               /\ \E e \in Dirs : /\ t.child[e][q] = w /\ t.child[other(e)][q] # w
                                  /\ Even(t.height[q], b, height(t, t.child[other(e)][q]))
    <2>1. /\ q \in Used(t) /\ q \in LevelIndex /\ q # w
          /\ \E e \in Dirs : t.child[e][q] = w /\ t.child[other(e)][q] # w
      BY <1>5, UpFacts
    <2>2. PICK e \in Dirs : t.child[e][q] = w /\ t.child[other(e)][q] # w BY <2>1
    <2>3. PICK h : h = height(t, t.child[other(e)][q]) OBVIOUS
    <2>4. h \in Nat /\ t.height[q] \in Nat BY <1>1, <2>1, <2>3, Fields, HeightIs, Basics
    <2>5. known(t, w, b, t.child[e][q]) = b /\ known(t, w, b, t.child[other(e)][q]) = h
      BY <1>1, <2>2, <2>3 DEF known
    <2>6. Even(t.height[q], b, h) \/ Even(t.height[q], h, b)
      BY <1>3, <2>1, <2>5 DEF Dirs, other
    <2>7. Even(t.height[q], b, h) /\ t.height[q] > b BY ONLY <1>2, <2>4, <2>6 DEF Even
    <2> QED BY <2>2, <2>3, <2>7
  <1> QED BY <1>2, <1>4, <1>5

(* One repaired subtree leaves only its parent to be repaired. *)
LEMMA MendedHeights ==
    ASSUME NEW t, NEW S, Shape(t, S), NEW w \in Used(t), NEW q, q = t.parent[w],
           NEW u, NEW tp, Mended(t, u, w, q, tp), NEW b \in Nat, u.height[tp] - b \in -1 .. 1,
           \A c \in Used(t) : t.height[c] > 0,
           q # none => \E e \in Dirs : /\ t.child[e][q] = w /\ t.child[other(e)][q] # w
                                       /\ Even(t.height[q], b, height(t, t.child[other(e)][q]))
    PROVE  \E h : Heights(u, q, h)
  <1>1. /\ u \in TreeType /\ SameRest(t, u) /\ tp \in Used(t)
        /\ \A c \in Used(t) : c # q => HeightOK(u, c)
        /\ t \in TreeType
    BY DEF Mended, Shape
  <1>2. Used(u) = Used(t) BY <1>1 DEF SameRest, Used
  <1>3. PICK h : h = IF q = none THEN 0 ELSE u.height[q] OBVIOUS
  <1>4. \A c : known(u, q, h, c) = height(u, c) BY <1>3 DEF known, height
  <1>5. ASSUME NEW c \in Used(u), c # q PROVE u.height[c] > 0
    <2>1. HeightOK(u, c) BY <1>1, <1>2, <1>5
    <2>2. c \in LevelIndex BY DEF Used
    <2>3. PICK l, r : l = height(u, u.child["left"][c]) /\ r = height(u, u.child["right"][c])
      OBVIOUS
    <2>4. l \in Nat /\ r \in Nat /\ Even(u.height[c], l, r) /\ u.height[c] \in Nat
      BY <1>1, <2>1, <2>2, <2>3, Fields, HeightIs DEF HeightOK, Dirs
    <2> QED BY ONLY <2>4 DEF Even
  <1>6. \A c \in Used(u) : c # q =>
           Even(u.height[c], known(u, q, h, u.child["left"][c]), known(u, q, h, u.child["right"][c]))
    BY <1>1, <1>2, <1>4 DEF HeightOK
  <1>7. CASE q = none
    <2>1. \A c \in Used(u) : c # q BY <1>7, Basics DEF Used
    <2> QED BY <1>5, <1>6, <1>7, <2>1 DEF Heights
  <1>8. CASE q # none
    <2>1. q \in Used(t) /\ q \in LevelIndex BY <1>8, UpFacts
    <2>2. /\ u.height[q] = t.height[q]
          /\ \A e \in Dirs : height(u, u.child[e][q]) =
                IF t.child[e][q] = w THEN u.height[tp] ELSE height(t, t.child[e][q])
      BY <1>8 DEF Mended
    <2>3. h = t.height[q] /\ h \in Nat /\ h > 0 /\ u.height[q] <= h
      BY <1>1, <1>3, <1>8, <2>1, <2>2, Fields
    <2>4. PICK e \in Dirs : /\ t.child[e][q] = w /\ t.child[other(e)][q] # w
                            /\ Even(t.height[q], b, height(t, t.child[other(e)][q]))
      BY <1>8
    <2>5. PICK r, x : r = height(t, t.child[other(e)][q]) /\ x = u.height[tp] OBVIOUS
    <2>6. height(u, u.child[e][q]) = x /\ height(u, u.child[other(e)][q]) = r
      BY <2>2, <2>4, <2>5, Basics
    <2>7. r \in Nat /\ x \in Nat
      <3>1. t.child[other(e)][q] \in Slot BY <1>1, <2>1, Fields, Basics
      <3>2. r \in Nat BY <1>1, <2>5, <3>1, HeightIs
      <3>3. tp \in LevelIndex BY <1>1 DEF Used
      <3>4. x \in Nat BY <1>1, <2>5, <3>3, Fields
      <3> QED BY <3>2, <3>4
    <2>8. /\ Even(h, b, r) /\ Near(b, r, x, r) /\ Even(h, r, b) /\ Near(r, b, r, x)
      BY <2>3, <2>4, <2>5, <2>7, SMTT(30) DEF Even, Near
    <2>9. \E l, k \in Nat : /\ Even(h, l, k)
                            /\ Near(l, k, height(u, u.child["left"][q]), height(u, u.child["right"][q]))
      <3>1. CASE e = "left" BY <2>6, <2>7, <2>8, <3>1 DEF other
      <3>2. CASE e = "right" BY <2>6, <2>7, <2>8, <3>2 DEF other
      <3> QED BY <3>1, <3>2 DEF Dirs
    <2> QED BY <1>2, <1>5, <1>6, <2>1, <2>2, <2>3, <2>9 DEF Heights
  <1> QED BY <1>7, <1>8

(* One iteration of rebalance_up() at w repairs its subtree, whose levels  *)
(* stay the same, and leaves the parent to be repaired.                    *)
LEMMA RebalanceFacts ==
    ASSUME NEW t0, NEW S, NEW n, Forest(t0, S, n), NEW s \in Sides, NEW w \in S[t0.root[s]],
           NEW b, Heights(t0, w, b), NEW t, t = update(t0, w), NEW u, u = restore(t, s, w),
           NEW tp, tp = top(t, u, w), NEW q, q = u.parent[tp]
    PROVE  /\ Kept(t0, S, u, n) /\ SameRest(t0, u) /\ q = t0.parent[w]
           /\ \E h : Heights(u, q, h)
           /\ q # none => t0.height[q] > t0.height[w]
  <1>1. /\ Shape(t0, S) /\ w \in Used(t0) /\ w \in LevelIndex /\ t0 \in TreeType
    BY RootFacts DEF Shape
  <1>2. PICK p : p = t0.parent[w] OBVIOUS
  <1>3. /\ b \in Nat /\ t0.height[w] <= b /\ \A c \in Used(t0) : t0.height[c] > 0
        /\ Stale(b, height(t0, t0.child["left"][w]), height(t0, t0.child["right"][w]))
        /\ Sound(t0, w, p)
        /\ p # none => t0.height[p] > b
    BY <1>1, <1>2, StaleFacts
  <1>4. p # none => \E e \in Dirs : /\ t0.child[e][p] = w /\ t0.child[other(e)][p] # w
                                    /\ Even(t0.height[p], b, height(t0, t0.child[other(e)][p]))
    BY <1>1, <1>2, StaleFacts
  <1>5. Updated(t0, t, w) BY <1>1, UpdateFacts
  <1>6. /\ t \in TreeType /\ SameRest(t0, t) /\ SameLinks(t0, t)
        /\ t.child = t0.child /\ t.parent = t0.parent /\ t.root = t0.root
        /\ \A k \in LevelIndex : k # w => t.height[k] = t0.height[k]
    BY <1>5 DEF Updated, SameLinks
  <1>7. Forest(t, S, n) /\ Used(t) = Used(t0) BY <1>6, SameForest
  <1>8. /\ Shape(t, S) /\ w \in S[t.root[s]] BY <1>6, <1>7 DEF Forest, Shape
  <1>9. ASSUME NEW c \in Used(t), NEW e \in Dirs, t.child[e][c] # w
        PROVE  height(t, t.child[e][c]) = height(t0, t0.child[e][c])
    <2>1. t.child[e][c] \in Slot BY <1>6, Fields DEF Used
    <2> QED BY <1>6, <1>9, <2>1 DEF height, Slot
  <1>10. ASSUME NEW c \in Used(t), c # w, c # p PROVE HeightOK(t, c)
    <2>1. c \in LevelIndex /\ w # none BY <1>1, Basics DEF Used
    <2>2. \A e \in Dirs : t.child[e][c] # w BY <1>2, <1>6, <1>8, <1>10, <2>1, SubFacts
    <2>3. HeightOK(t0, c) BY <1>3, <1>7, <1>10 DEF Sound
    <2> QED BY <1>6, <1>9, <1>10, <2>1, <2>2, <2>3 DEF HeightOK, Dirs
  <1>11. Sound(t, w, p) BY <1>10 DEF Sound
  <1>12. PICK l, r : l = height(t, t.child["left"][w]) /\ r = height(t, t.child["right"][w])
    OBVIOUS
  <1>13. /\ l = height(t0, t0.child["left"][w]) /\ r = height(t0, t0.child["right"][w])
         /\ t.height[w] = taller(l, r) /\ l \in Nat /\ r \in Nat
    <2>1. \A e \in Dirs : t.child[e][w] \in Slot /\ t.child[e][w] # w
      <3>1. \A e \in Dirs : t.child[e][w] \in Slot /\ (t.child[e][w] # none => t.child[e][w] # w)
        BY <1>1, <1>7, <1>8, SubFacts
      <3> QED BY <1>1, <3>1, Basics
    <2>2. /\ l = height(t0, t0.child["left"][w]) /\ r = height(t0, t0.child["right"][w])
      BY <1>1, <1>7, <1>9, <1>12, <2>1 DEF Dirs
    <2> QED BY <1>5, <1>6, <1>12, <2>1, <2>2, HeightIs DEF Updated, Dirs
  <1>14. /\ l - r \in -2 .. 2
         /\ l - r = 2 => b - r \in 2 .. 3
         /\ l - r = -2 => b - l \in 2 .. 3
         /\ l - r \in -1 .. 1 => Even(taller(l, r), l, r) /\ taller(l, r) - b \in -1 .. 1
    <2>1. Stale(b, l, r) BY <1>3, <1>13
    <2> QED BY <1>3, <1>13, <2>1, Repair
  <1>15. balance(t, w) = l - r BY <1>12 DEF balance
  <1>16. /\ Mended(t, u, w, p, tp) /\ u.height[tp] - b \in -1 .. 1 /\ Kept(t, S, u, n)
    <2>1. CASE l - r \in -1 .. 1
      <3>1. u = t /\ tp = w BY <1>13, <1>15, <2>1 DEF restore, top
      <3>2. HeightOK(t, w) BY <1>12, <1>13, <1>14, <2>1 DEF HeightOK
      <3>3. \A c \in Used(t) : c # p => HeightOK(t, c) BY <1>10, <3>2
      <3>4. \A e \in Dirs : height(t, t.child[e][p]) =
               IF t.child[e][p] = w THEN t.height[w] ELSE height(t, t.child[e][p])
        BY <1>1, Basics DEF height
      <3>5. Mended(t, u, w, p, tp)
        BY <1>1, <1>2, <1>6, <1>7, <3>1, <3>3, <3>4 DEF Mended, SameRest
      <3>6. Kept(t, S, u, n) BY <1>7, <3>1 DEF Kept, SameSides
      <3> QED BY <1>13, <1>14, <2>1, <3>1, <3>5, <3>6
    <2>2. ASSUME NEW d \in Dirs, NEW ha \in Nat, ha = height(t, t.child[other(d)][w]),
                 height(t, t.child[d][w]) = ha + 2, u = lower(t, s, w, d), tp = u.parent[w],
                 b - ha \in 2 .. 3
          PROVE  Mended(t, u, w, p, tp) /\ u.height[tp] - b \in -1 .. 1 /\ Kept(t, S, u, n)
      <3>1. p = t.parent[w] BY <1>2, <1>6
      <3>2. Mended(t, u, w, p, tp) /\ Kept(t, S, u, n) /\ u.height[tp] - ha \in 2 .. 3
        BY <1>7, <1>8, <1>11, <2>2, <3>1, LowerFacts
      <3>3. u.height[tp] \in Nat BY <3>2, Fields DEF Mended, Used
      <3> QED BY ONLY <1>3, <2>2, <3>2, <3>3
    <2>3. CASE l - r = 2
      <3>1. u = lower(t, s, w, "left") /\ tp = u.parent[w]
        BY <1>15, <2>3 DEF restore, top
      <3>2. other("left") = "right" /\ "left" \in Dirs BY DEF other, Dirs
      <3>3. l = r + 2 BY <1>13, <2>3
      <3> QED BY <1>12, <1>13, <1>14, <2>2, <2>3, <3>1, <3>2, <3>3
    <2>4. CASE l - r = -2
      <3>1. u = lower(t, s, w, "right") /\ tp = u.parent[w]
        BY <1>15, <2>4 DEF restore, top
      <3>2. other("right") = "left" /\ "right" \in Dirs BY DEF other, Dirs
      <3>3. r = l + 2 BY <1>13, <2>4
      <3> QED BY <1>12, <1>13, <1>14, <2>2, <2>4, <3>1, <3>2, <3>3
    <2> QED BY <1>13, <1>14, <2>1, <2>3, <2>4
  <1>17. q = p BY <1>16 DEF Mended
  <1>18. SameRest(t0, u) BY <1>6, <1>16 DEF SameRest, Mended
  <1>19. Kept(t0, S, u, n) BY <1>6, <1>16 DEF Kept, SameSides
  <1>20. \E h : Heights(u, p, h)
    <2>1. \A c \in Used(t) : t.height[c] > 0
      <3>1. t.height[w] > 0 BY <1>13 DEF taller
      <3> QED BY <1>3, <1>6, <1>7, <3>1 DEF Used
    <2>2. ASSUME p # none
          PROVE  \E e \in Dirs : /\ t.child[e][p] = w /\ t.child[other(e)][p] # w
                                 /\ Even(t.height[p], b, height(t, t.child[other(e)][p]))
      <3>1. PICK e \in Dirs : /\ t0.child[e][p] = w /\ t0.child[other(e)][p] # w
                              /\ Even(t0.height[p], b, height(t0, t0.child[other(e)][p]))
        BY <1>4, <2>2
      <3>2. p \in Used(t) /\ p # w /\ p \in LevelIndex BY <1>1, <1>2, <1>7, <2>2, UpFacts
      <3>3. other(e) \in Dirs BY Basics
      <3>4. height(t, t.child[other(e)][p]) = height(t0, t0.child[other(e)][p])
        BY <1>6, <1>9, <3>1, <3>2, <3>3
      <3>5. t.height[p] = t0.height[p] BY <1>6, <3>2
      <3> QED BY <1>6, <3>1, <3>4, <3>5
    <2>3. p = t.parent[w] /\ w \in Used(t) BY <1>1, <1>2, <1>6, <1>7
    <2> QED BY <1>3, <1>8, <1>16, <2>1, <2>2, <2>3, MendedHeights
  <1>21. p # none => t0.height[p] > t0.height[w]
    <2> SUFFICES ASSUME p # none PROVE t0.height[p] > t0.height[w] OBVIOUS
    <2>1. p \in LevelIndex BY <1>1, <1>2, UpFacts
    <2>2. t0.height[p] \in Nat /\ t0.height[w] \in Nat BY <1>1, <2>1, Fields
    <2> QED BY <1>3, <2>2
  <1> QED BY <1>2, <1>17, <1>18, <1>19, <1>20, <1>21
-----------------------------------------------------------------------------
(* Level z, with at most one child c, leaves its tree. *)
Unhung(t, u, z, c, p) ==
    /\ u \in TreeType /\ Used(u) = Used(t) \ {z}
    /\ \A k \in Used(u) : u.price[k] = t.price[k]
    /\ \A k \in Used(u) : u.parent[k] = IF k = c THEN p ELSE t.parent[k]
    /\ \A k \in Used(u), e \in Dirs :
          u.child[e][k] = IF t.child[e][k] = z THEN c ELSE t.child[e][k]
    /\ \A r \in Sides : u.root[r] = IF t.root[r] = z THEN c ELSE t.root[r]
Without(S, z) == [k \in Slot |-> IF k = z THEN {} ELSE S[k] \ {z}]

(* A level with one child at most goes, and its child takes its place. *)
LEMMA UnhangForest ==
    ASSUME NEW t, NEW S, NEW n, Forest(t, S, n), NEW s \in Sides, NEW z \in S[t.root[s]],
           NEW d \in Dirs, NEW c, c = t.child[d][z], t.child[other(d)][z] = none,
           NEW p, p = t.parent[z], NEW u, Unhung(t, u, z, c, p), NEW R, R = Without(S, z)
    PROVE  Forest(u, R, n) /\ \A r \in Sides : R[u.root[r]] = S[t.root[r]] \ {z}
  <1>1. /\ Shape(t, S) /\ z \in Used(t) /\ z \in LevelIndex /\ z # n
        /\ \A r \in Sides : z \in S[t.root[r]] => r = s
        /\ p = none <=> t.root[s] = z
    BY RootFacts
  <1>2. /\ t \in TreeType /\ Below(t, S) /\ Linked(t) /\ Ordered(t, S) /\ Nested(t, S)
        /\ Rooted(t, S, n) /\ Convex(t, S)
    BY DEF Forest
  <1>3. Family(t, S, z, c, none) BY <1>1, FamilyFacts
  <1>4. /\ c \in Slot /\ z \notin S[c] /\ S[z] = {z} \cup S[c] /\ S[none] = {}
        /\ c # none => c \in Used(t) /\ c \in S[c] /\ c # z /\ t.parent[c] = z
        /\ c # z
    <2>1. none # z BY <1>1, Basics
    <2> QED BY <1>2, <1>3, <2>1 DEF Family, Half, Below
  <1>5. p \in Slot /\ p # z /\ (p # none => p \in Used(t) /\ \E e \in Dirs : t.child[e][p] = z)
    <2>1. p \in Slot BY <1>1, <1>2, Fields
    <2>2. p # none => p \in Used(t) /\ p # z /\ \E e \in Dirs : t.child[e][p] = z
      BY <1>1, UpFacts
    <2> QED BY <1>1, <2>1, <2>2, Basics
  <1>6. /\ u \in TreeType /\ Used(u) = Used(t) \ {z}
        /\ \A k \in Used(u) : u.price[k] = t.price[k]
        /\ \A k \in Used(u) : u.parent[k] = IF k = c THEN p ELSE t.parent[k]
        /\ \A k \in Used(u), e \in Dirs :
              u.child[e][k] = IF t.child[e][k] = z THEN c ELSE t.child[e][k]
        /\ \A r \in Sides : u.root[r] = IF t.root[r] = z THEN c ELSE t.root[r]
    BY DEF Unhung
  <1>7. /\ R[z] = {} /\ \A k \in Slot : k # z => R[k] = S[k] \ {z}
        /\ R[c] = S[z] \ {z}
    BY <1>1, <1>4, Basics DEF Without
  <1>8. ASSUME NEW k \in Used(u), NEW e \in Dirs
        PROVE  /\ R[u.child[e][k]] = S[t.child[e][k]] \ {z}
               /\ t.child[e][k] \in Slot
               /\ t.child[e][k] = z => k = p
               /\ t.child[e][k] # none => t.child[e][k] \in Used(t) /\ t.parent[t.child[e][k]] = k
    <2>1. /\ t.child[e][k] \in Slot
          /\ t.child[e][k] # none => t.child[e][k] \in Used(t) /\ t.parent[t.child[e][k]] = k
      BY <1>1, <1>6, SubFacts
    <2>2. t.child[e][k] = z => k = p BY <1>1, <2>1, Basics
    <2> QED BY <1>6, <1>7, <2>1, <2>2
  <1>9. Below(u, R)
    <2>1. R = [k \in Slot |-> R[k]] BY DEF Without
    <2>2. \A k \in Slot : S[k] \subseteq Used(t) BY <1>2 DEF Below
    <2>3. \A k \in Slot : R[k] \in SUBSET Used(u) BY <1>6, <1>7, <2>2
    <2>4. R \in [Slot -> SUBSET Used(u)] BY <2>1, <2>3
    <2>5. R[none] = {} BY <1>4, <1>7, Basics
    <2>6. ASSUME NEW k \in Used(u)
          PROVE  R[k] = {k} \cup R[u.child["left"][k]] \cup R[u.child["right"][k]]
      <3>1. S[k] = {k} \cup S[t.child["left"][k]] \cup S[t.child["right"][k]]
        BY <1>2, <1>6 DEF Below
      <3>2. k # z /\ k \in Slot BY <1>6, Basics DEF Used
      <3> QED BY <1>7, <1>8, <3>1, <3>2 DEF Dirs
    <2> QED BY <2>4, <2>5, <2>6 DEF Below
  <1>10. Linked(u)
    <2>1. ASSUME NEW k \in Used(u), NEW e \in Dirs, NEW v, v = u.child[e][k], v # none
          PROVE  v \in Used(u) /\ u.parent[v] = k
      <3>1. CASE t.child[e][k] = z
        <4>1. v = c /\ k = p BY <1>6, <1>8, <2>1, <3>1
        <4>2. v \in Used(u) BY <1>4, <1>6, <2>1, <4>1
        <4> QED BY <1>6, <4>1, <4>2
      <3>2. CASE t.child[e][k] # z
        <4>1. v = t.child[e][k] /\ v \in Used(u) /\ t.parent[v] = k BY <1>6, <1>8, <2>1, <3>2
        <4>2. v # c BY <1>4, <1>6, <2>1, <4>1
        <4> QED BY <1>6, <4>1, <4>2
      <3> QED BY <3>1, <3>2
    <2>2. ASSUME NEW k \in Used(u), NEW q, q = u.parent[k], q # none
          PROVE  q \in Used(u) /\ \E e \in Dirs : u.child[e][q] = k
      <3>1. CASE k = c
        <4>1. q = p /\ p \in Used(u) BY <1>5, <1>6, <2>2, <3>1
        <4>2. PICK e \in Dirs : t.child[e][p] = z BY <1>5, <2>2, <4>1
        <4> QED BY <1>6, <3>1, <4>1, <4>2
      <3>2. CASE k # c
        <4>1. q = t.parent[k] /\ k \in Used(t) /\ k # z BY <1>6, <2>2, <3>2
        <4>2. q \in Used(t) /\ \E e \in Dirs : t.child[e][q] = k BY <1>1, <2>2, <4>1, UpFacts
        <4>3. PICK e \in Dirs : t.child[e][q] = k BY <4>2
        <4>4. q # z
          <5>1. e = d \/ e = other(d) BY Basics
          <5>2. k # none BY <4>1, Basics DEF Used
          <5> QED BY <3>2, <4>3, <5>1, <5>2
        <4> QED BY <1>6, <4>1, <4>2, <4>3, <4>4
      <3> QED BY <3>1, <3>2
    <2> QED BY <2>1, <2>2 DEF Linked
  <1>11. Ordered(u, R)
    <2>1. ASSUME NEW k \in Used(u), NEW e \in Dirs, NEW j \in R[u.child[e][k]]
          PROVE  before(e, u.price[j], u.price[k])
      <3>1. j \in S[t.child[e][k]] /\ j # z /\ k \in Used(t) BY <1>6, <1>8, <2>1
      <3>2. before(e, t.price[j], t.price[k]) BY <1>2, <3>1 DEF Ordered
      <3>3. j \in Used(t) BY <1>2, <1>8, <3>1 DEF Below
      <3> QED BY <1>6, <3>1, <3>2, <3>3
    <2> QED BY <2>1 DEF Ordered
  <1>12. Nested(u, R)
    <2>1. ASSUME NEW k \in Used(u), NEW j \in R[k]
          PROVE  R[j] \subseteq R[k] /\ (j # k => u.parent[j] \in R[k])
      <3>1. k \in Used(t) /\ k # z /\ k \in Slot BY <1>6, Basics DEF Used
      <3>2. R[k] = S[k] \ {z} /\ j \in S[k] /\ j # z BY <1>7, <2>1, <3>1
      <3>3. \A i \in S[k] : S[i] \subseteq S[k] /\ (i # k => t.parent[i] \in S[k])
        BY <1>2, <3>1 DEF Nested
      <3>4. j \in Used(t) /\ j \in Slot /\ j \in Used(u)
        BY <1>2, <1>6, <3>1, <3>2, Basics DEF Below, Used
      <3>5. R[j] \subseteq R[k] BY <1>7, <3>2, <3>3, <3>4
      <3>6. ASSUME j # k PROVE u.parent[j] \in R[k]
        <4>1. t.parent[j] \in S[k] BY <3>2, <3>3, <3>6
        <4>2. CASE j = c
          <5>1. z \in S[k] BY <1>4, <3>4, <4>1, <4>2, Basics DEF Used
          <5>2. p \in S[k] BY <3>1, <3>3, <5>1
          <5> QED BY <1>5, <1>6, <3>2, <3>4, <4>2, <5>2
        <4>3. CASE j # c
          <5>1. t.parent[j] # z
            <6> SUFFICES ASSUME t.parent[j] = z PROVE FALSE OBVIOUS
            <6>1. z # none BY <1>1, Basics
            <6>2. PICK e \in Dirs : t.child[e][z] = j BY <1>1, <3>4, <6>1, UpFacts
            <6>3. e = d \/ e = other(d) BY Basics
            <6>4. j # none BY <3>4, Basics DEF Used
            <6> QED BY <4>3, <6>2, <6>3, <6>4
          <5> QED BY <1>6, <3>2, <3>4, <4>1, <4>3, <5>1
        <4> QED BY <4>2, <4>3
      <3> QED BY <3>5, <3>6
    <2> QED BY <2>1 DEF Nested
  <1>13. ASSUME NEW r \in Sides PROVE R[u.root[r]] = S[t.root[r]] \ {z}
    <2>1. t.root[r] \in Slot BY <1>2, Fields
    <2> QED BY <1>6, <1>7, <2>1
  <1>14. Rooted(u, R, n)
    <2>1. ASSUME NEW r \in Sides, u.root[r] # none
          PROVE  u.root[r] \in Used(u) /\ u.parent[u.root[r]] = none
      <3>1. CASE t.root[r] = z
        <4>1. u.root[r] = c /\ c \in Used(u) BY <1>4, <1>6, <2>1, <3>1
        <4>2. p = none BY <1>2, <2>1, <3>1, <1>1, Basics DEF Rooted
        <4> QED BY <1>6, <4>1, <4>2
      <3>2. CASE t.root[r] # z
        <4>1. u.root[r] = t.root[r] BY <1>6, <3>2
        <4>2. t.root[r] \in Used(u) /\ t.parent[t.root[r]] = none
          BY <1>2, <1>6, <2>1, <3>2, <4>1 DEF Rooted
        <4>3. t.root[r] # c BY <1>1, <1>4, <2>1, <4>1, <4>2, Basics
        <4> QED BY <1>6, <4>1, <4>2, <4>3
      <3> QED BY <3>1, <3>2
    <2>2. ASSUME NEW k \in Used(u), u.parent[k] = none, k # n
          PROVE  \E r \in Sides : u.root[r] = k
      <3>1. CASE k = c
        <4>1. p = none BY <1>6, <2>2, <3>1
        <4> QED BY <1>1, <1>6, <3>1, <4>1
      <3>2. CASE k # c
        <4>1. t.parent[k] = none /\ k \in Used(t) /\ k # z BY <1>6, <2>2, <3>2
        <4>2. PICK r \in Sides : t.root[r] = k BY <1>2, <2>2, <4>1 DEF Rooted
        <4> QED BY <1>6, <4>1, <4>2
      <3> QED BY <3>1, <3>2
    <2>3. /\ R[u.root["buy"]] \cap R[u.root["sell"]] = {}
          /\ \A k \in Used(u) : k # n => \E r \in Sides : k \in R[u.root[r]]
          /\ \A r \in Sides : n \notin R[u.root[r]]
      BY <1>2, <1>6, <1>13 DEF Rooted, Sides
    <2> QED BY <2>1, <2>2, <2>3 DEF Rooted
  <1>15. Convex(u, R)
    <2> USE DEF Convex
    <2> TAKE r \in Sides
    <2> TAKE k, j \in R[u.root[r]]
    <2> TAKE f, g \in R[k]
    <2> HAVE u.price[f] < u.price[j] /\ u.price[j] < u.price[g]
    <2> HIDE DEF Convex
    <2>1. k \in S[t.root[r]] /\ k # z /\ j \in S[t.root[r]] /\ j # z BY <1>13
    <2>2. k \in Used(t) /\ j \in Used(t) /\ k \in Slot BY <2>1, RootFacts, Basics DEF Used
    <2>3. f \in S[k] /\ g \in S[k] /\ f # z /\ g # z BY <1>7, <2>1, <2>2
    <2>4. f \in Used(t) /\ g \in Used(t) BY <1>2, <2>2, <2>3 DEF Below
    <2>5. t.price[f] < t.price[j] /\ t.price[j] < t.price[g] BY <1>6, <2>1, <2>2, <2>3, <2>4
    <2>6. j \in S[k] BY <1>2, <2>1, <2>3, <2>5 DEF Convex
    <2> QED BY <1>7, <2>1, <2>2, <2>6
  <1> QED BY <1>6, <1>9, <1>10, <1>11, <1>12, <1>13, <1>14, <1>15 DEF Forest

(* No level of N but z has a price between that of z and v. *)
Adjacent(t, N, z, v) ==
    \A j \in N \ {z} : /\ v < t.price[j] <=> t.price[z] < t.price[j]
                       /\ t.price[j] < v <=> t.price[j] < t.price[z]

(* Level y, which is in no tree, takes the place of z. *)
swap(k, z, y) == IF k = z THEN y ELSE IF k = y THEN z ELSE k
Renamed(t, u, z, y) ==
    /\ u \in TreeType /\ Used(u) = {k \in LevelIndex : swap(k, z, y) \in Used(t)}
    /\ \A k \in Used(u) : k # y => u.price[k] = t.price[k]
    /\ \A k \in Used(u) : u.parent[k] = swap(t.parent[swap(k, z, y)], z, y)
    /\ \A k \in Used(u), e \in Dirs : u.child[e][k] = swap(t.child[e][swap(k, z, y)], z, y)
    /\ \A r \in Sides : u.root[r] = swap(t.root[r], z, y)
Renaming(S, z, y) == [k \in Slot |-> {j \in Slot : swap(j, z, y) \in S[swap(k, z, y)]}]

(* The trees are the same but for the name and the price of one level. *)
LEMMA RenameForest ==
    ASSUME NEW t, NEW S, Forest(t, S, none), NEW s \in Sides, NEW z \in S[t.root[s]],
           NEW y \in LevelIndex, y \notin Used(t), NEW u, Renamed(t, u, z, y),
           Adjacent(t, S[t.root[s]], z, u.price[y]), NEW R, R = Renaming(S, z, y)
    PROVE  /\ Forest(u, R, none)
           /\ \A r \in Sides : R[u.root[r]] = {j \in Slot : swap(j, z, y) \in S[t.root[r]]}
  <1> DEFINE sw(k) == swap(k, z, y)
  <1>1. /\ Shape(t, S) /\ z \in Used(t) /\ z \in LevelIndex /\ S[t.root[s]] \subseteq Used(t)
        /\ \A r \in Sides : z \in S[t.root[r]] => r = s
    BY RootFacts
  <1>2. /\ t \in TreeType /\ Below(t, S) /\ Linked(t) /\ Ordered(t, S) /\ Nested(t, S)
        /\ Rooted(t, S, none) /\ Convex(t, S)
    BY DEF Forest
  <1>3. /\ none \notin LevelIndex /\ none \in Slot /\ LevelIndex \subseteq Slot
        /\ none \notin Used(t) /\ Used(t) \subseteq LevelIndex /\ y # z
    BY <1>1, Basics DEF Used
  <1>4. /\ \A k : sw(sw(k)) = k /\ (k = none <=> sw(k) = none)
        /\ \A k \in Slot : sw(k) \in Slot
        /\ \A k \in LevelIndex : sw(k) \in LevelIndex
        /\ \A k : k # y /\ k # z => sw(k) = k
        /\ sw(y) = z /\ sw(z) = y
    BY <1>1, <1>3 DEF swap
  <1>5. \A j, k : sw(j) = sw(k) => j = k BY <1>4
  <1>6. /\ u \in TreeType
        /\ \A k : k \in Used(u) <=> k \in LevelIndex /\ sw(k) \in Used(t)
        /\ \A k \in Used(u) : k # y => u.price[k] = t.price[k]
        /\ \A k \in Used(u) : u.parent[k] = sw(t.parent[sw(k)])
        /\ \A k \in Used(u), e \in Dirs : u.child[e][k] = sw(t.child[e][sw(k)])
        /\ \A r \in Sides : u.root[r] = sw(t.root[r])
    BY DEF Renamed
  <1>7. /\ R = [k \in Slot |-> R[k]]
        /\ \A k \in Slot : \A j : j \in R[k] <=> j \in Slot /\ sw(j) \in S[sw(k)]
    BY DEF Renaming
  <1> HIDE DEF sw
  <1>8. \A k \in Slot : S[k] \subseteq Used(t) BY <1>2 DEF Below
  <1>9. \A k \in Used(u) : sw(k) \in Used(t) /\ sw(k) \in LevelIndex /\ k \in LevelIndex /\ k \in Slot
    BY <1>3, <1>6
  <1>10. \A k \in Slot : R[k] \subseteq Used(u)
    <2>1. ASSUME NEW k \in Slot, NEW j \in R[k] PROVE j \in Used(u)
      <3>1. j \in Slot /\ sw(j) \in Used(t) BY <1>4, <1>7, <1>8, <2>1
      <3>2. j \in LevelIndex BY <1>3, <1>4, <3>1
      <3> QED BY <1>6, <3>1, <3>2
    <2> QED BY <2>1
  <1>11. ASSUME NEW k \in Used(u), NEW e \in Dirs
         PROVE  /\ t.child[e][sw(k)] \in Slot /\ u.child[e][k] \in Slot
                /\ sw(u.child[e][k]) = t.child[e][sw(k)]
                /\ \A j : j \in R[u.child[e][k]] <=> j \in Slot /\ sw(j) \in S[t.child[e][sw(k)]]
    <2>1. t.child[e][sw(k)] \in Slot BY <1>2, <1>9, Fields
    <2> QED BY <1>4, <1>6, <1>7, <2>1
  <1>12. ASSUME NEW r \in Sides
         PROVE  /\ t.root[r] \in Slot /\ u.root[r] \in Slot /\ sw(u.root[r]) = t.root[r]
                /\ \A j : j \in R[u.root[r]] <=> j \in Slot /\ sw(j) \in S[t.root[r]]
    <2>1. t.root[r] \in Slot BY <1>2, Fields
    <2> QED BY <1>4, <1>6, <1>7, <2>1
  <1>13. Below(u, R)
    <2>1. R \in [Slot -> SUBSET Used(u)] BY <1>7, <1>10
    <2>2. R[none] = {} BY <1>2, <1>3, <1>4, <1>7 DEF Below
    <2>3. ASSUME NEW k \in Used(u)
          PROVE  R[k] = {k} \cup R[u.child["left"][k]] \cup R[u.child["right"][k]]
      <3>1. S[sw(k)] = {sw(k)} \cup S[t.child["left"][sw(k)]] \cup S[t.child["right"][sw(k)]]
        BY <1>2, <1>9 DEF Below
      <3>2. ASSUME NEW j
            PROVE  j \in R[k] <=> j = k \/ j \in R[u.child["left"][k]] \/ j \in R[u.child["right"][k]]
        BY <1>5, <1>7, <1>9, <1>11, <3>1 DEF Dirs
      <3> QED BY <3>2
    <2> QED BY <2>1, <2>2, <2>3 DEF Below
  <1>14. Linked(u)
    <2>1. ASSUME NEW k \in Used(u), NEW e \in Dirs, NEW v, v = u.child[e][k], v # none
          PROVE  v \in Used(u) /\ u.parent[v] = k
      <3>1. sw(v) = t.child[e][sw(k)] /\ sw(v) # none /\ v \in Slot BY <1>4, <1>11, <2>1
      <3>2. sw(v) \in Used(t) /\ t.parent[sw(v)] = sw(k) BY <1>2, <1>9, <3>1 DEF Linked
      <3>3. v \in Used(u) BY <1>3, <1>4, <1>6, <3>1, <3>2
      <3> QED BY <1>4, <1>6, <3>2, <3>3
    <2>2. ASSUME NEW k \in Used(u), NEW q, q = u.parent[k], q # none
          PROVE  q \in Used(u) /\ \E e \in Dirs : u.child[e][q] = k
      <3>1. sw(q) = t.parent[sw(k)] /\ sw(q) # none BY <1>4, <1>6, <2>2
      <3>2. sw(q) \in Used(t) /\ \E e \in Dirs : t.child[e][sw(q)] = sw(k)
        BY <1>2, <1>9, <3>1 DEF Linked
      <3>3. q \in LevelIndex BY <1>3, <1>4, <3>2
      <3>4. q \in Used(u) BY <1>6, <3>2, <3>3
      <3>5. PICK e \in Dirs : t.child[e][sw(q)] = sw(k) BY <3>2
      <3>6. u.child[e][q] = k BY <1>4, <1>6, <3>4, <3>5
      <3> QED BY <3>4, <3>6
    <2> QED BY <2>1, <2>2 DEF Linked
  <1>15. Nested(u, R)
    <2>1. ASSUME NEW k \in Used(u), NEW j \in R[k]
          PROVE  R[j] \subseteq R[k] /\ (j # k => u.parent[j] \in R[k])
      <3>1. sw(j) \in S[sw(k)] /\ j \in Slot /\ j \in Used(u) /\ k \in Slot
        BY <1>7, <1>9, <1>10, <2>1
      <3>2. S[sw(j)] \subseteq S[sw(k)] /\ (sw(j) # sw(k) => t.parent[sw(j)] \in S[sw(k)])
        BY <1>2, <1>9, <3>1 DEF Nested
      <3>3. R[j] \subseteq R[k] BY <1>7, <3>1, <3>2
      <3>4. ASSUME j # k PROVE u.parent[j] \in R[k]
        <4>1. t.parent[sw(j)] \in S[sw(k)] BY <1>5, <3>2, <3>4
        <4>2. u.parent[j] = sw(t.parent[sw(j)]) BY <1>6, <3>1
        <4>3. t.parent[sw(j)] \in Slot BY <1>2, <1>9, <3>1, Fields
        <4> QED BY <1>4, <1>7, <3>1, <4>1, <4>2, <4>3
      <3> QED BY <3>3, <3>4
    <2> QED BY <2>1 DEF Nested
  <1>16. Rooted(u, R, none)
    <2>1. ASSUME NEW r \in Sides, u.root[r] # none
          PROVE  u.root[r] \in Used(u) /\ u.parent[u.root[r]] = none
      <3>1. t.root[r] # none BY <1>4, <1>12, <2>1
      <3>2. t.root[r] \in Used(t) /\ t.parent[t.root[r]] = none BY <1>2, <3>1 DEF Rooted
      <3>3. u.root[r] \in Used(u) BY <1>3, <1>4, <1>6, <1>12, <3>2
      <3> QED BY <1>4, <1>6, <1>12, <3>2, <3>3
    <2>2. ASSUME NEW k \in Used(u), u.parent[k] = none PROVE \E r \in Sides : u.root[r] = k
      <3>1. t.parent[sw(k)] = none BY <1>4, <1>6, <2>2
      <3>2. PICK r \in Sides : t.root[r] = sw(k) BY <1>2, <1>3, <1>9, <3>1 DEF Rooted
      <3> QED BY <1>4, <1>6, <3>2
    <2>3. R[u.root["buy"]] \cap R[u.root["sell"]] = {}
      BY <1>2, <1>12 DEF Rooted, Sides
    <2>4. ASSUME NEW k \in Used(u) PROVE \E r \in Sides : k \in R[u.root[r]]
      <3>1. PICK r \in Sides : sw(k) \in S[t.root[r]] BY <1>2, <1>3, <1>9 DEF Rooted
      <3> QED BY <1>9, <1>12, <3>1
    <2>5. \A r \in Sides : none \notin R[u.root[r]] BY <1>3, <1>9, <1>10, <1>12
    <2> QED BY <2>1, <2>2, <2>3, <2>4, <2>5 DEF Rooted
  <1>17. ASSUME NEW r \in Sides, NEW j \in R[u.root[r]], NEW k \in R[u.root[r]], j # k
         PROVE  u.price[j] < u.price[k] <=> t.price[sw(j)] < t.price[sw(k)]
    <2>1. /\ j \in Used(u) /\ k \in Used(u) /\ sw(j) \in S[t.root[r]] /\ sw(k) \in S[t.root[r]]
          /\ sw(j) # sw(k)
      BY <1>5, <1>10, <1>12, <1>17
    <2>2. j # z /\ k # z BY <1>4, <1>9, <2>1
    <2>3. CASE j # y /\ k # y BY <1>4, <1>6, <2>1, <2>2, <2>3
    <2>4. CASE j = y
      <3>1. r = s /\ sw(j) = z /\ sw(k) = k /\ u.price[k] = t.price[k]
        BY <1>1, <1>4, <1>6, <1>17, <2>1, <2>2, <2>4
      <3>2. k \in S[t.root[s]] \ {z} BY <2>1, <2>2, <3>1
      <3> QED BY <2>4, <3>1, <3>2 DEF Adjacent
    <2>5. CASE k = y
      <3>1. r = s /\ sw(k) = z /\ sw(j) = j /\ u.price[j] = t.price[j]
        BY <1>1, <1>4, <1>6, <1>17, <2>1, <2>2, <2>5
      <3>2. j \in S[t.root[s]] \ {z} BY <2>1, <2>2, <3>1
      <3> QED BY <2>5, <3>1, <3>2 DEF Adjacent
    <2> QED BY <2>3, <2>4, <2>5
  <1>18. Ordered(u, R)
    <2>1. ASSUME NEW k \in Used(u), NEW e \in Dirs, NEW j \in R[u.child[e][k]]
          PROVE  before(e, u.price[j], u.price[k])
      <3>1. sw(j) \in S[t.child[e][sw(k)]] /\ j \in Slot BY <1>11, <2>1
      <3>2. before(e, t.price[sw(j)], t.price[sw(k)]) BY <1>2, <1>9, <3>1 DEF Ordered
      <3>3. PICK r \in Sides : sw(k) \in S[t.root[r]] BY <1>2, <1>3, <1>9 DEF Rooted
      <3>4. S[sw(k)] \subseteq S[t.root[r]] BY <3>3, RootFacts
      <3>5. sw(j) \in S[sw(k)] /\ sw(j) # sw(k) BY <1>1, <1>9, <3>1, SubFacts
      <3>6. j \in R[u.root[r]] /\ k \in R[u.root[r]] /\ j # k
        BY <1>9, <1>12, <3>1, <3>3, <3>4, <3>5
      <3> QED BY <1>17, <3>2, <3>6 DEF before
    <2> QED BY <2>1 DEF Ordered
  <1>19. Convex(u, R)
    <2> USE DEF Convex
    <2> TAKE r \in Sides
    <2> TAKE k, j \in R[u.root[r]]
    <2> TAKE f, g \in R[k]
    <2> HAVE u.price[f] < u.price[j] /\ u.price[j] < u.price[g]
    <2> HIDE DEF Convex
    <2>1. /\ sw(k) \in S[t.root[r]] /\ sw(j) \in S[t.root[r]] /\ k \in Slot /\ j \in Slot
          /\ k \in Used(u) /\ j \in Used(u)
      BY <1>10, <1>12
    <2>2. sw(f) \in S[sw(k)] /\ sw(g) \in S[sw(k)] /\ f \in Slot /\ g \in Slot
      BY <1>7, <2>1
    <2>3. S[sw(k)] \subseteq S[t.root[r]] BY <2>1, RootFacts
    <2>4. f \in R[u.root[r]] /\ g \in R[u.root[r]] BY <1>12, <2>2, <2>3
    <2>5. \A i \in Used(u) : u.price[i] \in Nat BY <1>6, Fields DEF Used
    <2>6. f \in Used(u) /\ g \in Used(u) BY <1>10, <1>12, <2>4
    <2>7. j # f /\ j # g
      <3>1. u.price[j] \in Nat /\ u.price[f] \in Nat /\ u.price[g] \in Nat BY <2>1, <2>5, <2>6
      <3> QED BY <3>1
    <2>8. t.price[sw(f)] < t.price[sw(j)] /\ t.price[sw(j)] < t.price[sw(g)]
      BY <1>17, <2>4, <2>7
    <2>9. sw(j) \in S[sw(k)] BY <1>2, <2>1, <2>2, <2>8 DEF Convex
    <2> QED BY <1>7, <2>1, <2>9
  <1>20. \A r \in Sides : R[u.root[r]] = {j \in Slot : swap(j, z, y) \in S[t.root[r]]}
    BY <1>12 DEF sw
  <1> QED BY <1>6, <1>13, <1>14, <1>15, <1>16, <1>18, <1>19, <1>20 DEF Forest

(* The loose level f becomes a leaf on side d of w. *)
Grown(t, u, f, w, d) ==
    /\ u \in TreeType /\ SameRest(t, u) /\ u.root = t.root /\ u.height = t.height
    /\ \A k \in LevelIndex : u.parent[k] = IF k = f THEN w ELSE t.parent[k]
    /\ \A k \in LevelIndex, e \in Dirs :
          u.child[e][k] = IF k = w /\ e = d THEN f ELSE t.child[e][k]
Loose(t, f) == /\ f \in Used(t) /\ t.parent[f] = none
               /\ \A e \in Dirs : t.child[e][f] = none
With(S, f, w) == [k \in Slot |-> IF w \in S[k] THEN S[k] \cup {f} ELSE S[k]]

Widened(t, S, u, R, s, f) ==
    \A r \in Sides : R[u.root[r]] = IF r = s THEN S[t.root[r]] \cup {f} ELSE S[t.root[r]]

(* The tree of side s has one level more. *)
LEMMA GrowForest ==
    ASSUME NEW t, NEW S, NEW f, Forest(t, S, f), Loose(t, f), NEW s \in Sides,
           NEW w \in S[t.root[s]], NEW d \in Dirs, t.child[d][w] = none,
           before(d, t.price[f], t.price[w]), Adjacent(t, S[t.root[s]], w, t.price[f]),
           NEW u, Grown(t, u, f, w, d), NEW R, R = With(S, f, w)
    PROVE  Forest(u, R, none) /\ Widened(t, S, u, R, s, f)
  <1>1. /\ Shape(t, S) /\ w \in Used(t) /\ w \in LevelIndex /\ w # f /\ S[t.root[s]] \subseteq Used(t)
        /\ \A r \in Sides : w \in S[t.root[r]] => r = s
    BY RootFacts
  <1>2. /\ t \in TreeType /\ Below(t, S) /\ Linked(t) /\ Ordered(t, S) /\ Nested(t, S)
        /\ Rooted(t, S, f) /\ Convex(t, S)
    BY DEF Forest
  <1>3. /\ f \in Used(t) /\ f \in LevelIndex /\ t.parent[f] = none
        /\ \A e \in Dirs : t.child[e][f] = none
        /\ none \notin LevelIndex /\ LevelIndex \subseteq Slot /\ none \in Slot
        /\ Used(t) \subseteq LevelIndex
    BY Basics DEF Loose, Used
  <1>4. S[none] = {} /\ S[f] = {f} BY <1>2, <1>3 DEF Below, Dirs
  <1>5. /\ u \in TreeType /\ Used(u) = Used(t) /\ u.price = t.price /\ u.root = t.root
        /\ \A k \in LevelIndex : u.parent[k] = IF k = f THEN w ELSE t.parent[k]
        /\ \A k \in LevelIndex, e \in Dirs :
              u.child[e][k] = IF k = w /\ e = d THEN f ELSE t.child[e][k]
    BY DEF Grown, SameRest, Used
  <1>6. /\ R = [k \in Slot |-> R[k]]
        /\ \A k \in Slot : \A j : j \in R[k] <=> j \in S[k] \/ (j = f /\ w \in S[k])
    BY DEF With
  <1>7. \A k \in Slot : S[k] \subseteq Used(t) BY <1>2 DEF Below
  <1>8. \A k \in Used(t) : f \in S[k] => k = f
    BY <1>2, <1>3, <1>7 DEF Nested
  <1>9. ASSUME NEW k \in Used(t), NEW e \in Dirs
        PROVE  /\ t.child[e][k] \in Slot /\ k \notin S[t.child[e][k]]
               /\ S[k] = {k} \cup S[t.child["left"][k]] \cup S[t.child["right"][k]]
               /\ t.child[e][k] # none => t.child[e][k] \in Used(t) /\ t.parent[t.child[e][k]] = k
               /\ t.child[e][k] # f
    <2>1. /\ t.child[e][k] \in Slot /\ k \notin S[t.child[e][k]]
          /\ t.child[e][k] # none => t.child[e][k] \in Used(t) /\ t.parent[t.child[e][k]] = k
      BY <1>1, SubFacts
    <2>2. t.child[e][k] # f BY <1>3, <2>1
    <2>3. S[k] = {k} \cup S[t.child["left"][k]] \cup S[t.child["right"][k]] BY <1>2 DEF Below
    <2> QED BY <2>1, <2>2, <2>3
  <1>10. \A j : j \in R[f] <=> j = f BY <1>1, <1>3, <1>4, <1>6
  <1>11. Below(u, R)
    <2>1. R \in [Slot -> SUBSET Used(u)] BY <1>3, <1>5, <1>6, <1>7
    <2>2. R[none] = {} BY <1>3, <1>4, <1>6
    <2>3. ASSUME NEW k \in Used(u)
          PROVE  R[k] = {k} \cup R[u.child["left"][k]] \cup R[u.child["right"][k]]
      <3>1. k \in Used(t) /\ k \in LevelIndex /\ k \in Slot BY <1>3, <1>5
      <3>2. ASSUME NEW j
            PROVE  j \in R[k] <=> j = k \/ j \in R[u.child["left"][k]] \/ j \in R[u.child["right"][k]]
        <4>1. CASE k # w
          <5>1. \A e \in Dirs : u.child[e][k] = t.child[e][k] BY <1>5, <3>1, <4>1
          <5> QED BY <1>6, <1>9, <3>1, <4>1, <5>1 DEF Dirs
        <4>2. CASE k = w
          <5>1. u.child[d][k] = f /\ u.child[other(d)][k] = t.child[other(d)][k]
            BY <1>5, <3>1, <4>2, Basics
          <5>2. S[k] = {k} \cup S[t.child[other(d)][k]]
            <6>1. S[k] = {k} \cup S[t.child["left"][k]] \cup S[t.child["right"][k]] BY <1>9, <3>1
            <6>2. S[t.child[d][k]] = {} BY <1>4, <4>2
            <6> QED BY <6>1, <6>2 DEF Dirs, other
          <5>3. other(d) \in Dirs BY Basics
          <5>4. t.child[other(d)][k] \in Slot /\ w \notin S[t.child[other(d)][k]]
            BY <1>9, <3>1, <4>2, <5>3
          <5>5. j \in R[k] <=> j = k \/ j \in S[t.child[other(d)][k]] \/ j = f
            BY <1>6, <3>1, <4>2, <5>2
          <5>6. j \in R[u.child[other(d)][k]] <=> j \in S[t.child[other(d)][k]]
            BY <1>6, <5>1, <5>4
          <5>7. j \in R[k] <=> j = k \/ j \in R[u.child[d][k]] \/ j \in R[u.child[other(d)][k]]
            BY <1>10, <5>1, <5>5, <5>6
          <5> QED BY <5>7 DEF Dirs, other
        <4> QED BY <4>1, <4>2
      <3> QED BY <3>2
    <2> QED BY <2>1, <2>2, <2>3 DEF Below
  <1>12. Linked(u)
    <2>1. ASSUME NEW k \in Used(u), NEW e \in Dirs, NEW v, v = u.child[e][k], v # none
          PROVE  v \in Used(u) /\ u.parent[v] = k
      <3>1. CASE k = w /\ e = d BY <1>1, <1>3, <1>5, <2>1, <3>1
      <3>2. CASE ~(k = w /\ e = d)
        <4>1. k \in Used(t) /\ v = t.child[e][k] BY <1>3, <1>5, <2>1, <3>2
        <4>2. v \in Used(t) /\ t.parent[v] = k /\ v # f BY <1>9, <2>1, <4>1
        <4> QED BY <1>3, <1>5, <4>2
      <3> QED BY <3>1, <3>2
    <2>2. ASSUME NEW k \in Used(u), NEW q, q = u.parent[k], q # none
          PROVE  q \in Used(u) /\ \E e \in Dirs : u.child[e][q] = k
      <3>1. CASE k = f BY <1>1, <1>3, <1>5, <2>2, <3>1
      <3>2. CASE k # f
        <4>1. q = t.parent[k] /\ k \in Used(t) BY <1>3, <1>5, <2>2, <3>2
        <4>2. q \in Used(t) /\ \E e \in Dirs : t.child[e][q] = k BY <1>2, <2>2, <4>1 DEF Linked
        <4>3. PICK e \in Dirs : t.child[e][q] = k BY <4>2
        <4>4. k # none BY <1>3, <4>1
        <4> QED BY <1>3, <1>5, <4>2, <4>3, <4>4
      <3> QED BY <3>1, <3>2
    <2> QED BY <2>1, <2>2 DEF Linked
  <1>13. Nested(u, R)
    <2>1. ASSUME NEW k \in Used(u), NEW j \in R[k]
          PROVE  R[j] \subseteq R[k] /\ (j # k => u.parent[j] \in R[k])
      <3>1. k \in Used(t) /\ k \in Slot BY <1>3, <1>5
      <3>2. \A i \in S[k] : S[i] \subseteq S[k] /\ (i # k => t.parent[i] \in S[k])
        BY <1>2, <3>1 DEF Nested
      <3>3. CASE j = f
        <4>1. j = k \/ w \in S[k] BY <1>6, <1>8, <2>1, <3>1, <3>3
        <4>2. R[j] \subseteq R[k] BY <1>6, <1>10, <2>1, <3>3
        <4> QED BY <1>3, <1>5, <1>6, <3>1, <3>3, <4>1, <4>2
      <3>4. CASE j # f
        <4>1. j \in S[k] BY <1>6, <2>1, <3>1, <3>4
        <4>2. j \in Used(t) /\ j \in LevelIndex /\ j \in Slot BY <1>3, <1>7, <3>1, <4>1
        <4>3. R[j] \subseteq R[k] BY <1>6, <3>1, <3>2, <4>1, <4>2
        <4>4. j # k => u.parent[j] \in R[k] BY <1>5, <1>6, <3>1, <3>2, <3>4, <4>1, <4>2
        <4> QED BY <4>3, <4>4
      <3> QED BY <3>3, <3>4
    <2> QED BY <2>1 DEF Nested
  <1>14. ASSUME NEW r \in Sides
         PROVE  /\ t.root[r] \in Slot
                /\ \A j : j \in R[u.root[r]] <=> j \in S[t.root[r]] \/ (j = f /\ r = s)
    <2>1. t.root[r] \in Slot BY <1>2, Fields
    <2> QED BY <1>1, <1>5, <1>6, <2>1
  <1>15. Rooted(u, R, none)
    <2>1. ASSUME NEW r \in Sides, u.root[r] # none
          PROVE  u.root[r] \in Used(u) /\ u.parent[u.root[r]] = none
      <3>1. t.root[r] \in Used(t) /\ t.parent[t.root[r]] = none BY <1>2, <1>5, <2>1 DEF Rooted
      <3>2. t.root[r] # f BY <1>2, <1>4, <1>5 DEF Rooted
      <3> QED BY <1>3, <1>5, <3>1, <3>2
    <2>2. ASSUME NEW k \in Used(u), u.parent[k] = none PROVE \E r \in Sides : u.root[r] = k
      <3>1. k # f /\ t.parent[k] = none BY <1>1, <1>3, <1>5, <2>2
      <3> QED BY <1>2, <1>5, <3>1 DEF Rooted
    <2>3. R[u.root["buy"]] \cap R[u.root["sell"]] = {}
      <3>1. \A r \in Sides : f \notin S[t.root[r]] BY <1>2 DEF Rooted
      <3>2. S[t.root["buy"]] \cap S[t.root["sell"]] = {} BY <1>2 DEF Rooted
      <3>3. "buy" \in Sides /\ "sell" \in Sides BY DEF Sides
      <3>4. \A j : ~(j \in R[u.root["buy"]] /\ j \in R[u.root["sell"]])
        BY <1>14, <3>1, <3>2, <3>3
      <3> QED BY <3>4
    <2>4. ASSUME NEW k \in Used(u) PROVE \E r \in Sides : k \in R[u.root[r]]
      <3>1. CASE k = f BY <1>14, <3>1
      <3>2. CASE k # f BY <1>2, <1>5, <1>14, <3>2 DEF Rooted
      <3> QED BY <3>1, <3>2
    <2>5. \A r \in Sides : none \notin R[u.root[r]] BY <1>3, <1>7, <1>14
    <2> QED BY <2>1, <2>2, <2>3, <2>4, <2>5 DEF Rooted
  <1>16. \A j \in S[t.root[s]] \ {w} : /\ t.price[f] < t.price[j] <=> t.price[w] < t.price[j]
                                       /\ t.price[j] < t.price[f] <=> t.price[j] < t.price[w]
    BY DEF Adjacent
  <1>17. Ordered(u, R)
    <2>1. ASSUME NEW k \in Used(u), NEW e \in Dirs, NEW j \in R[u.child[e][k]]
          PROVE  before(e, u.price[j], u.price[k])
      <3>1. k \in Used(t) /\ k \in LevelIndex BY <1>3, <1>5
      <3>2. CASE k = w /\ e = d
        <4>1. j = f BY <1>5, <1>10, <2>1, <3>1, <3>2
        <4> QED BY <1>5, <3>2, <4>1
      <3>3. CASE ~(k = w /\ e = d)
        <4>1. j \in R[t.child[e][k]] /\ t.child[e][k] \in Slot BY <1>5, <1>9, <2>1, <3>1, <3>3
        <4>2. CASE j \in S[t.child[e][k]] BY <1>2, <1>5, <3>1, <4>2 DEF Ordered
        <4>3. CASE j = f /\ w \in S[t.child[e][k]]
          <5>1. before(e, t.price[w], t.price[k]) BY <1>2, <3>1, <4>3 DEF Ordered
          <5>2. k # w /\ w \in S[k] BY <1>1, <3>1, <4>3, SubFacts
          <5>3. k \in S[t.root[s]]
            <6>1. k # f BY <1>1, <1>4, <5>2
            <6>2. PICK r \in Sides : k \in S[t.root[r]] BY <1>2, <3>1, <6>1 DEF Rooted
            <6>3. w \in S[t.root[r]] BY <5>2, <6>2, RootFacts
            <6> QED BY <1>1, <6>2, <6>3
          <5> QED BY <1>5, <1>16, <4>3, <5>1, <5>2, <5>3 DEF before
        <4> QED BY <1>6, <4>1, <4>2, <4>3
      <3> QED BY <3>2, <3>3
    <2> QED BY <2>1 DEF Ordered
  <1>18. Convex(u, R)
    <2> USE DEF Convex
    <2> TAKE r \in Sides
    <2> TAKE k, j \in R[u.root[r]]
    <2> TAKE g, h \in R[k]
    <2> HAVE u.price[g] < u.price[j] /\ u.price[j] < u.price[h]
    <2> HIDE DEF Convex
    <2>1. t.price[g] < t.price[j] /\ t.price[j] < t.price[h] BY <1>5
    <2>2. \A i \in Used(t) : t.price[i] \in Nat BY <1>2, <1>3, Fields
    <2>3. t.root[r] \in Slot /\ R[u.root[r]] \subseteq Used(t)
      <3>1. u.root[r] \in Slot BY <1>5, Fields
      <3> QED BY <1>3, <1>5, <1>6, <1>7, <3>1
    <2>4. k \in Used(t) /\ j \in Used(t) /\ k \in Slot /\ g \in Used(t) /\ h \in Used(t)
      <3>1. k \in Used(t) /\ j \in Used(t) /\ k \in Slot BY <1>3, <2>3
      <3>2. R[k] \subseteq Used(t) BY <1>3, <1>6, <1>7, <3>1
      <3> QED BY <3>1, <3>2
    <2>5. /\ t.price[g] \in Nat /\ t.price[h] \in Nat /\ t.price[j] \in Nat /\ t.price[w] \in Nat
          /\ t.price[f] \in Nat
      BY <1>1, <1>3, <2>2, <2>4
    <2>6. k # f
      <3> SUFFICES ASSUME k = f PROVE FALSE OBVIOUS
      <3>1. g = f /\ h = f BY <1>10
      <3> QED BY <2>1, <2>5, <3>1
    <2>7. k \in S[t.root[r]] BY <1>14, <2>6
    <2>8. S[k] \subseteq S[t.root[r]] BY <2>7, RootFacts
    <2>9. \A a, b \in S[k], i \in S[t.root[r]] :
             t.price[a] < t.price[i] /\ t.price[i] < t.price[b] => i \in S[k]
      BY <1>2, <2>7 DEF Convex
    <2>10. CASE w \in S[k]
      <3>1. r = s BY <1>1, <2>8, <2>10
      <3>2. SUFFICES ASSUME j # f, j # w PROVE j \in R[k] BY <1>6, <2>4, <2>10
      <3>3. j \in S[t.root[s]] BY <1>14, <3>1, <3>2
      <3>4. /\ t.price[f] < t.price[j] <=> t.price[w] < t.price[j]
            /\ t.price[j] < t.price[f] <=> t.price[j] < t.price[w]
        BY <1>16, <3>2, <3>3
      <3>5. PICK a \in S[k] : t.price[a] < t.price[j]
        <4>1. CASE g = f BY <2>1, <2>10, <3>4, <4>1
        <4>2. CASE g # f BY <1>6, <2>1, <2>4, <4>2
        <4> QED BY <4>1, <4>2
      <3>6. PICK b \in S[k] : t.price[j] < t.price[b]
        <4>1. CASE h = f BY <2>1, <2>10, <3>4, <4>1
        <4>2. CASE h # f BY <1>6, <2>1, <2>4, <4>2
        <4> QED BY <4>1, <4>2
      <3>7. j \in S[k] BY <2>9, <3>1, <3>3, <3>5, <3>6
      <3> QED BY <1>6, <2>4, <3>7
    <2>11. CASE w \notin S[k]
      <3>1. g \in S[k] /\ h \in S[k] BY <1>6, <2>4, <2>11
      <3>2. CASE j = f
        <4>1. r = s BY <1>2, <1>14, <3>2 DEF Rooted
        <4>2. g \in S[t.root[s]] \ {w} /\ h \in S[t.root[s]] \ {w} BY <2>8, <2>11, <3>1, <4>1
        <4>3. t.price[g] < t.price[w] /\ t.price[w] < t.price[h] BY <1>16, <2>1, <3>2, <4>2
        <4>4. w \in S[k] BY <2>9, <3>1, <4>1, <4>3
        <4> QED BY <2>11, <4>4
      <3>3. CASE j # f
        <4>1. j \in S[t.root[r]] BY <1>14, <3>3
        <4> QED BY <1>6, <2>1, <2>4, <2>9, <3>1, <4>1
      <3> QED BY <3>2, <3>3
    <2> QED BY <2>10, <2>11
  <1>19. ASSUME NEW r \in Sides
         PROVE  R[u.root[r]] = IF r = s THEN S[t.root[r]] \cup {f} ELSE S[t.root[r]]
    BY <1>14
  <1> QED BY <1>5, <1>11, <1>12, <1>13, <1>15, <1>17, <1>18, <1>19 DEF Forest, Widened
-----------------------------------------------------------------------------
(* Heights are right but for what w has below it. *)
Only(t, w) ==
    /\ \A c \in Used(t) : t.height[c] > 0
    /\ \A c \in Used(t) : c # w => HeightOK(t, c)
    /\ w # none => Stale(t.height[w], height(t, t.child["left"][w]), height(t, t.child["right"][w]))

(* Then w's parent knows it by the height that w has stored. *)
LEMMA OnlyHeights ==
    ASSUME NEW t \in TreeType, NEW w, w = none \/ w \in Used(t), Only(t, w)
    PROVE  \E b : Heights(t, w, b)
  <1>1. PICK b : b = IF w = none THEN 0 ELSE t.height[w] OBVIOUS
  <1>2. \A c : known(t, w, b, c) = height(t, c) BY <1>1 DEF known, height
  <1>3. \A c \in Used(t) : c # w =>
          Even(t.height[c], known(t, w, b, t.child["left"][c]), known(t, w, b, t.child["right"][c]))
    BY <1>2 DEF Only, HeightOK
  <1>4. w # none => b \in Nat /\ t.height[w] <= b
    BY <1>1, Fields DEF Used
  <1>5. w # none => \E l, r \in Nat :
                       /\ Even(b, l, r)
                       /\ Near(l, r, height(t, t.child["left"][w]), height(t, t.child["right"][w]))
    BY <1>1 DEF Only, Stale
  <1> QED BY <1>3, <1>4, <1>5 DEF Heights, Only

(* With nothing to be repaired, every height is right. *)
LEMMA AllEven ==
    ASSUME NEW t, NEW b, Heights(t, none, b)
    PROVE  Only(t, none)
  <1>1. \A c : known(t, none, b, c) = height(t, c) BY DEF known
  <1> QED BY <1>1 DEF Heights, Only, HeightOK

(* A level whose subtree on side e changes its height by one. *)
LEMMA StaleSide ==
    ASSUME NEW t \in TreeType, NEW w \in LevelIndex, HeightOK(t, w), NEW u \in TreeType,
           NEW e \in Dirs, u.height[w] = t.height[w],
           height(u, u.child[other(e)][w]) = height(t, t.child[other(e)][w]),
           height(u, u.child[e][w]) - height(t, t.child[e][w]) \in -1 .. 1
    PROVE  /\ Stale(u.height[w], height(u, u.child["left"][w]), height(u, u.child["right"][w]))
           /\ height(u, u.child[e][w]) <= height(t, t.child[e][w]) =>
                 taller(height(u, u.child["left"][w]), height(u, u.child["right"][w])) <= u.height[w]
  <1>1. PICK l, r, x : /\ l = height(t, t.child[e][w]) /\ r = height(t, t.child[other(e)][w])
                       /\ x = height(u, u.child[e][w])
    OBVIOUS
  <1>2. /\ l \in Nat /\ r \in Nat /\ Even(t.height[w], l, r) /\ t.height[w] \in Nat
    BY <1>1, EitherSide
  <1>3. x \in Nat BY <1>1, EitherSide
  <1>4. /\ Even(u.height[w], l, r) /\ Near(l, r, x, r) /\ Even(u.height[w], r, l) /\ Near(r, l, r, x)
        /\ x <= l => taller(x, r) <= u.height[w] /\ taller(r, x) <= u.height[w]
    BY <1>1, <1>2, <1>3 DEF Even, Near, taller
  <1>5. CASE e = "left" BY <1>1, <1>2, <1>3, <1>4, <1>5 DEF Stale, other
  <1>6. CASE e = "right" BY <1>1, <1>2, <1>3, <1>4, <1>6 DEF Stale, other
  <1> QED BY <1>5, <1>6 DEF Dirs

(* The parent of the level that leaves is the one to be repaired. *)
LEMMA UnhangHeights ==
    ASSUME NEW t, NEW S, Shape(t, S), Only(t, none), NEW z \in Used(t),
           NEW d \in Dirs, NEW c, c = t.child[d][z], t.child[other(d)][z] = none,
           NEW p, p = t.parent[z], NEW u, Unhung(t, u, z, c, p),
           \A k \in Used(u) : u.height[k] = t.height[k]
    PROVE  /\ Only(u, p)
           /\ p # none => /\ p \in Used(u) /\ u.height[p] = t.height[p]
                          /\ taller(height(u, u.child["left"][p]), height(u, u.child["right"][p]))
                                <= u.height[p]
  <1>1. /\ t \in TreeType /\ u \in TreeType /\ Used(u) = Used(t) \ {z}
        /\ \A k \in Used(u), e \in Dirs :
              u.child[e][k] = IF t.child[e][k] = z THEN c ELSE t.child[e][k]
        /\ Used(t) \subseteq LevelIndex /\ none \notin LevelIndex
    BY Basics DEF Unhung, Shape, Used
  <1>2. Family(t, S, z, c, none) BY FamilyFacts
  <1>3. c \in Slot /\ c # z /\ (c # none => c \in Used(t)) BY <1>1, <1>2 DEF Family, Half
  <1>4. height(u, c) = height(t, c) BY <1>1, <1>3 DEF height
  <1>5. t.height[z] = 1 + height(t, c) /\ height(t, c) \in Nat /\ height(t, z) = t.height[z]
    <2>1. HeightOK(t, z) BY <1>1 DEF Only
    <2>2. z \in LevelIndex /\ z # none BY <1>1
    <2>3. height(t, none) = 0 /\ height(t, z) = t.height[z] BY <2>2 DEF height
    <2>4. /\ height(t, c) \in Nat /\ t.height[z] \in Nat
          /\ Even(t.height[z], height(t, c), 0)
      BY <1>1, <2>1, <2>2, <2>3, EitherSide
    <2> QED BY <2>3, <2>4 DEF Even
  <1>6. ASSUME NEW k \in Used(u), NEW e \in Dirs
        PROVE  /\ t.child[e][k] = z => k = p
               /\ height(u, u.child[e][k]) = IF t.child[e][k] = z THEN height(t, c)
                                             ELSE height(t, t.child[e][k])
    <2>1. /\ t.child[e][k] \in Slot
          /\ t.child[e][k] # none => t.child[e][k] \in Used(t) /\ t.parent[t.child[e][k]] = k
      BY <1>1, SubFacts
    <2>2. t.child[e][k] = z => k = p BY <1>1, <2>1
    <2>3. t.child[e][k] # z => height(u, t.child[e][k]) = height(t, t.child[e][k])
      BY <1>1, <2>1 DEF height
    <2> QED BY <1>1, <1>4, <2>2, <2>3
  <1>7. ASSUME NEW k \in Used(u), k # p PROVE HeightOK(u, k)
    <2>1. HeightOK(t, k) BY <1>1 DEF Only
    <2> QED BY <1>6, <1>7, <2>1 DEF HeightOK, Dirs
  <1>8. \A k \in Used(u) : u.height[k] > 0 BY <1>1 DEF Only
  <1>9. ASSUME p # none
        PROVE  /\ p \in Used(u) /\ u.height[p] = t.height[p]
               /\ Stale(u.height[p], height(u, u.child["left"][p]), height(u, u.child["right"][p]))
               /\ taller(height(u, u.child["left"][p]), height(u, u.child["right"][p])) <= u.height[p]
    <2>1. /\ p \in Used(t) /\ p \in LevelIndex /\ p # z
          /\ \E e \in Dirs : t.child[e][p] = z /\ t.child[other(e)][p] # z
      BY <1>9, UpFacts
    <2>2. PICK e \in Dirs : t.child[e][p] = z /\ t.child[other(e)][p] # z BY <2>1
    <2>3. p \in Used(u) /\ u.height[p] = t.height[p] BY <1>1, <2>1
    <2>4. HeightOK(t, p) BY <1>1, <2>1 DEF Only
    <2>5. other(e) \in Dirs BY Basics
    <2>6. /\ height(u, u.child[other(e)][p]) = height(t, t.child[other(e)][p])
          /\ height(u, u.child[e][p]) = height(t, c)
      BY <1>6, <2>2, <2>3, <2>5
    <2>7. /\ height(u, u.child[e][p]) - height(t, t.child[e][p]) \in -1 .. 1
          /\ height(u, u.child[e][p]) <= height(t, t.child[e][p])
      BY <1>5, <2>2, <2>6
    <2> QED BY <1>1, <2>1, <2>3, <2>4, <2>6, <2>7, StaleSide
  <1> QED BY <1>7, <1>8, <1>9 DEF Only

(* The parent of a new leaf is the one to be repaired. *)
LEMMA GrowHeights ==
    ASSUME NEW t, NEW S, Shape(t, S), Only(t, none), NEW f, Loose(t, f), NEW w \in Used(t),
           NEW d \in Dirs, t.child[d][w] = none, NEW u, Grown(t, u, f, w, d)
    PROVE  Only(u, w)
  <1>1. /\ t \in TreeType /\ u \in TreeType /\ Used(u) = Used(t) /\ u.height = t.height
        /\ \A k \in LevelIndex, e \in Dirs :
              u.child[e][k] = IF k = w /\ e = d THEN f ELSE t.child[e][k]
        /\ Used(t) \subseteq LevelIndex /\ none \notin LevelIndex
    BY Basics DEF Grown, SameRest, Shape, Used
  <1>2. \A k : height(u, k) = height(t, k) BY <1>1 DEF height
  <1>3. height(t, none) = 0 BY DEF height
  <1>4. f \in LevelIndex /\ f # none /\ t.height[f] = 1 /\ height(t, f) = 1
    <2>1. f \in LevelIndex /\ f # none /\ HeightOK(t, f) BY <1>1 DEF Only, Loose
    <2>2. Even(t.height[f], 0, 0) BY <1>3, <2>1 DEF HeightOK, Loose, Dirs
    <2> QED BY <2>1, <2>2 DEF Even, height
  <1>5. ASSUME NEW k \in Used(u), k # w PROVE HeightOK(u, k)
    <2>1. HeightOK(t, k) BY <1>1 DEF Only
    <2> QED BY <1>1, <1>2, <1>5, <2>1 DEF HeightOK, Dirs
  <1>6. Stale(u.height[w], height(u, u.child["left"][w]), height(u, u.child["right"][w]))
    <2>1. HeightOK(t, w) /\ w \in LevelIndex BY <1>1 DEF Only
    <2>2. u.child[d][w] = f /\ u.child[other(d)][w] = t.child[other(d)][w]
      BY <1>1, <2>1, Basics
    <2>3. /\ height(u, u.child[d][w]) - height(t, t.child[d][w]) \in -1 .. 1
          /\ height(u, u.child[other(d)][w]) = height(t, t.child[other(d)][w])
      BY <1>2, <1>3, <1>4, <2>2
    <2> QED BY <1>1, <2>1, <2>3, StaleSide
  <1> QED BY <1>1, <1>5, <1>6 DEF Only

(* Level y takes the place of z, with its height made anew. *)
LEMMA RenameHeights ==
    ASSUME NEW t, NEW S, Shape(t, S), NEW w, w = none \/ w \in Used(t), Only(t, w),
           NEW z \in Used(t), NEW y \in LevelIndex, y \notin Used(t),
           NEW u, Renamed(t, u, z, y),
           \A k \in Used(u) : k # y => u.height[k] = t.height[k],
           u.height[y] = taller(height(t, t.child["left"][z]), height(t, t.child["right"][z])),
           w = z => u.height[y] <= t.height[z]
    PROVE  \E b : Heights(u, swap(w, z, y), b)
  <1> DEFINE sw(k) == swap(k, z, y)
  <1>1. /\ t \in TreeType /\ u \in TreeType
        /\ Used(t) \subseteq LevelIndex /\ none \notin LevelIndex /\ z # y
    BY Basics DEF Renamed, Shape, Used
  <1>2. /\ \A k : sw(sw(k)) = k /\ (k = none <=> sw(k) = none)
        /\ \A k : k # y /\ k # z => sw(k) = k
        /\ sw(y) = z /\ sw(z) = y
    BY <1>1 DEF swap
  <1>3. /\ \A k : k \in Used(u) <=> k \in LevelIndex /\ sw(k) \in Used(t)
        /\ \A k \in Used(u), e \in Dirs : u.child[e][k] = sw(t.child[e][sw(k)])
    BY DEF Renamed
  <1> HIDE DEF sw
  <1>4. y \in Used(u) /\ z \notin Used(u) BY <1>1, <1>2, <1>3
  <1>5. PICK b : b = IF w = none THEN 0 ELSE t.height[w] OBVIOUS
  <1>6. w # none => b \in Nat BY <1>1, <1>5, Fields
  <1>7. /\ \A c \in Used(t) : t.height[c] > 0
        /\ \A c \in Used(t) : c # w => HeightOK(t, c)
        /\ w # none => Stale(b, height(t, t.child["left"][w]), height(t, t.child["right"][w]))
    BY <1>5 DEF Only
  <1>8. \A e \in Dirs : t.child[e][z] \in Slot /\ height(t, t.child[e][z]) \in Nat
    BY <1>1, Fields, HeightIs
  <1>9. w # z => u.height[y] = t.height[z]
    <2> SUFFICES ASSUME w # z PROVE u.height[y] = t.height[z] OBVIOUS
    <2>1. HeightOK(t, z) BY <1>7
    <2> QED BY <1>8, <2>1 DEF HeightOK, Even, taller, Dirs
  <1>10. ASSUME NEW c \in Slot, c = none \/ c \in Used(t)
         PROVE  known(u, sw(w), b, sw(c)) = height(t, c)
    <2>1. CASE c = none BY <1>1, <1>2, <2>1 DEF known, height
    <2>2. CASE c # none
      <3>0. c \in Used(t) /\ c \in LevelIndex /\ c # y BY <1>1, <1>10, <2>2
      <3>1. CASE c = w
        <4>1. sw(c) = sw(w) /\ sw(w) # none BY <1>2, <2>2, <3>1
        <4> QED BY <1>5, <2>2, <3>1, <4>1 DEF known, height
      <3>2. CASE c # w
        <4>1. sw(c) # sw(w) /\ sw(c) # none BY <1>2, <2>2, <3>2
        <4>2. u.height[sw(c)] = t.height[c]
          <5>1. CASE c = z BY <1>2, <1>9, <3>2, <5>1
          <5>2. CASE c # z
            <6>1. sw(c) = c BY <1>2, <3>0, <5>2
            <6>2. c \in Used(u) BY <1>3, <3>0, <6>1
            <6> QED BY <3>0, <6>1, <6>2
          <5> QED BY <5>1, <5>2
        <4> QED BY <2>2, <4>1, <4>2 DEF known, height
      <3> QED BY <3>1, <3>2
    <2> QED BY <2>1, <2>2
  <1>11. ASSUME NEW k \in Used(u), NEW e \in Dirs
         PROVE  /\ known(u, sw(w), b, u.child[e][k]) = height(t, t.child[e][sw(k)])
                /\ t.child[e][sw(k)] \in Slot
    <2>1. sw(k) \in Used(t) BY <1>3
    <2>2. t.child[e][sw(k)] \in Slot /\ (t.child[e][sw(k)] = none \/ t.child[e][sw(k)] \in Used(t))
      BY <2>1, SubFacts
    <2> QED BY <1>3, <1>10, <2>2
  <1>12. ASSUME NEW k \in Used(u), k # sw(w)
         PROVE  /\ u.height[k] = t.height[sw(k)] /\ sw(k) \in Used(t) /\ sw(k) # w
    <2>1. sw(k) \in Used(t) /\ sw(k) # w BY <1>2, <1>3, <1>12
    <2>2. CASE k = y BY <1>2, <1>9, <2>1, <2>2
    <2>3. CASE k # y
      <3>1. k # z BY <1>4
      <3> QED BY <1>2, <2>1, <2>3, <3>1
    <2> QED BY <2>2, <2>3
  <1>13. ASSUME NEW k \in Used(u) PROVE u.height[k] > 0
    <2>1. CASE k = y BY <1>8, <2>1 DEF taller, Dirs
    <2>2. CASE k # y
      <3>1. k # z BY <1>4
      <3> QED BY <1>2, <1>3, <1>7, <2>2, <3>1
    <2> QED BY <2>1, <2>2
  <1>14. ASSUME NEW k \in Used(u), k # sw(w)
         PROVE  Even(u.height[k], known(u, sw(w), b, u.child["left"][k]),
                     known(u, sw(w), b, u.child["right"][k]))
    <2>1. HeightOK(t, sw(k)) BY <1>7, <1>12, <1>14
    <2> QED BY <1>11, <1>12, <1>14, <2>1 DEF HeightOK, Dirs
  <1>15. ASSUME w # none
         PROVE  /\ b \in Nat /\ u.height[sw(w)] <= b
                /\ Stale(b, height(u, u.child["left"][sw(w)]), height(u, u.child["right"][sw(w)]))
    <2>1. w \in Used(t) /\ w # y /\ sw(w) \in LevelIndex /\ sw(w) \in Used(u)
      BY <1>1, <1>2, <1>3, <1>15
    <2>2. u.height[sw(w)] <= b
      <3>1. CASE w = z BY <1>2, <1>5, <1>15, <3>1
      <3>2. CASE w # z BY <1>2, <1>5, <1>6, <1>15, <2>1, <3>2
      <3> QED BY <3>1, <3>2
    <2>3. \A e \in Dirs : height(u, u.child[e][sw(w)]) = height(t, t.child[e][w])
      <3> SUFFICES ASSUME NEW e \in Dirs
                   PROVE  height(u, u.child[e][sw(w)]) = height(t, t.child[e][w])
        OBVIOUS
      <3>1. known(u, sw(w), b, u.child[e][sw(w)]) = height(t, t.child[e][w])
        BY <1>2, <1>11, <2>1
      <3>2. u.child[e][sw(w)] # sw(w)
        <4>1. t.child[e][w] # w BY <1>1, <2>1, SubFacts
        <4> QED BY <1>2, <1>3, <2>1, <4>1
      <3> QED BY <3>1, <3>2 DEF known
    <2> QED BY <1>6, <1>7, <1>15, <2>2, <2>3 DEF Dirs
  <1>16. Heights(u, sw(w), b)
    BY <1>2, <1>13, <1>14, <1>15 DEF Heights, Stale
  <1> QED BY <1>16 DEF sw
-----------------------------------------------------------------------------
(* The new leaf of level_get_or_add() *)
LEMMA AttachFacts ==
    ASSUME NEW t \in TreeType, NEW f \in LevelIndex, NEW w \in LevelIndex, NEW d \in Dirs,
           NEW u, u = set_child(set_parent(t, f, w), d, w, f)
    PROVE  Grown(t, u, f, w, d)
  <1>1. PICK v : v = set_parent(t, f, w) OBVIOUS
  <1>2. f \in Slot /\ w \in Slot BY Basics
  <1>3. Parented(t, v, f, w) BY <1>1, <1>2, ParentFacts
  <1>4. v \in TreeType BY <1>3 DEF Parented
  <1>5. Given(v, u, d, w, f) BY <1>1, <1>2, <1>4, ChildFacts
  <1> QED BY <1>3, <1>5 DEF Parented, Given, Grown, SameRest

(* level_release() *)
Released(t, u, z) ==
    /\ u \in TreeType /\ Used(u) = Used(t) \ {z} /\ u.root = t.root
    /\ \A k \in LevelIndex : k # z =>
          /\ u.price[k] = t.price[k] /\ u.height[k] = t.height[k] /\ u.parent[k] = t.parent[k]
          /\ \A e \in Dirs : u.child[e][k] = t.child[e][k]
    /\ u.free_level = <<z>> \o t.free_level /\ u.active_levels = t.active_levels - 1

(* level_release(), member by member *)
LEMMA ReleaseFacts ==
    ASSUME NEW t \in TreeType, NEW z \in LevelIndex, NEW u, u = level_release(t, z)
    PROVE  Released(t, u, z)
  <1>1. PICK v : v = cleared(t, z) OBVIOUS
  <1>2. /\ v.price = [t.price EXCEPT ![z] = 0] /\ v.active = [t.active EXCEPT ![z] = FALSE]
        /\ v.height = [t.height EXCEPT ![z] = 1] /\ v.parent = [t.parent EXCEPT ![z] = none]
        /\ v.root = t.root /\ v.free_level = t.free_level
        /\ v.active_levels = t.active_levels - 1
    BY <1>1 DEF cleared, TreeType
  <1>3. v.child = [[t.child EXCEPT !["left"][z] = none] EXCEPT !["right"][z] = none]
    BY <1>1 DEF cleared, TreeType
  <1>4. PICK f : f = <<z>> \o t.free_level OBVIOUS
  <1>5. f \in Seq(LevelIndex)
    <2>1. <<z>> \in Seq(LevelIndex) /\ t.free_level \in Seq(LevelIndex) BY Fields
    <2> QED BY <1>4, <2>1
  <1>6. u = [v EXCEPT !.free_level = f] BY <1>1, <1>2, <1>4 DEF level_release
  <1>7. v \in TreeType
    <2>1. /\ t.price \in [LevelIndex -> Nat] /\ t.active \in [LevelIndex -> BOOLEAN]
          /\ t.height \in [LevelIndex -> Nat] /\ t.parent \in [LevelIndex -> Slot]
          /\ t.child \in [Dirs -> [LevelIndex -> Slot]] /\ t.root \in [Sides -> Slot]
          /\ t.free_level \in Seq(LevelIndex) /\ t.active_levels \in Int
      BY Fields
    <2>2. none \in Slot /\ "left" \in Dirs /\ "right" \in Dirs BY Basics DEF Dirs
    <2>3. v.price \in [LevelIndex -> Nat] /\ v.active \in [LevelIndex -> BOOLEAN]
      BY <1>2, <2>1
    <2>4. v.height \in [LevelIndex -> Nat] /\ v.parent \in [LevelIndex -> Slot]
      BY <1>2, <2>1, <2>2
    <2>5. v.child \in [Dirs -> [LevelIndex -> Slot]]
      <3>1. PICK m : m = [t.child EXCEPT !["left"][z] = none] OBVIOUS
      <3>2. m \in [Dirs -> [LevelIndex -> Slot]] BY <2>1, <2>2, <3>1
      <3>3. v.child = [m EXCEPT !["right"][z] = none] BY <1>3, <3>1
      <3> QED BY <2>2, <3>2, <3>3
    <2>6. v.root \in [Sides -> Slot] /\ v.free_level \in Seq(LevelIndex) /\ v.active_levels \in Int
      BY <1>2, <2>1
    <2>7. v = [price |-> v.price, active |-> v.active, height |-> v.height, parent |-> v.parent,
               child |-> v.child, root |-> v.root, free_level |-> v.free_level,
               active_levels |-> v.active_levels]
      BY <1>1 DEF cleared, TreeType
    <2> QED BY <2>3, <2>4, <2>5, <2>6, <2>7 DEF TreeType
  <1>8. u \in TreeType BY <1>5, <1>6, <1>7 DEF TreeType
  <1>9. /\ u.price = v.price /\ u.active = v.active /\ u.height = v.height /\ u.parent = v.parent
        /\ u.child = v.child /\ u.root = v.root /\ u.free_level = f
        /\ u.active_levels = v.active_levels
    BY <1>6, <1>7 DEF TreeType
  <1>10. \A k \in LevelIndex, e \in Dirs : k # z => v.child[e][k] = t.child[e][k]
    BY <1>3, Fields DEF Dirs
  <1>11. \A k \in LevelIndex : k # z =>
            v.price[k] = t.price[k] /\ v.height[k] = t.height[k] /\ v.parent[k] = t.parent[k]
    BY <1>2, Fields
  <1>12. Used(u) = Used(t) \ {z} BY <1>2, <1>9, Fields DEF Used
  <1> QED BY <1>2, <1>4, <1>8, <1>9, <1>10, <1>11, <1>12 DEF Released

(* What level_remove() leaves: w is the level to be repaired next. *)
Removed(t, S, u, z) ==
    \E R : Forest(u, R, none) /\ \A r \in Sides : R[u.root[r]] = S[t.root[r]] \ {z}
Returned(t, u, z) ==
    /\ u \in TreeType /\ Used(u) = Used(t) \ {z}
    /\ \A k \in Used(u) : u.price[k] = t.price[k]
    /\ u.free_level = <<z>> \o t.free_level /\ u.active_levels = t.active_levels - 1

Repairable(t, w) == \E b : Heights(t, w, b)
Cut(t, u, s, p, z, c) == u = level_release(replace_child(t, s, p, z, c), z)
Resumes(w, z, y, o) == w = IF o = z THEN y ELSE o
Spliced(t, u, s, z, y) == u = level_release(splice(t, s, z, y), z)

(* level_remove() of a level z with one child at most *)
LEMMA RemoveFacts ==
    ASSUME NEW t, NEW S, Forest(t, S, none), Only(t, none), NEW s \in Sides,
           NEW z \in S[t.root[s]], NEW d \in Dirs, NEW c, c = t.child[d][z],
           t.child[other(d)][z] = none, NEW p, p = t.parent[z],
           NEW u, Cut(t, u, s, p, z, c)
    PROVE  /\ Removed(t, S, u, z) /\ Returned(t, u, z)
           /\ Repairable(u, p)
           /\ p # none => p \in S[t.root[s]] \ {z}
  <1>1. /\ Shape(t, S) /\ z \in Used(t) /\ z \in LevelIndex /\ t \in TreeType
        /\ \A r \in Sides : z \in S[t.root[r]] => r = s
        /\ p = none <=> t.root[s] = z
        /\ p # none => p \in S[t.root[s]]
    BY RootFacts DEF Shape
  <1>2. Family(t, S, z, c, none) BY <1>1, FamilyFacts
  <1>3. c \in Slot /\ c # z /\ none # z /\ (c # none => c \in Used(t))
    BY <1>1, <1>2, Basics DEF Family, Half
  <1>4. p \in Slot /\ Hangs(t, p, z) /\ (p # none => p # z)
    <2>1. p \in Slot BY <1>1, Fields
    <2> QED BY <1>1, <2>1, UpFacts DEF Hangs
  <1>5. PICK v : v = replace_child(t, s, p, z, c) OBVIOUS
  <1>6. Replaced(t, v, s, p, z, c) BY <1>1, <1>3, <1>4, <1>5, ReplaceFacts
  <1>7. v \in TreeType /\ SameRest(t, v) /\ v.height = t.height BY <1>6 DEF Replaced
  <1>8. Released(v, u, z) BY <1>1, <1>5, <1>7, ReleaseFacts DEF Cut
  <1>9. Used(v) = Used(t) BY <1>7 DEF SameRest, Used
  <1>10. Returned(t, u, z)
    BY <1>7, <1>8, <1>9 DEF Released, Returned, SameRest, Used
  <1>11. /\ \A k \in Used(u) : k \in LevelIndex /\ k \in Used(t) /\ k # z
         /\ \A k \in Used(u) : u.height[k] = t.height[k]
    BY <1>7, <1>8, <1>9 DEF Released, Used
  <1>12. Unhung(t, u, z, c, p)
    <2>1. \A k \in Used(u) : u.parent[k] = IF k = c THEN p ELSE t.parent[k]
      BY <1>6, <1>8, <1>11 DEF Replaced, Released
    <2>2. ASSUME NEW k \in Used(u), NEW e \in Dirs
          PROVE  u.child[e][k] = IF t.child[e][k] = z THEN c ELSE t.child[e][k]
      <3>1. u.child[e][k] = v.child[e][k] BY <1>8, <1>11 DEF Released
      <3>2. v.child[e][k] = IF k = p /\ t.child[e][k] = z THEN c ELSE t.child[e][k]
        BY <1>6, <1>11 DEF Replaced
      <3>3. t.child[e][k] # none => t.parent[t.child[e][k]] = k BY <1>1, <1>11, SubFacts
      <3> QED BY <1>3, <3>1, <3>2, <3>3
    <2>3. ASSUME NEW r \in Sides PROVE u.root[r] = IF t.root[r] = z THEN c ELSE t.root[r]
      <3>1. u.root[r] = IF p = none /\ r = s THEN c ELSE t.root[r]
        BY <1>6, <1>8 DEF Replaced, Released
      <3>2. t.root[r] = z => r = s
        <4>1. z \in S[z] BY <1>2 DEF Family
        <4> QED BY <1>1, <4>1
      <3> QED BY <1>1, <3>1, <3>2
    <2> QED BY <1>10, <2>1, <2>2, <2>3 DEF Unhung, Returned
  <1>13. Removed(t, S, u, z)
    <2>1. PICK R : R = Without(S, z) OBVIOUS
    <2>2. Forest(u, R, none) /\ \A r \in Sides : R[u.root[r]] = S[t.root[r]] \ {z}
      BY <1>12, <2>1, UnhangForest
    <2> QED BY <2>2 DEF Removed
  <1>14. Only(u, p) /\ (p # none => p \in Used(u))
    BY <1>1, <1>11, <1>12, UnhangHeights
  <1>15. \E b : Heights(u, p, b)
    <2>1. u \in TreeType BY <1>10 DEF Returned
    <2> QED BY <1>14, <2>1, OnlyHeights
  <1> QED BY <1>1, <1>4, <1>10, <1>13, <1>15 DEF Repairable

(* The successor y of z is the least level of its right subtree; o is its  *)
(* parent, and the levels around the two are different ones.               *)
Succ(t, S, z, y, lz, rz, ry, o, pz) ==
    /\ lz = t.child["left"][z] /\ lz # none /\ rz = t.child["right"][z] /\ y \in S[rz]
    /\ t.child["left"][y] = none /\ ry = t.child["right"][y]
    /\ o = t.parent[y] /\ pz = t.parent[z]
Distant(t, z, y, lz, rz, ry, o, pz) ==
    /\ z \in LevelIndex /\ y \in LevelIndex /\ y \in Used(t) /\ lz \in LevelIndex /\ rz \in LevelIndex
    /\ ry \in Slot /\ o \in LevelIndex /\ o \in Used(t) /\ pz \in Slot
    /\ y # z /\ lz # y /\ lz # z /\ lz # rz /\ rz # z /\ lz # ry /\ ry # y /\ ry # z /\ ry # rz
    /\ o # y /\ (o = z <=> y = rz)
    /\ pz # z /\ pz # y /\ pz # lz /\ pz # rz /\ (pz # none => pz # ry /\ pz # o)
    /\ t.parent[lz] = z /\ t.parent[rz] = z /\ (ry # none => t.parent[ry] = y)
    /\ Hangs(t, o, y) /\ Hangs(t, pz, z)

(* The levels that splice() is about are different ones. *)
LEMMA SuccFacts ==
    ASSUME NEW t, NEW S, Shape(t, S), NEW z \in Used(t), NEW y, NEW lz, NEW rz, NEW ry, NEW o, NEW pz,
           Succ(t, S, z, y, lz, rz, ry, o, pz)
    PROVE  Distant(t, z, y, lz, rz, ry, o, pz)
  <1>1. /\ lz = t.child["left"][z] /\ lz # none /\ rz = t.child["right"][z] /\ y \in S[rz]
        /\ t.child["left"][y] = none /\ ry = t.child["right"][y]
        /\ o = t.parent[y] /\ pz = t.parent[z]
    BY DEF Succ
  <1>2. "left" \in Dirs /\ "right" \in Dirs /\ other("left") = "right" /\ other("right") = "left"
    BY DEF Dirs, other
  <1>3. Family(t, S, z, lz, rz) BY <1>1, <1>2, FamilyFacts
  <1>4. t \in TreeType /\ none \notin LevelIndex /\ S[none] = {} /\ none \in Slot
    BY Basics DEF Shape, Below
  <1>5. rz # none BY <1>1, <1>4
  <1>6. /\ z \in LevelIndex /\ lz \in LevelIndex /\ rz \in LevelIndex /\ lz # z /\ rz # z /\ lz # rz
        /\ lz \in Used(t) /\ rz \in Used(t) /\ t.parent[lz] = z /\ t.parent[rz] = z
        /\ lz \in S[lz] /\ rz \in S[rz] /\ S[lz] \cap S[rz] = {} /\ z \notin S[rz]
        /\ S[rz] \subseteq Used(t) /\ S[z] = {z} \cup S[lz] \cup S[rz]
    BY <1>1, <1>3, <1>5 DEF Family, Half
  <1>7. y \in Used(t) /\ y \in LevelIndex /\ y # z /\ y # lz BY <1>1, <1>6 DEF Used
  <1>8. S[y] \subseteq S[rz] /\ (y # rz => o \in S[rz])
    BY <1>1, <1>6 DEF Shape, Nested
  <1>9. Family(t, S, y, none, ry) BY <1>1, <1>2, <1>7, FamilyFacts
  <1>10. /\ ry \in Slot /\ ry # y
         /\ ry # none => ry \in S[rz] /\ t.parent[ry] = y
    BY <1>4, <1>7, <1>8, <1>9 DEF Family, Half
  <1>11. lz # ry /\ ry # z /\ ry # rz
    BY <1>4, <1>6, <1>7, <1>10
  <1>12. o = z <=> y = rz BY <1>1, <1>6, <1>8
  <1>13. /\ o # none /\ o \in Used(t) /\ o \in LevelIndex /\ o # y /\ Hangs(t, o, y)
    <2>1. o # none BY <1>4, <1>6, <1>8, <1>12 DEF Used
    <2> QED BY <1>1, <1>7, <2>1, UpFacts DEF Hangs
  <1>14. o = z \/ o \in S[rz] BY <1>8, <1>12
  <1>15. pz \in Slot BY <1>1, <1>4, <1>6, Fields
  <1>16. pz # none => pz # z /\ pz \notin S[z] BY <1>1, UpFacts
  <1>17. Hangs(t, pz, z) BY <1>1, UpFacts DEF Hangs
  <1>18. /\ pz # z /\ pz # y /\ pz # lz /\ pz # rz /\ (pz # none => pz # ry /\ pz # o)
    <2>1. CASE pz = none BY <1>4, <1>6, <1>7, <2>1
    <2>2. CASE pz # none BY <1>1, <1>6, <1>10, <1>14, <1>16, <2>2
    <2> QED BY <2>1, <2>2
  <1> QED BY <1>6, <1>7, <1>10, <1>11, <1>12, <1>13, <1>15, <1>17, <1>18 DEF Distant

(* The links after the two steps of level_remove() for such a z: y is      *)
(* taken out, which gives v, and then has the links of z.                  *)
Moved(t, v, x, s, z, y, lz, qz, pz) ==
    /\ x \in TreeType /\ SameRest(t, x)
    /\ \A k \in LevelIndex : k # z =>
          x.parent[k] = IF k = y THEN pz ELSE IF k = lz \/ k = qz THEN y ELSE v.parent[k]
    /\ \A k \in LevelIndex, e \in Dirs : k # z =>
          x.child[e][k] = IF k = y THEN v.child[e][z]
                          ELSE IF k = pz /\ v.child[e][k] = z THEN y ELSE v.child[e][k]
    /\ \A r \in Sides : x.root[r] = IF pz = none /\ r = s THEN y ELSE t.root[r]
    /\ \A k \in LevelIndex : k # y => x.height[k] = t.height[k]
    /\ x.height[y] = taller(height(t, lz), height(t, qz))

(* The last steps: y replaces z in t1, and takes its left subtree. *)
Seated(t1, x, s, z, y, lz, qz, pz) ==
    /\ x \in TreeType /\ SameRest(t1, x)
    /\ \A k \in LevelIndex : x.parent[k] = IF k = lz THEN y ELSE IF k = y THEN pz ELSE t1.parent[k]
    /\ \A k \in LevelIndex, e \in Dirs :
          x.child[e][k] = IF k = y /\ e = "left" THEN lz
                          ELSE IF k = pz /\ t1.child[e][k] = z THEN y ELSE t1.child[e][k]
    /\ \A r \in Sides : x.root[r] = IF pz = none /\ r = s THEN y ELSE t1.root[r]
    /\ \A k \in LevelIndex : k # y => x.height[k] = t1.height[k]
    /\ x.height[y] = taller(height(t1, lz), height(t1, qz))

(* The last steps of splice(): y is seated where z was. *)
LEMMA SpliceEnd ==
    ASSUME NEW t1 \in TreeType, NEW s \in Sides, NEW z \in LevelIndex, NEW y \in LevelIndex, y # z,
           NEW pz \in Slot, NEW lz \in LevelIndex, lz # y, Hangs(t1, pz, z), pz # y,
           NEW qz, qz = t1.child["right"][y],
           NEW x, x = update(set_parent(set_child(replace_child(t1, s, pz, z, y), "left", y, lz), lz, y), y)
    PROVE  Seated(t1, x, s, z, y, lz, qz, pz)
  <1>1. y \in Slot /\ lz \in Slot /\ "left" \in Dirs /\ "right" \in Dirs /\ none \notin LevelIndex
    BY Basics DEF Dirs
  <1>a. PICK a : a = replace_child(t1, s, pz, z, y) OBVIOUS
  <1>b. PICK b : b = set_child(a, "left", y, lz) OBVIOUS
  <1>c. PICK c : c = set_parent(b, lz, y) OBVIOUS
  <1>2. Replaced(t1, a, s, pz, z, y) BY <1>1, <1>a, ReplaceFacts
  <1>3. Given(a, b, "left", y, lz)
    <2>1. a \in TreeType BY <1>2 DEF Replaced
    <2> QED BY <1>1, <1>b, <2>1, ChildFacts
  <1>4. Parented(b, c, lz, y)
    <2>1. b \in TreeType BY <1>3 DEF Given
    <2> QED BY <1>1, <1>c, <2>1, ParentFacts
  <1>5. Updated(c, x, y)
    <2>1. c \in TreeType BY <1>4 DEF Parented
    <2>2. x = update(c, y) BY <1>a, <1>b, <1>c
    <2> QED BY <2>1, <2>2, UpdateFacts
  <1>6. SameRest(t1, x) /\ x \in TreeType
    BY <1>2, <1>3, <1>4, <1>5 DEF SameRest, Updated, Given, Parented, Replaced
  <1>7. \A k \in LevelIndex : x.parent[k] = IF k = lz THEN y ELSE IF k = y THEN pz ELSE t1.parent[k]
    BY <1>2, <1>3, <1>4, <1>5 DEF SameLinks, Updated, Given, Parented, Replaced
  <1>8. \A k \in LevelIndex, e \in Dirs :
           c.child[e][k] = IF k = y /\ e = "left" THEN lz
                           ELSE IF k = pz /\ t1.child[e][k] = z THEN y ELSE t1.child[e][k]
    BY <1>2, <1>3, <1>4 DEF Given, Parented, Replaced
  <1>9. x.child = c.child BY <1>5 DEF Updated, SameLinks
  <1>10. \A r \in Sides : x.root[r] = IF pz = none /\ r = s THEN y ELSE t1.root[r]
    BY <1>2, <1>3, <1>4, <1>5 DEF SameLinks, Updated, Given, Parented, Replaced
  <1>11. c.height = t1.height BY <1>2, <1>3, <1>4 DEF Given, Parented, Replaced
  <1>12. \A k \in LevelIndex : k # y => x.height[k] = t1.height[k] BY <1>5, <1>11 DEF Updated
  <1>13. c.child["left"][y] = lz /\ c.child["right"][y] = qz BY <1>1, <1>8
  <1>14. x.height[y] = taller(height(t1, lz), height(t1, qz))
    BY <1>5, <1>11, <1>13 DEF Updated, height
  <1> QED BY <1>6, <1>7, <1>8, <1>9, <1>10, <1>12, <1>14 DEF Seated

(* splice(), link by link *)
LEMMA SpliceLinks ==
    ASSUME NEW t \in TreeType, NEW s \in Sides, NEW z, NEW y, NEW lz, NEW rz, NEW ry, NEW o, NEW pz,
           Distant(t, z, y, lz, rz, ry, o, pz),
           lz = t.child["left"][z], rz = t.child["right"][z], ry = t.child["right"][y],
           o = t.parent[y], pz = t.parent[z],
           NEW v, Replaced(t, v, s, o, y, ry), NEW qz, qz = IF o = z THEN ry ELSE rz,
           NEW x, x = splice(t, s, z, y)
    PROVE  Moved(t, v, x, s, z, y, lz, qz, pz) /\ qz = v.child["right"][z] /\ lz = v.child["left"][z]
  <1>1. /\ z \in LevelIndex /\ y \in LevelIndex /\ y \in Used(t) /\ lz \in LevelIndex /\ rz \in LevelIndex
        /\ ry \in Slot /\ o \in LevelIndex /\ o \in Used(t) /\ pz \in Slot
        /\ y # z /\ lz # y /\ lz # z /\ lz # rz /\ rz # z /\ lz # ry /\ ry # y /\ ry # z /\ ry # rz
        /\ o # y /\ (o = z <=> y = rz)
        /\ pz # z /\ pz # y /\ pz # lz /\ pz # rz /\ (pz # none => pz # ry /\ pz # o)
        /\ t.parent[lz] = z /\ t.parent[rz] = z /\ (ry # none => t.parent[ry] = y)
        /\ Hangs(t, o, y) /\ Hangs(t, pz, z)
    BY DEF Distant
  <1>2. /\ "left" \in Dirs /\ "right" \in Dirs /\ "left" # "right" /\ Dirs = {"left", "right"}
        /\ none \notin LevelIndex /\ LevelIndex \subseteq Slot
    BY Basics DEF Dirs
  <1>3. /\ v \in TreeType /\ SameRest(t, v) /\ v.height = t.height
        /\ \A k \in LevelIndex : v.parent[k] = IF k = ry THEN o ELSE t.parent[k]
        /\ \A k \in LevelIndex, d \in Dirs :
              v.child[d][k] = IF k = o /\ t.child[d][k] = y THEN ry ELSE t.child[d][k]
        /\ \A r \in Sides : v.root[r] = t.root[r]
    BY <1>1, <1>2 DEF Replaced
  <1>4. qz = v.child["right"][z] /\ lz = v.child["left"][z] BY <1>1, <1>2, <1>3
  <1>5. CASE o = z
    <2>1. qz = ry BY <1>5
    <2>2. x = update(set_parent(set_child(replace_child(t, s, pz, z, y), "left", y, lz), lz, y), y)
      BY <1>5 DEF splice
    <2>3. Seated(t, x, s, z, y, lz, qz, pz) BY <1>1, <2>1, <2>2, SpliceEnd
    <2>4. ASSUME NEW k \in LevelIndex, k # z
          PROVE  x.parent[k] = IF k = y THEN pz ELSE IF k = lz \/ k = qz THEN y ELSE v.parent[k]
      <3>1. x.parent[k] = IF k = lz THEN y ELSE IF k = y THEN pz ELSE t.parent[k]
        BY <2>3 DEF Seated
      <3> QED BY <1>1, <1>2, <1>3, <2>1, <3>1
    <2>5. ASSUME NEW k \in LevelIndex, NEW e \in Dirs, k # z
          PROVE  x.child[e][k] = IF k = y THEN v.child[e][z]
                          ELSE IF k = pz /\ v.child[e][k] = z THEN y ELSE v.child[e][k]
      <3>1. x.child[e][k] = IF k = y /\ e = "left" THEN lz
                          ELSE IF k = pz /\ t.child[e][k] = z THEN y ELSE t.child[e][k]
        BY <2>3 DEF Seated
      <3>2. v.child[e][k] = t.child[e][k] BY <1>3, <1>5, <2>5
      <3>3. CASE k = y BY <1>1, <1>2, <1>4, <2>1, <3>1, <3>3
      <3>4. CASE k # y BY <3>1, <3>2, <3>4
      <3> QED BY <3>3, <3>4
    <2> QED BY <1>4, <2>3, <2>4, <2>5 DEF Moved, Seated
  <1>6. CASE o # z
    <2>1. qz = rz /\ y # rz BY <1>1, <1>6
    <2>2. PICK a : a = replace_child(t, s, o, y, ry) OBVIOUS
    <2>3. PICK b : b = set_child(a, "right", y, rz) OBVIOUS
    <2>4. PICK c : c = set_parent(b, rz, y) OBVIOUS
    <2>5. Replaced(t, a, s, o, y, ry) BY <1>1, <1>2, <2>2, ReplaceFacts
    <2>6. Given(a, b, "right", y, rz)
      <3>1. a \in TreeType /\ rz \in Slot BY <1>1, <1>2, <2>5 DEF Replaced
      <3> QED BY <1>1, <1>2, <2>3, <3>1, ChildFacts
    <2>7. Parented(b, c, rz, y)
      <3>1. b \in TreeType /\ rz \in Slot /\ y \in Slot BY <1>1, <1>2, <2>6 DEF Given
      <3> QED BY <2>4, <3>1, ParentFacts
    <2>8. /\ c \in TreeType /\ SameRest(t, c) /\ c.height = t.height
          /\ \A k \in LevelIndex :
                c.parent[k] = IF k = rz THEN y ELSE IF k = ry THEN o ELSE t.parent[k]
          /\ \A r \in Sides : c.root[r] = t.root[r]
      BY <1>1, <1>2, <2>5, <2>6, <2>7 DEF Replaced, Given, Parented, SameRest
    <2>9. \A k \in LevelIndex, d \in Dirs :
             c.child[d][k] = IF k = y /\ d = "right" THEN rz
                             ELSE IF k = o /\ t.child[d][k] = y THEN ry ELSE t.child[d][k]
      BY <2>5, <2>6, <2>7 DEF Replaced, Given, Parented
    <2>10. c.parent[z] = pz /\ c.child["left"][z] = lz /\ c.child["right"][y] = rz
      BY <1>1, <1>2, <1>6, <2>8, <2>9
    <2>11. x = update(set_parent(set_child(replace_child(c, s, pz, z, y), "left", y, lz), lz, y), y)
      BY <1>6, <2>2, <2>3, <2>4, <2>10 DEF splice
    <2>12. Hangs(c, pz, z)
      <3> SUFFICES ASSUME pz # none
                   PROVE  \E d \in Dirs : c.child[d][pz] = z /\ c.child[other(d)][pz] # z
        BY DEF Hangs
      <3>1. PICK d \in Dirs : t.child[d][pz] = z /\ t.child[other(d)][pz] # z BY <1>1 DEF Hangs
      <3>2. pz \in LevelIndex /\ pz # o /\ pz # y BY <1>1 DEF Slot
      <3>3. other(d) \in Dirs BY Basics
      <3> QED BY <2>9, <3>1, <3>2, <3>3
    <2>13. Seated(c, x, s, z, y, lz, qz, pz) BY <1>1, <2>1, <2>8, <2>10, <2>11, <2>12, SpliceEnd
    <2>14. ASSUME NEW k \in LevelIndex, k # z
           PROVE  x.parent[k] = IF k = y THEN pz ELSE IF k = lz \/ k = qz THEN y ELSE v.parent[k]
      <3>1. x.parent[k] = IF k = lz THEN y ELSE IF k = y THEN pz ELSE c.parent[k]
        BY <2>13 DEF Seated
      <3> QED BY <1>1, <1>3, <2>1, <2>8, <3>1
    <2>15. ASSUME NEW k \in LevelIndex, NEW e \in Dirs, k # z
           PROVE  x.child[e][k] = IF k = y THEN v.child[e][z]
                          ELSE IF k = pz /\ v.child[e][k] = z THEN y ELSE v.child[e][k]
      <3>1. x.child[e][k] = IF k = y /\ e = "left" THEN lz
                          ELSE IF k = pz /\ c.child[e][k] = z THEN y ELSE c.child[e][k]
        BY <2>13 DEF Seated
      <3>2. CASE k = y
        <4>1. CASE e = "left" BY <1>4, <3>1, <3>2, <4>1
        <4>2. CASE e = "right" BY <1>1, <1>2, <1>4, <2>1, <2>9, <3>1, <3>2, <4>2
        <4> QED BY <1>2, <4>1, <4>2
      <3>3. CASE k # y
        <4>1. c.child[e][k] = v.child[e][k] BY <1>3, <2>9, <3>3
        <4> QED BY <3>1, <3>3, <4>1
      <3> QED BY <3>2, <3>3
    <2>16. \A k : height(c, k) = height(t, k) BY <2>8 DEF height
    <2>17. SameRest(t, x) BY <2>8, <2>13 DEF Seated, SameRest
    <2> QED BY <1>4, <2>8, <2>13, <2>14, <2>15, <2>16, <2>17 DEF Moved, Seated
  <1> QED BY <1>5, <1>6

(* No level of the side but z has a price between z and its successor. *)
Distinct(t, N) == \A j, k \in N : t.price[j] = t.price[k] => j = k
Least(t, S, y, rz) == \A j \in S[rz] \ S[y], k \in S[y] : t.price[k] < t.price[j]

(* So y may take the place of z. *)
LEMMA SuccAdjacent ==
    ASSUME NEW t, NEW S, Forest(t, S, none), NEW s \in Sides, NEW z \in S[t.root[s]],
           NEW y, NEW lz, NEW rz, NEW ry, NEW o, NEW pz,
           Succ(t, S, z, y, lz, rz, ry, o, pz), Least(t, S, y, rz), Distinct(t, S[t.root[s]])
    PROVE  /\ y \in S[t.root[s]] /\ y \in S[z]
           /\ Adjacent(t, S[t.root[s]] \ {y}, z, t.price[y])
  <1>1. /\ Shape(t, S) /\ z \in Used(t) /\ z \in LevelIndex /\ S[t.root[s]] \subseteq Used(t)
        /\ S[z] \subseteq S[t.root[s]]
    BY RootFacts
  <1>2. /\ lz = t.child["left"][z] /\ rz = t.child["right"][z] /\ y \in S[rz]
        /\ t.child["left"][y] = none /\ ry = t.child["right"][y]
    BY DEF Succ
  <1>3. "left" \in Dirs /\ "right" \in Dirs /\ other("left") = "right" BY DEF Dirs, other
  <1>4. Family(t, S, z, lz, rz) BY <1>1, <1>2, <1>3, FamilyFacts
  <1>5. /\ S[z] = {z} \cup S[lz] \cup S[rz] /\ S[rz] \subseteq Used(t) BY <1>4 DEF Family, Half
  <1>6. y \in Used(t) /\ y \in S[z] BY <1>2, <1>5
  <1>7. Family(t, S, y, none, ry) BY <1>1, <1>2, <1>3, <1>6, FamilyFacts
  <1>8. S[y] = {y} \cup S[ry]
    <2>1. S[none] = {} BY DEF Forest, Below
    <2> QED BY <1>7, <2>1 DEF Family
  <1>9. \A j \in Used(t) : t.price[j] \in Nat BY Fields DEF Forest, Used
  <1>10. /\ \A j \in S[lz] : t.price[j] < t.price[z]
         /\ \A j \in S[rz] : t.price[z] < t.price[j]
         /\ \A j \in S[ry] : t.price[y] < t.price[j]
    BY <1>1, <1>2, <1>3, <1>6 DEF Forest, Ordered, before
  <1>11. \A j \in S[rz] : j # y => t.price[y] < t.price[j]
    BY <1>8, <1>10 DEF Least
  <1>12. ASSUME NEW j \in S[t.root[s]], j # y, j # z
         PROVE  /\ t.price[y] < t.price[j] <=> t.price[z] < t.price[j]
                /\ t.price[j] < t.price[y] <=> t.price[j] < t.price[z]
    <2>1. /\ t.price[j] \in Nat /\ t.price[y] \in Nat /\ t.price[z] \in Nat
          /\ t.price[z] < t.price[y]
      BY <1>1, <1>2, <1>6, <1>9, <1>10
    <2>2. CASE j \in S[rz]
      <3>1. t.price[y] < t.price[j] BY <1>11, <1>12, <2>2
      <3> QED BY <2>1, <3>1
    <2>3. CASE j \in S[lz]
      <3>1. t.price[j] < t.price[z] BY <1>10, <2>3
      <3> QED BY <2>1, <3>1
    <2>4. CASE j \notin S[z]
      <3>1. z \in S[z] BY <1>5
      <3>2. ~(t.price[z] < t.price[j] /\ t.price[j] < t.price[y])
        BY <1>6, <2>4, <3>1 DEF Forest, Convex
      <3>3. t.price[j] # t.price[y] /\ t.price[j] # t.price[z]
        BY <1>1, <1>6, <1>12 DEF Distinct
      <3> QED BY <2>1, <3>2, <3>3
    <2> QED BY <1>5, <1>12, <2>2, <2>3, <2>4
  <1> QED BY <1>1, <1>6, <1>12 DEF Adjacent

(* level_remove() of a level z with two children, whose successor is y *)
LEMMA SpliceFacts ==
    ASSUME NEW t, NEW S, Forest(t, S, none), Only(t, none), NEW s \in Sides,
           NEW z \in S[t.root[s]], NEW y, NEW lz, NEW rz, NEW ry, NEW o, NEW pz,
           Succ(t, S, z, y, lz, rz, ry, o, pz), Least(t, S, y, rz), Distinct(t, S[t.root[s]]),
           NEW u, Spliced(t, u, s, z, y),
           NEW w, Resumes(w, z, y, o)
    PROVE  /\ Removed(t, S, u, z) /\ Returned(t, u, z)
           /\ Repairable(u, w)
           /\ w \in S[t.root[s]] \ {z}
  <1>w. w = IF o = z THEN y ELSE o BY DEF Resumes
  <1>1. /\ Shape(t, S) /\ z \in Used(t) /\ t \in TreeType
        /\ S[t.root[s]] \subseteq Used(t)
        /\ \A r \in Sides : z \in S[t.root[r]] => r = s
        /\ t.parent[z] = none <=> t.root[s] = z
    BY RootFacts DEF Shape
  <1>2. Distant(t, z, y, lz, rz, ry, o, pz) BY <1>1, SuccFacts
  <1>3. /\ z \in LevelIndex /\ y \in LevelIndex /\ y \in Used(t) /\ lz \in LevelIndex /\ rz \in LevelIndex
        /\ ry \in Slot /\ o \in LevelIndex /\ o \in Used(t) /\ pz \in Slot
        /\ y # z /\ lz # y /\ lz # z /\ lz # rz /\ rz # z /\ lz # ry /\ ry # y /\ ry # z /\ ry # rz
        /\ o # y /\ (o = z <=> y = rz)
        /\ pz # z /\ pz # y /\ pz # lz /\ pz # rz /\ (pz # none => pz # ry /\ pz # o)
        /\ t.parent[lz] = z /\ t.parent[rz] = z /\ (ry # none => t.parent[ry] = y)
        /\ Hangs(t, o, y) /\ Hangs(t, pz, z)
    BY <1>2 DEF Distant
  <1>4. /\ lz = t.child["left"][z] /\ rz = t.child["right"][z]
        /\ t.child["left"][y] = none /\ ry = t.child["right"][y]
        /\ o = t.parent[y] /\ pz = t.parent[z]
    BY DEF Succ
  <1>5. /\ "left" \in Dirs /\ "right" \in Dirs /\ other("right") = "left" /\ Dirs = {"left", "right"}
        /\ none \notin LevelIndex /\ LevelIndex \subseteq Slot
    BY Basics DEF Dirs, other
  <1>6. /\ y \in S[t.root[s]] /\ Adjacent(t, S[t.root[s]] \ {y}, z, t.price[y])
    BY SuccAdjacent
  <1>7. /\ t.parent[y] # none => t.parent[y] \in S[t.root[s]]
        /\ \A r \in Sides : y \in S[t.root[r]] => r = s
        /\ t.parent[y] = none <=> t.root[s] = y
    BY <1>6, RootFacts
  <1>8. w \in S[t.root[s]] \ {z} BY <1>w, <1>3, <1>4, <1>5, <1>6, <1>7
  <1>a. PICK v0 : v0 = replace_child(t, s, o, y, ry) OBVIOUS
  <1>b. PICK v : v = [v0 EXCEPT !.active[y] = FALSE] OBVIOUS
  <1>c. PICK x : x = splice(t, s, z, y) OBVIOUS
  <1>d. PICK qz : qz = IF o = z THEN ry ELSE rz OBVIOUS
  <1>9. Replaced(t, v0, s, o, y, ry)
    <2>1. o \in Slot BY <1>3, <1>5
    <2> QED BY <1>1, <1>3, <1>a, <2>1, ReplaceFacts
  <1>10. Moved(t, v0, x, s, z, y, lz, qz, pz) /\ qz = v0.child["right"][z] /\ lz = v0.child["left"][z]
    BY <1>1, <1>2, <1>4, <1>9, <1>c, <1>d, SpliceLinks
  <1>11. x \in TreeType /\ SameRest(t, x) BY <1>10 DEF Moved
  <1>12. Released(x, u, z) BY <1>3, <1>11, <1>c, ReleaseFacts DEF Spliced
  <1>13. Used(x) = Used(t) BY <1>11 DEF SameRest, Used
  <1>14. Returned(t, u, z)
    BY <1>11, <1>12, <1>13 DEF Released, Returned, SameRest, Used
  <1>15. /\ v \in TreeType /\ v.price = t.price /\ v.height = t.height /\ v.parent = v0.parent
         /\ v.child = v0.child /\ v.root = v0.root /\ Used(v) = Used(t) \ {y}
    <2>1. v0 \in TreeType /\ SameRest(t, v0) /\ v0.height = t.height BY <1>9 DEF Replaced
    <2>2. /\ v.active = [v0.active EXCEPT ![y] = FALSE] /\ v.price = v0.price
          /\ v.height = v0.height /\ v.parent = v0.parent /\ v.child = v0.child /\ v.root = v0.root
      BY <1>b, <2>1 DEF TreeType
    <2>3. [v0.active EXCEPT ![y] = FALSE] \in [LevelIndex -> BOOLEAN] BY <1>3, <2>1, Fields
    <2>4. v \in TreeType
      <3>1. v = [v0 EXCEPT !.active = [v0.active EXCEPT ![y] = FALSE]] BY <1>b
      <3> QED BY <2>1, <2>3, <3>1 DEF TreeType
    <2>5. Used(v) = Used(t) \ {y} BY <2>1, <2>2, Fields DEF Used, SameRest
    <2> QED BY <2>1, <2>2, <2>4, <2>5 DEF SameRest
  <1>16. Unhung(t, v, y, ry, o)
    <2>1. \A k \in Used(v) : v.parent[k] = IF k = ry THEN o ELSE t.parent[k]
      BY <1>9, <1>15 DEF Replaced, Used
    <2>2. ASSUME NEW k \in Used(v), NEW e \in Dirs
          PROVE  v.child[e][k] = IF t.child[e][k] = y THEN ry ELSE t.child[e][k]
      <3>1. v.child[e][k] = IF k = o /\ t.child[e][k] = y THEN ry ELSE t.child[e][k]
        BY <1>9, <1>15 DEF Replaced, Used
      <3>2. t.child[e][k] # none => t.parent[t.child[e][k]] = k
        BY <1>1, <1>15, SubFacts
      <3> QED BY <1>3, <1>4, <1>5, <3>1, <3>2
    <2>3. ASSUME NEW r \in Sides PROVE v.root[r] = IF t.root[r] = y THEN ry ELSE t.root[r]
      <3>1. v.root[r] = t.root[r] BY <1>3, <1>5, <1>9, <1>15 DEF Replaced
      <3>2. t.root[r] # y
        <4>1. t.root[r] # none => t.parent[t.root[r]] = none BY DEF Forest, Rooted
        <4> QED BY <1>3, <1>4, <1>5, <4>1
      <3> QED BY <3>1, <3>2
    <2> QED BY <1>15, <2>1, <2>2, <2>3 DEF Unhung
  <1>17. PICK R : R = Without(S, y) OBVIOUS
  <1>18. Forest(v, R, none) /\ \A r \in Sides : R[v.root[r]] = S[t.root[r]] \ {y}
    <2>1. PICK d \in Dirs : d = "right" BY <1>5
    <2>2. ry = t.child[d][y] /\ t.child[other(d)][y] = none BY <1>4, <1>5, <2>1
    <2> QED BY <1>4, <1>6, <1>16, <1>17, <2>2, UnhangForest
  <1>19. /\ Only(v, o)
         /\ o \in Used(v) /\ v.height[o] = t.height[o]
         /\ taller(height(v, v.child["left"][o]), height(v, v.child["right"][o])) <= v.height[o]
    <2>1. \A k \in Used(v) : v.height[k] = t.height[k] BY <1>15
    <2> QED BY <1>1, <1>3, <1>4, <1>5, <1>16, <2>1, UnhangHeights
  <1>20. Shape(v, R) /\ z \in Used(v) /\ y \notin Used(v) /\ z \in R[v.root[s]]
    BY <1>1, <1>3, <1>15, <1>18 DEF Forest, Shape
  <1>21. /\ Used(u) = Used(t) \ {z} /\ u \in TreeType
         /\ \A k \in Used(u) : k \in LevelIndex /\ k # z /\ u.price[k] = t.price[k]
         /\ \A k \in Used(u) : u.parent[k] = x.parent[k] /\ u.height[k] = x.height[k]
         /\ \A k \in Used(u), e \in Dirs : u.child[e][k] = x.child[e][k]
         /\ u.root = x.root
    BY <1>12, <1>13, <1>14 DEF Released, Returned, Used
  <1>22. Renamed(v, u, z, y)
    <2>1. Used(u) = {k \in LevelIndex : swap(k, z, y) \in Used(v)}
      BY <1>1, <1>3, <1>15, <1>21 DEF swap, Used
    <2>2. \A k \in Used(u) : k # y => u.price[k] = v.price[k] BY <1>15, <1>21
    <2>3. ASSUME NEW k \in Used(u)
          PROVE  u.parent[k] = swap(v.parent[swap(k, z, y)], z, y)
      <3>1. k \in LevelIndex /\ k # z /\ k \in Used(t) BY <1>21
      <3>2. u.parent[k] = IF k = y THEN pz ELSE IF k = lz \/ k = qz THEN y ELSE v.parent[k]
        BY <1>10, <1>15, <1>21, <3>1 DEF Moved
      <3>3. \A i \in LevelIndex : v.parent[i] = IF i = ry THEN o ELSE t.parent[i]
        BY <1>9, <1>15 DEF Replaced
      <3>4. CASE k = y
        <4>1. v.parent[z] = pz BY <1>3, <1>4, <3>3
        <4> QED BY <1>3, <3>2, <3>4, <4>1 DEF swap
      <3>5. CASE k # y /\ (k = lz \/ k = qz)
        <4>1. v.parent[k] = z
          <5>1. CASE k = lz BY <1>3, <3>3, <5>1
          <5>2. CASE k = qz
            <6>1. CASE o = z BY <1>d, <3>1, <3>3, <5>2, <6>1
            <6>2. CASE o # z BY <1>3, <1>d, <3>3, <5>2, <6>2
            <6> QED BY <6>1, <6>2
          <5> QED BY <3>5, <5>1, <5>2
        <4> QED BY <3>1, <3>2, <3>5, <4>1 DEF swap
      <3>6. CASE k # y /\ k # lz /\ k # qz
        <4>1. k \in Used(v) BY <1>15, <3>1, <3>6
        <4>2. v.parent[k] # z
          <5> SUFFICES ASSUME v.parent[k] = z PROVE FALSE OBVIOUS
          <5>1. z # none BY <1>3, <1>5
          <5>2. PICK d \in Dirs : v.child[d][z] = k BY <1>20, <4>1, <5>1, UpFacts
          <5> QED BY <1>5, <1>10, <1>15, <3>6, <5>2
        <4>3. v.parent[k] # y
          <5> SUFFICES ASSUME v.parent[k] = y PROVE FALSE OBVIOUS
          <5>1. y # none BY <1>3, <1>5
          <5>2. y \in Used(v) BY <1>20, <4>1, <5>1, UpFacts
          <5> QED BY <1>20, <5>2
        <4> QED BY <3>1, <3>2, <3>6, <4>2, <4>3 DEF swap
      <3> QED BY <3>4, <3>5, <3>6
    <2>4. ASSUME NEW k \in Used(u), NEW e \in Dirs
          PROVE  u.child[e][k] = swap(v.child[e][swap(k, z, y)], z, y)
      <3>1. k \in LevelIndex /\ k # z /\ k \in Used(t) BY <1>21
      <3>2. u.child[e][k] = IF k = y THEN v.child[e][z]
                            ELSE IF k = pz /\ v.child[e][k] = z THEN y ELSE v.child[e][k]
        BY <1>10, <1>15, <1>21, <3>1 DEF Moved
      <3>3. ASSUME NEW i \in Used(v)
            PROVE  v.child[e][i] # y /\ v.child[e][i] # i /\ (v.child[e][i] = z => i = pz)
        <4>1. /\ v.child[e][i] # none => /\ v.child[e][i] \in Used(v) /\ v.child[e][i] # i
                                         /\ v.parent[v.child[e][i]] = i
          BY <1>20, SubFacts
        <4>2. v.parent[z] = pz BY <1>3, <1>4, <1>9, <1>15 DEF Replaced
        <4>3. i # none BY <1>5 DEF Used
        <4> QED BY <1>3, <1>5, <1>20, <4>1, <4>2, <4>3
      <3>4. CASE k = y
        <4>1. v.child[e][z] # y /\ v.child[e][z] # z BY <1>20, <3>3
        <4> QED BY <1>3, <3>2, <3>4, <4>1 DEF swap
      <3>5. CASE k # y
        <4>1. k \in Used(v) BY <1>15, <3>1, <3>5
        <4> QED BY <3>1, <3>2, <3>3, <3>5, <4>1 DEF swap
      <3> QED BY <3>4, <3>5
    <2>5. ASSUME NEW r \in Sides PROVE u.root[r] = swap(v.root[r], z, y)
      <3>1. u.root[r] = IF pz = none /\ r = s THEN y ELSE t.root[r]
        BY <1>10, <1>21 DEF Moved
      <3>2. v.root[r] = t.root[r] BY <1>3, <1>5, <1>9, <1>15 DEF Replaced
      <3>3. t.root[r] # none => t.parent[t.root[r]] = none BY DEF Forest, Rooted
      <3>4. t.root[r] # y BY <1>3, <1>4, <1>5, <3>3
      <3>5. t.root[r] = z => r = s
        <4>1. z \in S[z] BY <1>1 DEF Shape, Below
        <4> QED BY <1>1, <4>1
      <3> QED BY <1>1, <1>4, <3>1, <3>2, <3>4, <3>5 DEF swap
    <2> QED BY <1>21, <2>1, <2>2, <2>3, <2>4, <2>5 DEF Renamed
  <1>23. Adjacent(v, R[v.root[s]], z, u.price[y])
    <2>1. u.price[y] = t.price[y] BY <1>3, <1>21
    <2> QED BY <1>6, <1>15, <1>18, <2>1 DEF Adjacent
  <1>24. Removed(t, S, u, z)
    <2>1. PICK Q : Q = Renaming(R, z, y) OBVIOUS
    <2>2. /\ Forest(u, Q, none)
          /\ \A r \in Sides : Q[u.root[r]] = {j \in Slot : swap(j, z, y) \in R[v.root[r]]}
      BY <1>3, <1>18, <1>20, <1>22, <1>23, <2>1, RenameForest
    <2>3. ASSUME NEW r \in Sides PROVE Q[u.root[r]] = S[t.root[r]] \ {z}
      <3>1. \A j : j \in Q[u.root[r]] <=> j \in Slot /\ swap(j, z, y) \in S[t.root[r]] \ {y}
        BY <1>18, <2>2
      <3>2. S[t.root[r]] \subseteq Slot
        <4>1. t.root[r] \in Slot BY <1>1, Fields
        <4>2. S[t.root[r]] \subseteq Used(t) BY <1>1, <4>1 DEF Shape, Below
        <4> QED BY <1>5, <4>2 DEF Used
      <3>3. y \in S[t.root[r]] <=> z \in S[t.root[r]] BY <1>1, <1>6, <1>7
      <3>4. ASSUME NEW j PROVE j \in Q[u.root[r]] <=> j \in S[t.root[r]] \ {z}
        <4>1. CASE j = y
          <5>1. swap(j, z, y) = z BY <1>3, <4>1 DEF swap
          <5> QED BY <1>3, <1>5, <3>1, <3>3, <4>1, <5>1
        <4>2. CASE j = z
          <5>1. swap(j, z, y) = y BY <4>2 DEF swap
          <5> QED BY <3>1, <4>2, <5>1
        <4>3. CASE j # y /\ j # z
          <5>1. swap(j, z, y) = j BY <4>3 DEF swap
          <5> QED BY <3>1, <3>2, <4>3, <5>1
        <4> QED BY <4>1, <4>2, <4>3
      <3> QED BY <3>4
    <2> QED BY <2>2, <2>3 DEF Removed
  <1>25. \E b : Heights(u, w, b)
    <2>1. \A k \in Used(u) : k # y => u.height[k] = v.height[k]
      BY <1>10, <1>15, <1>21 DEF Moved
    <2>2. u.height[y] = taller(height(v, v.child["left"][z]), height(v, v.child["right"][z]))
      <3>1. u.height[y] = taller(height(t, lz), height(t, qz)) BY <1>3, <1>10, <1>21 DEF Moved
      <3>2. \A k : height(v, k) = height(t, k) BY <1>15 DEF height
      <3> QED BY <1>10, <1>15, <3>1, <3>2
    <2>3. o = z => u.height[y] <= v.height[z] BY <1>19, <2>2
    <2>4. w = swap(o, z, y) BY <1>w, <1>3 DEF swap
    <2>5. \E b : Heights(u, swap(o, z, y), b)
      BY <1>3, <1>19, <1>20, <1>22, <2>1, <2>2, <2>3, RenameHeights
    <2> QED BY <2>4, <2>5
  <1> QED BY <1>8, <1>14, <1>24, <1>25 DEF Repairable
-----------------------------------------------------------------------------
(* The free list loses its head, or gains one. *)
LEMMA TailRange ==
    ASSUME NEW f \in Seq(LevelIndex), f # <<>>, IsInjective(f), NEW g, g = Tail(f), NEW c, c = Head(f)
    PROVE  /\ g \in Seq(LevelIndex) /\ c \in LevelIndex /\ c \in Range(f)
           /\ IsInjective(g) /\ Range(g) = Range(f) \ {c}
  <1>1. /\ g \in Seq(LevelIndex) /\ Len(f) \in Nat /\ Len(f) > 0 /\ Len(g) = Len(f) - 1
        /\ \A i \in 1 .. Len(g) : g[i] = f[i + 1]
    BY EmptySeq, HeadTailProperties, LenProperties
  <1>2. DOMAIN f = 1 .. Len(f) /\ DOMAIN g = 1 .. Len(g) BY <1>1, LenProperties
  <1>3. c = f[1] /\ 1 \in DOMAIN f /\ c \in LevelIndex BY <1>1, <1>2, HeadTailProperties
  <1>4. \A i, j \in DOMAIN f : f[i] = f[j] => i = j BY DEF IsInjective
  <1>5. IsInjective(g)
    <2>1. ASSUME NEW i \in DOMAIN g, NEW j \in DOMAIN g, g[i] = g[j] PROVE i = j
      <3>1. i + 1 \in DOMAIN f /\ j + 1 \in DOMAIN f /\ i \in Nat /\ j \in Nat BY <1>1, <1>2
      <3>2. f[i + 1] = f[j + 1] BY <1>1, <1>2, <2>1
      <3>3. i + 1 = j + 1 BY <1>4, <3>1, <3>2
      <3> QED BY <3>1, <3>3
    <2> QED BY <2>1 DEF IsInjective
  <1>6. ASSUME NEW x PROVE x \in Range(g) <=> x \in Range(f) \ {c}
    <2>1. ASSUME x \in Range(g) PROVE x \in Range(f) \ {c}
      <3>1. PICK i \in DOMAIN g : x = g[i] BY <2>1 DEF Range
      <3>2. i + 1 \in DOMAIN f /\ x = f[i + 1] /\ i + 1 # 1 BY <1>1, <1>2, <3>1
      <3> QED BY <1>3, <1>4, <3>2 DEF Range
    <2>2. ASSUME x \in Range(f), x # c PROVE x \in Range(g)
      <3>1. PICK i \in DOMAIN f : x = f[i] BY <2>2 DEF Range
      <3>2. i # 1 BY <1>3, <2>2, <3>1
      <3>3. i - 1 \in DOMAIN g /\ g[i - 1] = f[i]
        <4>1. i - 1 \in 1 .. Len(g) BY <1>1, <1>2, <3>2
        <4>2. g[i - 1] = f[(i - 1) + 1] BY <1>1, <4>1
        <4>3. (i - 1) + 1 = i BY <1>2
        <4> QED BY <1>2, <4>1, <4>2, <4>3
      <3> QED BY <3>1, <3>3 DEF Range
    <2> QED BY <2>1, <2>2
  <1> QED BY <1>1, <1>3, <1>5, <1>6 DEF Range

(* A slot in front of the free list. *)
LEMMA ConsRange ==
    ASSUME NEW f \in Seq(LevelIndex), IsInjective(f), NEW c \in LevelIndex, c \notin Range(f),
           NEW g, g = <<c>> \o f
    PROVE  IsInjective(g) /\ Range(g) = Range(f) \cup {c}
  <1>1. /\ g \in Seq(LevelIndex) /\ Len(f) \in Nat /\ Len(g) = Len(f) + 1 /\ g[1] = c
        /\ \A i \in 1 .. Len(f) : g[i + 1] = f[i]
    OBVIOUS
  <1>2. DOMAIN f = 1 .. Len(f) /\ DOMAIN g = 1 .. Len(g) BY <1>1, LenProperties
  <1>3. ASSUME NEW i \in DOMAIN g, i # 1 PROVE i - 1 \in DOMAIN f /\ g[i] = f[i - 1]
    <2>1. i - 1 \in 1 .. Len(f) /\ (i - 1) + 1 = i BY <1>1, <1>2, <1>3
    <2>2. g[(i - 1) + 1] = f[i - 1] BY <1>1, <2>1
    <2> QED BY <1>2, <2>1, <2>2
  <1>4. \A i, j \in DOMAIN f : f[i] = f[j] => i = j BY DEF IsInjective
  <1>5. \A i \in DOMAIN f : f[i] # c BY DEF Range
  <1>6. IsInjective(g)
    <2>1. ASSUME NEW i \in DOMAIN g, NEW j \in DOMAIN g, g[i] = g[j] PROVE i = j
      <3>1. CASE i = 1 \/ j = 1 BY <1>1, <1>3, <1>5, <2>1, <3>1
      <3>2. CASE i # 1 /\ j # 1
        <4>1. i - 1 = j - 1 BY <1>3, <1>4, <2>1, <3>2
        <4> QED BY <1>1, <1>2, <4>1
      <3> QED BY <3>1, <3>2
    <2> QED BY <2>1 DEF IsInjective
  <1>7. ASSUME NEW x PROVE x \in Range(g) <=> x \in Range(f) \cup {c}
    <2>1. ASSUME x \in Range(g) PROVE x \in Range(f) \cup {c}
      <3>1. PICK i \in DOMAIN g : x = g[i] BY <2>1 DEF Range
      <3> QED BY <1>1, <1>3, <3>1 DEF Range
    <2>2. 1 \in DOMAIN g BY <1>1, <1>2
    <2>3. ASSUME x \in Range(f) PROVE x \in Range(g)
      <3>1. PICK i \in DOMAIN f : x = f[i] BY <2>3 DEF Range
      <3>2. i + 1 \in DOMAIN g /\ g[i + 1] = f[i] BY <1>1, <1>2
      <3> QED BY <3>1, <3>2 DEF Range
    <2>4. c \in Range(g) BY <1>1, <2>2 DEF Range
    <2> QED BY <2>1, <2>3, <2>4
  <1> QED BY <1>6, <1>7

(* The pool is finite. *)
LEMMA UsedFinite ==
    ASSUME NEW t
    PROVE  IsFiniteSet(Used(t)) /\ Cardinality(Used(t)) \in Nat
  <1>1. IsFiniteSet(LevelIndex) BY TreeAssumption, FS_Interval DEF LevelIndex
  <1>2. IsFiniteSet(Used(t)) BY <1>1, FS_Subset DEF Used
  <1> QED BY <1>2, FS_CardinalityType

(* level_release() gives the level back to the pool. *)
LEMMA ReturnPool ==
    ASSUME NEW t \in TreeType, Pool(t), NEW z \in Used(t), NEW u, Returned(t, u, z)
    PROVE  Pool(u)
  <1>1. /\ u.free_level = <<z>> \o t.free_level /\ u.active_levels = t.active_levels - 1
        /\ Used(u) = Used(t) \ {z} /\ z \in LevelIndex /\ t.free_level \in Seq(LevelIndex)
    BY Fields DEF Returned, Used
  <1>2. z \notin Range(t.free_level) /\ IsInjective(t.free_level) BY DEF Pool
  <1>3. IsInjective(u.free_level) /\ Range(u.free_level) = Range(t.free_level) \cup {z}
    BY <1>1, <1>2, ConsRange
  <1>4. Range(u.free_level) = LevelIndex \ Used(u) BY <1>1, <1>3 DEF Pool, Used
  <1>5. Cardinality(Used(u)) = Cardinality(Used(t)) - 1
    BY <1>1, UsedFinite, FS_RemoveElement
  <1> QED BY <1>1, <1>3, <1>4, <1>5 DEF Pool

(* level_acquire() *)
Acquired(t, u, c, p) ==
    /\ u \in TreeType /\ c \in LevelIndex /\ c \notin Used(t) /\ Used(u) = Used(t) \cup {c}
    /\ u.root = t.root /\ u.price[c] = p /\ u.height[c] = 1 /\ Loose(u, c)
    /\ \A k \in LevelIndex : k # c =>
          /\ u.price[k] = t.price[k] /\ u.height[k] = t.height[k] /\ u.parent[k] = t.parent[k]
          /\ \A e \in Dirs : u.child[e][k] = t.child[e][k]

(* level_acquire(), member by member, and the pool *)
LEMMA AcquireFacts ==
    ASSUME NEW t \in TreeType, Pool(t), t.free_level # <<>>, NEW c, c = Head(t.free_level),
           NEW p \in Nat, NEW u, u = level_acquire(t, p)
    PROVE  Acquired(t, u, c, p) /\ Pool(u)
  <1>1. /\ t.price \in [LevelIndex -> Nat] /\ t.active \in [LevelIndex -> BOOLEAN]
        /\ t.height \in [LevelIndex -> Nat] /\ t.parent \in [LevelIndex -> Slot]
        /\ t.child \in [Dirs -> [LevelIndex -> Slot]] /\ t.root \in [Sides -> Slot]
        /\ t.free_level \in Seq(LevelIndex) /\ t.active_levels \in Int
    BY Fields
  <1>2. PICK g : g = Tail(t.free_level) OBVIOUS
  <1>3. /\ g \in Seq(LevelIndex) /\ c \in LevelIndex /\ c \in Range(t.free_level)
        /\ IsInjective(g) /\ Range(g) = Range(t.free_level) \ {c}
    BY <1>1, <1>2, TailRange DEF Pool
  <1>4. c \notin Used(t) BY <1>3 DEF Pool
  <1>5. /\ u.price = [t.price EXCEPT ![c] = p] /\ u.active = [t.active EXCEPT ![c] = TRUE]
        /\ u.height = [t.height EXCEPT ![c] = 1] /\ u.parent = [t.parent EXCEPT ![c] = none]
        /\ u.root = t.root /\ u.free_level = g
        /\ u.active_levels = t.active_levels + 1
    BY <1>2 DEF level_acquire, TreeType
  <1>6. u.child = [[t.child EXCEPT !["left"][c] = none] EXCEPT !["right"][c] = none]
    BY DEF level_acquire, TreeType
  <1>7. none \in Slot /\ "left" \in Dirs /\ "right" \in Dirs BY Basics DEF Dirs
  <1>8. u \in TreeType
    <2>1. u.price \in [LevelIndex -> Nat] /\ u.active \in [LevelIndex -> BOOLEAN]
      BY <1>1, <1>5
    <2>2. u.height \in [LevelIndex -> Nat] /\ u.parent \in [LevelIndex -> Slot]
      BY <1>1, <1>5, <1>7
    <2>3. u.child \in [Dirs -> [LevelIndex -> Slot]]
      <3>1. PICK m : m = [t.child EXCEPT !["left"][c] = none] OBVIOUS
      <3>2. m \in [Dirs -> [LevelIndex -> Slot]] BY <1>1, <1>7, <3>1
      <3>3. u.child = [m EXCEPT !["right"][c] = none] BY <1>6, <3>1
      <3> QED BY <1>3, <1>7, <3>2, <3>3
    <2>4. u.root \in [Sides -> Slot] /\ u.free_level \in Seq(LevelIndex) /\ u.active_levels \in Int
      BY <1>1, <1>3, <1>5
    <2>5. u = [price |-> u.price, active |-> u.active, height |-> u.height, parent |-> u.parent,
               child |-> u.child, root |-> u.root, free_level |-> u.free_level,
               active_levels |-> u.active_levels]
      BY DEF level_acquire, TreeType
    <2> QED BY <2>1, <2>2, <2>3, <2>4, <2>5 DEF TreeType
  <1>9. /\ u.price[c] = p /\ u.height[c] = 1 /\ u.parent[c] = none /\ u.active[c]
        /\ \A k \in LevelIndex : k # c =>
             u.price[k] = t.price[k] /\ u.height[k] = t.height[k] /\ u.parent[k] = t.parent[k]
    BY <1>1, <1>3, <1>5
  <1>10. /\ \A e \in Dirs : u.child[e][c] = none
         /\ \A k \in LevelIndex, e \in Dirs : k # c => u.child[e][k] = t.child[e][k]
    BY <1>1, <1>3, <1>6 DEF Dirs
  <1>11. Used(u) = Used(t) \cup {c} BY <1>1, <1>3, <1>5 DEF Used
  <1>12. Acquired(t, u, c, p)
    BY <1>3, <1>4, <1>5, <1>8, <1>9, <1>10, <1>11 DEF Acquired, Loose
  <1>13. Pool(u)
    <2>1. Cardinality(Used(u)) = Cardinality(Used(t)) + 1
      BY <1>4, <1>11, UsedFinite, FS_AddElement
    <2>2. Range(u.free_level) = LevelIndex \ Used(u) BY <1>3, <1>5, <1>11 DEF Pool, Used
    <2> QED BY <1>3, <1>5, <2>1, <2>2 DEF Pool
  <1> QED BY <1>12, <1>13

(* The acquired level is in no tree yet. *)
LEMMA AcquireForest ==
    ASSUME NEW t, NEW S, Forest(t, S, none), Only(t, none), NEW c, NEW p, NEW u,
           Acquired(t, u, c, p), NEW R, R = [S EXCEPT ![c] = {c}]
    PROVE  Forest(u, R, c) /\ SameSides(t, S, u, R) /\ Only(u, none)
  <1>1. /\ t \in TreeType /\ Below(t, S) /\ Linked(t) /\ Ordered(t, S) /\ Nested(t, S)
        /\ Rooted(t, S, none) /\ Convex(t, S)
    BY DEF Forest
  <1>2. /\ u \in TreeType /\ c \in LevelIndex /\ c \notin Used(t) /\ Used(u) = Used(t) \cup {c}
        /\ u.root = t.root /\ u.height[c] = 1 /\ u.parent[c] = none
        /\ \A e \in Dirs : u.child[e][c] = none
    BY DEF Acquired, Loose
  <1>3. /\ none \notin LevelIndex /\ none \in Slot /\ LevelIndex \subseteq Slot
        /\ Used(t) \subseteq LevelIndex /\ "left" \in Dirs /\ "right" \in Dirs
    BY Basics DEF Used, Dirs
  <1>4. S \in [Slot -> SUBSET Used(t)] /\ S[none] = {} BY <1>1 DEF Below
  <1>5. R \in [Slot -> SUBSET Used(u)] /\ R[c] = {c} /\ R[none] = {}
        /\ \A k \in Slot : k # c => R[k] = S[k]
    BY <1>2, <1>3, <1>4
  <1>6. \A k \in Used(t) : /\ k # c /\ k \in LevelIndex /\ u.price[k] = t.price[k]
                           /\ u.height[k] = t.height[k] /\ u.parent[k] = t.parent[k]
                           /\ t.parent[k] \in Slot /\ t.parent[k] # c /\ R[k] = S[k]
    <2>1. \A k \in Used(t) : t.parent[k] # c BY <1>1, <1>2, <1>3 DEF Linked
    <2> QED BY <1>1, <1>2, <1>3, <1>5, <2>1, Fields DEF Acquired
  <1>7. \A k \in Used(t), e \in Dirs : /\ u.child[e][k] = t.child[e][k] /\ t.child[e][k] \in Slot
                                       /\ t.child[e][k] # c /\ R[t.child[e][k]] = S[t.child[e][k]]
    <2>1. \A k \in Used(t), e \in Dirs : t.child[e][k] # c BY <1>1, <1>2, <1>3 DEF Linked
    <2>2. \A k \in Used(t), e \in Dirs : t.child[e][k] \in Slot BY <1>1, <1>3, Fields
    <2>3. \A k \in Used(t), e \in Dirs : u.child[e][k] = t.child[e][k]
      <3> SUFFICES ASSUME NEW k \in Used(t), NEW e \in Dirs PROVE u.child[e][k] = t.child[e][k] OBVIOUS
      <3>1. k \in LevelIndex /\ k # c BY <1>2, <1>3
      <3> QED BY <3>1 DEF Acquired
    <2> QED BY <1>5, <2>1, <2>2, <2>3
  <1>8. \A s \in Sides : u.root[s] = t.root[s] /\ t.root[s] # c /\ R[t.root[s]] = S[t.root[s]]
    <2>1. \A s \in Sides : t.root[s] \in Slot /\ t.root[s] # c
      BY <1>1, <1>2, <1>3, Fields DEF Rooted
    <2> QED BY <1>2, <1>5, <2>1
  <1>9. Below(u, R)
    <2> SUFFICES ASSUME NEW k \in Used(u)
                 PROVE  R[k] = {k} \cup R[u.child["left"][k]] \cup R[u.child["right"][k]]
      BY <1>5 DEF Below
    <2>1. CASE k = c BY <1>2, <1>3, <1>5, <2>1
    <2>2. CASE k \in Used(t)
      <3>1. S[k] = {k} \cup S[t.child["left"][k]] \cup S[t.child["right"][k]] BY <1>1, <2>2 DEF Below
      <3> QED BY <1>3, <1>6, <1>7, <2>2, <3>1
    <2> QED BY <1>2, <2>1, <2>2
  <1>10. Linked(u)
    <2>1. ASSUME NEW k \in Used(u), NEW e \in Dirs, u.child[e][k] # none
          PROVE  u.child[e][k] \in Used(u) /\ u.parent[u.child[e][k]] = k
      <3>1. k \in Used(t) BY <1>2, <2>1
      <3>2. t.child[e][k] \in Used(t) /\ t.parent[t.child[e][k]] = k BY <1>1, <1>7, <2>1, <3>1 DEF Linked
      <3> QED BY <1>2, <1>6, <1>7, <3>1, <3>2
    <2>2. ASSUME NEW k \in Used(u), u.parent[k] # none
          PROVE  u.parent[k] \in Used(u) /\ \E e \in Dirs : u.child[e][u.parent[k]] = k
      <3>1. k \in Used(t) BY <1>2, <2>2
      <3>2. t.parent[k] \in Used(t) /\ \E e \in Dirs : t.child[e][t.parent[k]] = k
        BY <1>1, <1>6, <2>2, <3>1 DEF Linked
      <3> QED BY <1>2, <1>6, <1>7, <3>1, <3>2
    <2> QED BY <2>1, <2>2 DEF Linked
  <1>11. Ordered(u, R)
    <2> SUFFICES ASSUME NEW k \in Used(u), NEW e \in Dirs, NEW j \in R[u.child[e][k]]
                 PROVE  before(e, u.price[j], u.price[k])
      BY DEF Ordered
    <2>1. k \in Used(t) BY <1>2, <1>5
    <2>2. j \in S[t.child[e][k]] /\ j \in Used(t) BY <1>4, <1>7, <2>1
    <2> QED BY <1>1, <1>6, <2>1, <2>2 DEF Ordered
  <1>12. Nested(u, R)
    <2> SUFFICES ASSUME NEW k \in Used(u), NEW j \in R[k]
                 PROVE  R[j] \subseteq R[k] /\ (j # k => u.parent[j] \in R[k])
      BY DEF Nested
    <2>1. CASE k = c BY <1>5, <2>1
    <2>2. CASE k \in Used(t)
      <3>1. j \in S[k] /\ j \in Used(t) BY <1>3, <1>4, <1>6, <2>2
      <3> QED BY <1>1, <1>6, <2>2, <3>1 DEF Nested
    <2> QED BY <1>2, <2>1, <2>2
  <1>13. Rooted(u, R, c)
    <2>1. \A s \in Sides : S[t.root[s]] \subseteq Used(t) BY <1>1, <1>4, Fields
    <2>2. \A s \in Sides : u.root[s] # none => u.root[s] \in Used(u) /\ u.parent[u.root[s]] = none
      BY <1>1, <1>2, <1>6 DEF Rooted
    <2>3. \A k \in Used(u) : u.parent[k] = none /\ k # c => \E s \in Sides : u.root[s] = k
      BY <1>1, <1>2, <1>3, <1>6 DEF Rooted
    <2>4. R[u.root["buy"]] \cap R[u.root["sell"]] = {} BY <1>1, <1>8 DEF Rooted, Sides
    <2>5. \A k \in Used(u) : k # c => \E s \in Sides : k \in R[u.root[s]]
      BY <1>1, <1>2, <1>3, <1>8 DEF Rooted
    <2>6. \A s \in Sides : c \notin R[u.root[s]] BY <1>2, <1>8, <2>1
    <2> QED BY <2>2, <2>3, <2>4, <2>5, <2>6 DEF Rooted
  <1>14. Convex(u, R)
    <2> USE DEF Convex
    <2> TAKE r \in Sides
    <2> TAKE k, j \in R[u.root[r]]
    <2> TAKE f, g \in R[k]
    <2> HAVE u.price[f] < u.price[j] /\ u.price[j] < u.price[g]
    <2> HIDE DEF Convex
    <2>1. k \in S[t.root[r]] /\ j \in S[t.root[r]] BY <1>8
    <2>2. k \in Used(t) /\ j \in Used(t) BY <1>1, <1>4, <2>1, Fields
    <2>3. f \in S[k] /\ g \in S[k] /\ f \in Used(t) /\ g \in Used(t)
      BY <1>3, <1>4, <1>6, <2>2
    <2>4. j \in S[k] BY <1>1, <1>6, <2>1, <2>2, <2>3 DEF Convex
    <2> QED BY <1>6, <2>2, <2>4
  <1>15. SameSides(t, S, u, R) BY <1>8 DEF SameSides
  <1>16. Only(u, none)
    <2>1. \A k \in Used(t), e \in Dirs : height(u, u.child[e][k]) = height(t, t.child[e][k])
      BY <1>1, <1>6, <1>7 DEF height, Linked
    <2>2. \A k \in Used(t) : u.height[k] > 0 /\ HeightOK(u, k)
      BY <1>3, <1>6, <2>1 DEF Only, HeightOK
    <2>3. u.height[c] > 0 /\ HeightOK(u, c) BY <1>2, <1>3 DEF HeightOK, height, Even
    <2> QED BY <1>2, <2>2, <2>3 DEF Only
  <1> QED BY <1>1, <1>2, <1>9, <1>10, <1>11, <1>12, <1>13, <1>14, <1>15, <1>16 DEF Forest

(* The first level of a side is its root. *)
Planted(t, u, s, c) == u = [t EXCEPT !.root[s] = c]
Alone(t, S, u, s, c) == \A r \in Sides : S[u.root[r]] = IF r = s THEN {c} ELSE S[t.root[r]]

(* The tree of side s consists of it. *)
LEMMA PlantForest ==
    ASSUME NEW t, NEW S, NEW c, Forest(t, S, c), Only(t, none), Loose(t, c), NEW s \in Sides,
           t.root[s] = none, NEW u, Planted(t, u, s, c)
    PROVE  Forest(u, S, none) /\ Only(u, none) /\ SameRest(t, u) /\ Alone(t, S, u, s, c)
  <1>1. /\ t \in TreeType /\ Below(t, S) /\ Linked(t) /\ Ordered(t, S) /\ Nested(t, S)
        /\ Rooted(t, S, c) /\ Convex(t, S)
    BY DEF Forest
  <1>2. /\ c \in Used(t) /\ c \in LevelIndex /\ t.parent[c] = none /\ S[c] = {c} /\ S[none] = {}
    BY <1>1 DEF Loose, Used, Below, Dirs
  <1>3. /\ none \notin LevelIndex /\ none \in Slot /\ LevelIndex \subseteq Slot
        /\ Used(t) \subseteq LevelIndex
    BY Basics DEF Used
  <1>4. /\ u \in TreeType /\ SameRest(t, u) /\ u.parent = t.parent /\ u.child = t.child
        /\ u.height = t.height /\ u.root = [t.root EXCEPT ![s] = c]
    <2>1. [t.root EXCEPT ![s] = c] \in [Sides -> Slot] BY <1>1, <1>2, <1>3, Fields
    <2>2. u = [t EXCEPT !.root = [t.root EXCEPT ![s] = c]] BY DEF Planted
    <2>3. u \in TreeType BY <1>1, <2>1, <2>2 DEF TreeType
    <2>4. SameRest(t, u) BY <1>1, <2>2 DEF TreeType, SameRest
    <2> QED BY <1>1, <2>2, <2>3, <2>4 DEF TreeType
  <1>5. Used(u) = Used(t) /\ u.price = t.price BY <1>4 DEF SameRest, Used
  <1>6. \A r \in Sides : /\ u.root[r] = IF r = s THEN c ELSE t.root[r]
                         /\ S[u.root[r]] = IF r = s THEN {c} ELSE S[t.root[r]]
    <2>1. t.root \in [Sides -> Slot] BY <1>1, Fields
    <2> SUFFICES ASSUME NEW r \in Sides PROVE u.root[r] = IF r = s THEN c ELSE t.root[r]
      BY <1>2
    <2> QED BY <1>4, <2>1
  <1>7. Below(u, S) /\ Linked(u) /\ Ordered(u, S) /\ Nested(u, S)
    BY <1>1, <1>4, <1>5 DEF Below, Linked, Ordered, Nested
  <1>8. Rooted(u, S, none)
    <2>1. \A r \in Sides : u.root[r] # none => u.root[r] \in Used(u) /\ u.parent[u.root[r]] = none
      BY <1>1, <1>2, <1>4, <1>5, <1>6 DEF Rooted
    <2>2. \A k \in Used(u) : u.parent[k] = none /\ k # none => \E r \in Sides : u.root[r] = k
      <3> SUFFICES ASSUME NEW k \in Used(u), u.parent[k] = none PROVE \E r \in Sides : u.root[r] = k
        OBVIOUS
      <3>1. CASE k = c BY <1>6, <3>1
      <3>2. CASE k # c
        <4>1. PICK r \in Sides : t.root[r] = k BY <1>1, <1>4, <1>5, <3>2 DEF Rooted
        <4>2. r # s BY <1>3, <1>5, <4>1
        <4> QED BY <1>6, <4>1, <4>2
      <3> QED BY <3>1, <3>2
    <2>3. S[u.root["buy"]] \cap S[u.root["sell"]] = {}
      <3>1. \A r \in Sides : c \notin S[t.root[r]] BY <1>1 DEF Rooted
      <3> QED BY <1>6, <3>1 DEF Sides
    <2>4. \A k \in Used(u) : k # none => \E r \in Sides : k \in S[u.root[r]]
      <3> SUFFICES ASSUME NEW k \in Used(u) PROVE \E r \in Sides : k \in S[u.root[r]] OBVIOUS
      <3>1. CASE k = c BY <1>6, <3>1
      <3>2. CASE k # c
        <4>1. PICK r \in Sides : k \in S[t.root[r]] BY <1>1, <1>5, <3>2 DEF Rooted
        <4>2. r # s BY <1>2, <4>1
        <4> QED BY <1>6, <4>1, <4>2
      <3> QED BY <3>1, <3>2
    <2>5. \A r \in Sides : none \notin S[u.root[r]]
      <3>1. \A r \in Sides : S[u.root[r]] \subseteq Used(t) BY <1>1, <1>4, Fields DEF Below
      <3> QED BY <1>3, <3>1
    <2> QED BY <2>1, <2>2, <2>3, <2>4, <2>5 DEF Rooted
  <1>9. Convex(u, S)
    <2> USE DEF Convex
    <2> TAKE r \in Sides
    <2> TAKE k, j \in S[u.root[r]]
    <2> TAKE f, g \in S[k]
    <2> HAVE u.price[f] < u.price[j] /\ u.price[j] < u.price[g]
    <2> HIDE DEF Convex
    <2>1. CASE r = s BY <1>2, <1>6, <2>1
    <2>2. CASE r # s BY <1>1, <1>5, <1>6, <2>2 DEF Convex
    <2> QED BY <2>1, <2>2
  <1>10. Only(u, none) BY <1>4, <1>5 DEF Only, HeightOK, height
  <1> QED BY <1>4, <1>6, <1>7, <1>8, <1>9, <1>10 DEF Forest, Alone
-----------------------------------------------------------------------------
(* No two levels of a side have the same price. *)
LEMMA DistinctPrices ==
    ASSUME NEW t, NEW ix, NEW S, Indexed(t, ix, S), NEW s \in Sides
    PROVE  Distinct(t, S[t.root[s]])
  BY DEF Indexed, Distinct

(* The prices of levels are numbers. *)
LEMMA PriceNat ==
    ASSUME NEW t, NEW S, NEW n, Forest(t, S, n), NEW s \in Sides, NEW x \in S[t.root[s]]
    PROVE  t.price[x] \in Nat
  BY RootFacts, Fields DEF Shape

(* A search goes to the child on the side of the price. *)
Split(t, S, x, k, o, d) ==
    /\ k \in Slot /\ S[x] = {x} \cup S[k] \cup S[o] /\ S[k] \cap S[o] = {}
    /\ x \notin S[k] /\ x \notin S[o] /\ S[none] = {} /\ (k # none => k \in S[k])
    /\ \A j \in S[k] : before(d, t.price[j], t.price[x])
    /\ \A j \in S[o] : before(other(d), t.price[j], t.price[x])

(* The subtrees of a level on either side of its price. *)
LEMMA SplitFacts ==
    ASSUME NEW t, NEW S, NEW n, Forest(t, S, n), NEW s \in Sides, NEW x \in S[t.root[s]],
           NEW d \in Dirs, NEW k, k = t.child[d][x], NEW o, o = t.child[other(d)][x]
    PROVE  Split(t, S, x, k, o, d)
  <1>1. Shape(t, S) /\ x \in Used(t) BY RootFacts
  <1>2. Family(t, S, x, k, o) BY <1>1, FamilyFacts
  <1>3. /\ \A j \in S[k] : before(d, t.price[j], t.price[x])
        /\ \A j \in S[o] : before(other(d), t.price[j], t.price[x])
    BY <1>1, Basics DEF Shape, Ordered
  <1>4. S[none] = {} BY <1>1 DEF Shape, Below
  <1> QED BY <1>2, <1>3, <1>4 DEF Family, Half, Split

(* Heights grow from a level to its parent. *)
LEMMA ChildLower ==
    ASSUME NEW t, NEW S, Shape(t, S), Only(t, none), NEW c \in Used(t), NEW d \in Dirs,
           NEW k, k = t.child[d][c], k # none
    PROVE  t.height[k] < t.height[c]
  <1>1. t \in TreeType /\ c \in LevelIndex /\ k \in LevelIndex
    BY SubFacts DEF Shape
  <1>2. HeightOK(t, c) /\ height(t, k) = t.height[k] BY Basics DEF Only, height, Used
  <1>3. PICK l, r : l = height(t, t.child["left"][c]) /\ r = height(t, t.child["right"][c]) OBVIOUS
  <1>4. Even(t.height[c], l, r) /\ (t.height[k] = l \/ t.height[k] = r)
    BY <1>2, <1>3 DEF HeightOK, Dirs
  <1>5. l \in Nat /\ r \in Nat
    <2>1. t.child["left"][c] \in Slot /\ t.child["right"][c] \in Slot BY <1>1, Fields DEF Dirs
    <2> QED BY <1>1, <1>3, <2>1, HeightIs
  <1> QED BY ONLY <1>4, <1>5 DEF Even

(* Nothing has been written before the walk. *)
LEMMA NoneOut == Len(<<>>) = 0 /\ Range(<<>>) = {} /\ <<>> \in Seq(Nat)
  BY DEF Range

(* The invariant after a step of any call but depth() *)
Quiet(R) ==
    /\ out = <<>> /\ side \in Sides /\ size \in Nat /\ at \in Slot
    /\ pc \in {"idle", "find", "get", "descend", "rebalance", "successor"}
    /\ pc \in {"find", "get", "descend", "successor"} => asked \in Prices
    /\ pc # "descend" => fresh = none
    /\ pc \in {"find", "get"} => Searching(tree, R)
    /\ pc = "descend" => Descending(tree, R)
    /\ pc = "rebalance" => at \in R[tree.root[side]]
    /\ pc = "successor" => Succeeding(tree, R)
Data(t, ix, n, w, R) ==
    /\ Forest(t, R, n) /\ Indexed(t, ix, R) /\ Pool(t) /\ ix \in [Sides -> [Prices -> Slot]]
    /\ \E b : Heights(t, w, b)

(* It holds after a step that establishes its parts. *)
LEMMA QuietStep ==
    ASSUME NEW R, NEW w, Data(tree', index', fresh', w, R), Quiet(R)',
           w = IF pc' = "rebalance" THEN at' ELSE none
    PROVE  TreeInv'
  <1>1. CallInv(tree, R)'
    BY NoneOut DEF Quiet, CallInv
  <1>2. Known(R)' BY <1>1 DEF Known, Data
  <1> QED BY <1>2 DEF TreeInv, Data

(* What is known when a step begins. *)
LEMMA Begin ==
    ASSUME TreeInv
    PROVE  \E S, w : /\ Data(tree, index, fresh, w, S) /\ CallInv(tree, S)
                     /\ w = IF pc = "rebalance" THEN at ELSE none
                     /\ pc # "rebalance" => Only(tree, none)
  <1>1. PICK S : Known(S) BY DEF TreeInv
  <1>2. PICK b : Heights(tree, IF pc = "rebalance" THEN at ELSE none, b) BY DEF TreeInv
  <1>3. PICK w : w = IF pc = "rebalance" THEN at ELSE none OBVIOUS
  <1>4. Data(tree, index, fresh, w, S) BY <1>1, <1>2, <1>3 DEF TreeInv, Known, Data
  <1>5. pc # "rebalance" => Only(tree, none) BY <1>2, AllEven
  <1> QED BY <1>1, <1>3, <1>4, <1>5 DEF Known

(* A book begins with two empty trees and the whole pool free. *)
LEMMA InitInv == Init => TreeInv
  <1> SUFFICES ASSUME Init PROVE TreeInv OBVIOUS
  <1>1. /\ none \in Slot /\ none \notin LevelIndex /\ MaxLevels \in Nat \ {0}
    BY Basics, TreeAssumption
  <1>2. tree \in TreeType
    <2>1. [c \in 1 .. MaxLevels |-> c - 1] \in Seq(LevelIndex)
      BY <1>1 DEF LevelIndex
    <2> QED BY <1>1, <2>1 DEF Init, TreeType, Dirs, LevelIndex
  <1>3. Used(tree) = {} BY DEF Init, Used
  <1>4. PICK S : S = [k \in Slot |-> {}] OBVIOUS
  <1>5. tree.root = [s \in Sides |-> none] /\ \A s \in Sides : S[tree.root[s]] = {}
    BY <1>1, <1>4 DEF Init
  <1>6. Below(tree, S) /\ Linked(tree) /\ Ordered(tree, S) /\ Nested(tree, S)
    BY <1>1, <1>3, <1>4 DEF Below, Linked, Ordered, Nested
  <1>7. Rooted(tree, S, none) BY <1>3, <1>5 DEF Rooted, Sides
  <1>8. Convex(tree, S) BY <1>5 DEF Convex
  <1>9. index \in [Sides -> [Prices -> Slot]] /\ Indexed(tree, index, S)
    BY <1>1, <1>5 DEF Init, Indexed
  <1>10. Pool(tree)
    <2>1. tree.free_level = [c \in 1 .. MaxLevels |-> c - 1] /\ tree.active_levels = 0
      BY DEF Init
    <2>2. DOMAIN tree.free_level = 1 .. MaxLevels BY <2>1
    <2>3. IsInjective(tree.free_level)
      BY <1>1, <2>1 DEF IsInjective
    <2>4. ASSUME NEW k PROVE k \in Range(tree.free_level) <=> k \in LevelIndex
      <3>1. ASSUME k \in LevelIndex PROVE k \in Range(tree.free_level)
        <4>1. k + 1 \in 1 .. MaxLevels /\ (k + 1) - 1 = k BY <1>1, <3>1 DEF LevelIndex
        <4>2. tree.free_level[k + 1] = k BY <2>1, <4>1
        <4> QED BY <2>2, <4>1, <4>2 DEF Range
      <3>2. ASSUME k \in Range(tree.free_level) PROVE k \in LevelIndex
        <4>1. PICK c \in 1 .. MaxLevels : k = c - 1 BY <2>1, <3>2 DEF Range
        <4> QED BY <1>1, <4>1 DEF LevelIndex
      <3> QED BY <3>1, <3>2
    <2>5. Cardinality(Used(tree)) = 0 BY <1>3, FS_EmptySet
    <2> QED BY <1>3, <2>1, <2>3, <2>4, <2>5 DEF Pool
  <1>11. Heights(tree, none, 0) BY <1>3 DEF Heights
  <1>12. CallInv(tree, S)
    BY <1>1, NoneOut DEF Init, CallInv, Sides
  <1>13. pc # "rebalance" /\ fresh = none BY DEF Init
  <1> QED BY <1>2, <1>6, <1>7, <1>8, <1>9, <1>10, <1>11, <1>12, <1>13 DEF TreeInv, Known, Forest

(* level_find() begins at the root. *)
LEMMA FindStep ==
    ASSUME TreeInv, NEW s \in Sides, NEW p \in Prices, NEW place \in {"find", "get"},
           level_find(s, p, place)
    PROVE  TreeInv'
  <1>1. PICK S, w : /\ Data(tree, index, fresh, w, S) /\ CallInv(tree, S)
                    /\ w = IF pc = "rebalance" THEN at ELSE none
    BY Begin
  <1>2. /\ pc = "idle" /\ pc' = place /\ at' = tree.root[s] /\ side' = s /\ asked' = p
        /\ tree' = tree /\ index' = index /\ fresh' = fresh /\ size' = size /\ out' = out
    BY DEF level_find, Call, Goto
  <1>3. w = none /\ fresh = none /\ out = <<>> /\ size \in Nat BY <1>1, <1>2 DEF CallInv
  <1>4. Forest(tree, S, none) BY <1>1, <1>3 DEF Data
  <1>5. tree.root[s] \in Slot BY <1>4, Fields DEF Forest
  <1>6. tree.root[s] # none => tree.root[s] \in S[tree.root[s]]
    BY <1>4 DEF Forest, Rooted, Below
  <1>7. Searching(tree, S)' BY <1>2, <1>6 DEF Searching
  <1>8. Quiet(S)' BY <1>2, <1>3, <1>5, <1>7 DEF Quiet
  <1>9. Data(tree', index', fresh', w, S) BY <1>1, <1>2
  <1> QED BY <1>2, <1>3, <1>8, <1>9, QuietStep

(* The level searched for is below the one that level_find() comes to. *)
LEMMA FindNextStep ==
    ASSUME TreeInv, FindNext
    PROVE  TreeInv' /\ (at' # none => tree.height[at'] < tree.height[at])
  <1>1. PICK S, w : /\ Data(tree, index, fresh, w, S) /\ CallInv(tree, S)
                    /\ w = IF pc = "rebalance" THEN at ELSE none
                    /\ pc # "rebalance" => Only(tree, none)
    BY Begin
  <1>2. /\ pc \in {"find", "get"} /\ pc' = pc /\ at' = toward(tree, at, asked)
        /\ at # none /\ tree.price[at] # asked
        /\ side' = side /\ asked' = asked /\ size' = size /\ out' = out
        /\ tree' = tree /\ index' = index /\ fresh' = fresh
    BY DEF FindNext, Found, Goto, SameCall
  <1>3. /\ w = none /\ fresh = none /\ out = <<>> /\ size \in Nat /\ side \in Sides
        /\ asked \in Prices /\ Only(tree, none) /\ Searching(tree, S)
    BY <1>1, <1>2 DEF CallInv
  <1>4. Forest(tree, S, none) /\ at \in S[tree.root[side]] BY <1>1, <1>2, <1>3 DEF Data, Searching
  <1>5. PICK d \in Dirs : d = IF asked < tree.price[at] THEN "left" ELSE "right" BY DEF Dirs
  <1>6. PICK o : o = tree.child[other(d)][at] OBVIOUS
  <1>7. at' = tree.child[d][at] BY <1>2, <1>5 DEF toward
  <1>8. Split(tree, S, at, at', o, d) BY <1>3, <1>4, <1>6, <1>7, SplitFacts
  <1>9. S[at] \subseteq S[tree.root[side]] BY <1>3, <1>4, RootFacts
  <1>10. ASSUME NEW j \in S[tree.root[side]], tree.price[j] = asked PROVE j \in S[at']
    <2>1. j \in S[at] /\ j # at BY <1>2, <1>3, <1>10 DEF Searching
    <2>2. tree.price[at] \in Nat /\ asked \in Nat BY <1>3, <1>4, PriceNat, Basics
    <2>3. ASSUME j \in S[o] PROVE FALSE
      <3>1. before(other(d), asked, tree.price[at]) BY <1>8, <1>10, <2>3 DEF Split
      <3> QED BY <1>2, <1>5, <2>2, <3>1 DEF before, other
    <2> QED BY <1>8, <2>1, <2>3 DEF Split
  <1>11. at' # none => at' \in S[tree.root[side]] BY <1>8, <1>9 DEF Split
  <1>12. Searching(tree, S)' BY <1>2, <1>10, <1>11 DEF Searching
  <1>13. at' \in Slot BY <1>8 DEF Split
  <1>14. Quiet(S)' BY <1>2, <1>3, <1>12, <1>13 DEF Quiet
  <1>15. Data(tree', index', fresh', w, S) BY <1>1, <1>2
  <1>16. TreeInv' BY <1>2, <1>3, <1>14, <1>15, QuietStep
  <1>17. at' # none => tree.height[at'] < tree.height[at]
    <2>1. Shape(tree, S) /\ at \in Used(tree) BY <1>3, <1>4, RootFacts
    <2> QED BY <1>3, <1>7, <2>1, ChildLower
  <1> QED BY <1>16, <1>17

(* A call that returns leaves the tree as it is. *)
LEMMA FindReturnStep ==
    ASSUME TreeInv, FindReturn
    PROVE  TreeInv'
  <1>1. PICK S, w : /\ Data(tree, index, fresh, w, S) /\ CallInv(tree, S)
                    /\ w = IF pc = "rebalance" THEN at ELSE none
    BY Begin
  <1>2. /\ pc \in {"find", "get"} /\ pc' = "idle" /\ at' = none
        /\ side' = side /\ size' = size /\ out' = out
        /\ tree' = tree /\ index' = index /\ fresh' = fresh
    BY DEF FindReturn, Goto, SameCall
  <1>3. w = none /\ fresh = none /\ out = <<>> /\ size \in Nat /\ side \in Sides
    BY <1>1, <1>2 DEF CallInv
  <1>4. Quiet(S)' BY <1>2, <1>3, Basics DEF Quiet
  <1>5. Data(tree', index', fresh', w, S) BY <1>1, <1>2
  <1> QED BY <1>2, <1>3, <1>4, <1>5, QuietStep

(* A new level is entered for its price. *)
Entered(ix, jx, s, p, c) == jx = [ix EXCEPT ![s][p] = c]
Joined(t, S, u, R, s, c) ==
    /\ Widened(t, S, u, R, s, c)
    /\ \A r \in Sides : \A j \in S[t.root[r]] : j # none /\ u.price[j] = t.price[j]

(* The index knows the new level and all others. *)
LEMMA IndexAdd ==
    ASSUME NEW t, NEW ix \in [Sides -> [Prices -> Slot]], NEW S, Indexed(t, ix, S),
           NEW s \in Sides, NEW p \in Prices, ix[s][p] = none, NEW c \in LevelIndex,
           NEW u, NEW R, NEW jx, Entered(ix, jx, s, p, c), u.price[c] = p, Joined(t, S, u, R, s, c)
    PROVE  Indexed(u, jx, R) /\ jx \in [Sides -> [Prices -> Slot]]
  <1>1. jx \in [Sides -> [Prices -> Slot]] BY Basics DEF Entered
  <1>2. \A r \in Sides, q \in Prices : jx[r][q] = IF r = s /\ q = p THEN c ELSE ix[r][q]
    BY DEF Entered
  <1>3. c # none BY Basics
  <1>4. ASSUME NEW r \in Sides, NEW j \in R[u.root[r]]
        PROVE  u.price[j] \in Prices /\ jx[r][u.price[j]] = j
    <2>1. CASE j \in S[t.root[r]]
      <3>1. u.price[j] \in Prices /\ ix[r][u.price[j]] = j BY <2>1 DEF Indexed, Joined, Widened
      <3>2. ~(r = s /\ u.price[j] = p) BY <2>1, <3>1 DEF Joined, Widened
      <3> QED BY <1>2, <3>1, <3>2
    <2>2. CASE r = s /\ j = c BY <1>2, <2>2
    <2> QED BY <1>4, <2>1, <2>2, ZenonT(40) DEF Joined, Widened
  <1>5. ASSUME NEW r \in Sides, NEW q \in Prices, jx[r][q] # none
        PROVE  jx[r][q] \in R[u.root[r]] /\ u.price[jx[r][q]] = q
    <2>1. CASE r = s /\ q = p BY <1>2, <2>1 DEF Joined, Widened
    <2>2. CASE ~(r = s /\ q = p)
      <3>1. PICK x : x = ix[r][q] OBVIOUS
      <3>2. jx[r][q] = x /\ x # none BY <1>2, <1>5, <2>2, <3>1
      <3>3. x \in S[t.root[r]] /\ t.price[x] = q BY <3>1, <3>2 DEF Indexed
      <3> QED BY <3>2, <3>3 DEF Joined, Widened
    <2> QED BY <2>1, <2>2
  <1> QED BY <1>1, <1>4, <1>5 DEF Indexed

(* level_acquire() within level_get_or_add() *)
LEMMA AcquireStep ==
    ASSUME TreeInv, Acquire
    PROVE  TreeInv'
  <1>1. PICK S, w : /\ Data(tree, index, fresh, w, S) /\ CallInv(tree, S)
                    /\ w = IF pc = "rebalance" THEN at ELSE none
                    /\ pc # "rebalance" => Only(tree, none)
    BY Begin
  <1>2. /\ pc = "get" /\ at = none /\ tree.free_level # <<>>
        /\ side' = side /\ asked' = asked /\ size' = size /\ out' = out
    BY DEF Acquire, SameCall
  <1>3. /\ w = none /\ fresh = none /\ out = <<>> /\ size \in Nat /\ side \in Sides
        /\ asked \in Prices /\ asked \in Nat /\ Only(tree, none) /\ Searching(tree, S)
    BY <1>1, <1>2, Basics DEF CallInv
  <1>4. /\ Forest(tree, S, none) /\ Indexed(tree, index, S) /\ Pool(tree) /\ tree \in TreeType
        /\ index \in [Sides -> [Prices -> Slot]]
    BY <1>1, <1>3 DEF Data, Forest
  <1>5. PICK c : c = Head(tree.free_level) OBVIOUS
  <1>6. PICK u : u = level_acquire(tree, asked) OBVIOUS
  <1>7. Acquired(tree, u, c, asked) /\ Pool(u) BY <1>2, <1>3, <1>4, <1>5, <1>6, AcquireFacts
  <1>8. PICK R : R = [S EXCEPT ![c] = {c}] OBVIOUS
  <1>9. Forest(u, R, c) /\ SameSides(tree, S, u, R) /\ Only(u, none)
    BY <1>3, <1>4, <1>7, <1>8, AcquireForest
  <1>10. /\ c \in LevelIndex /\ u.price[c] = asked /\ Loose(u, c) /\ c \notin Used(tree)
         /\ u.root = tree.root /\ u \in TreeType
    BY <1>7 DEF Acquired
  <1>11. S[none] = {} BY <1>4 DEF Forest, Below
  <1>12. index[side][asked] = none
    BY <1>2, <1>3, <1>4, <1>11 DEF Searching, Indexed
  <1>13. \A r \in Sides : \A j \in S[tree.root[r]] : j # none /\ u.price[j] = tree.price[j]
    <2> SUFFICES ASSUME NEW r \in Sides, NEW j \in S[tree.root[r]]
                 PROVE  j # none /\ u.price[j] = tree.price[j]
      OBVIOUS
    <2>1. j \in Used(tree) /\ j \in LevelIndex BY <1>4, RootFacts
    <2>2. j # c /\ j # none BY <1>10, <2>1, Basics
    <2> QED BY <1>7, <2>1, <2>2 DEF Acquired
  <1>14. CASE u.root[side] = none
    <2>1. /\ Planted(u, tree', side, c) /\ Entered(index, index', side, asked, c)
          /\ pc' = "idle" /\ at' = none /\ fresh' = fresh
      BY <1>5, <1>6, <1>14 DEF Acquire, Goto, Planted, Entered
    <2>2. /\ Forest(tree', R, none) /\ Only(tree', none) /\ SameRest(u, tree')
          /\ Alone(u, R, tree', side, c)
      BY <1>3, <1>9, <1>10, <1>14, <2>1, PlantForest
    <2>3. \A r \in Sides : R[tree'.root[r]] = IF r = side THEN S[tree.root[r]] \cup {c} ELSE S[tree.root[r]]
      BY <1>9, <1>10, <1>11, <1>14, <2>2 DEF SameSides, Alone
    <2>4. tree'.price = u.price /\ Pool(tree') BY <1>7, <2>2 DEF SameRest, Pool, Used
    <2>9. Joined(tree, S, tree', R, side, c) BY <1>13, <2>3, <2>4 DEF Joined, Widened
    <2>5. Indexed(tree', index', R) /\ index' \in [Sides -> [Prices -> Slot]]
      BY <1>3, <1>4, <1>10, <1>12, <2>1, <2>4, <2>9, IndexAdd
    <2>6. \E b : Heights(tree', none, b) BY <2>2, OnlyHeights DEF Forest
    <2>7. Data(tree', index', fresh', none, R) BY <1>3, <2>1, <2>2, <2>4, <2>5, <2>6 DEF Data
    <2>8. Quiet(R)' BY <1>2, <1>3, <2>1, Basics DEF Quiet
    <2> QED BY <2>1, <2>7, <2>8, QuietStep
  <1>15. CASE u.root[side] # none
    <2>1. /\ tree' = u /\ index' = index /\ pc' = "descend" /\ at' = u.root[side] /\ fresh' = c
      BY <1>5, <1>6, <1>15 DEF Acquire, Goto
    <2>2. Indexed(tree', index', R)
      BY <1>4, <1>9, <1>13, <2>1 DEF Indexed, SameSides
    <2>3. \E b : Heights(tree', none, b) BY <1>9, <1>10, <2>1, OnlyHeights
    <2>4. Data(tree', index', fresh', none, R) BY <1>4, <1>7, <1>9, <2>1, <2>2, <2>3 DEF Data
    <2>5. u.root[side] \in Slot /\ u.root[side] \in R[u.root[side]]
      BY <1>3, <1>9, <1>10, <1>15, Fields DEF Forest, Rooted, Below
    <2>6. Descending(tree, R)'
      BY <1>2, <1>10, <1>12, <2>1, <2>5 DEF Descending, Loose
    <2>7. Quiet(R)' BY <1>2, <1>3, <2>1, <2>5, <2>6 DEF Quiet
    <2> QED BY <2>1, <2>4, <2>7, QuietStep
  <1> QED BY <1>14, <1>15

(* The place for the new level is below the one that the descent comes to. *)
LEMMA DescendStep ==
    ASSUME TreeInv, Descend
    PROVE  TreeInv' /\ tree.height[at'] < tree.height[at]
  <1>1. PICK S, w : /\ Data(tree, index, fresh, w, S) /\ CallInv(tree, S)
                    /\ w = IF pc = "rebalance" THEN at ELSE none
                    /\ pc # "rebalance" => Only(tree, none)
    BY Begin
  <1>2. /\ pc = "descend" /\ pc' = pc /\ at' = toward(tree, at, asked) /\ at' # none
        /\ side' = side /\ asked' = asked /\ size' = size /\ out' = out
        /\ tree' = tree /\ index' = index /\ fresh' = fresh
    BY DEF Descend, Goto, SameCall
  <1>3. /\ w = none /\ out = <<>> /\ size \in Nat /\ side \in Sides
        /\ asked \in Prices /\ asked \in Nat /\ Only(tree, none) /\ Descending(tree, S)
    BY <1>1, <1>2, Basics DEF CallInv
  <1>4. /\ Forest(tree, S, fresh) /\ at \in S[tree.root[side]] /\ Distinct(tree, S[tree.root[side]])
    BY <1>1, <1>3, DistinctPrices DEF Data, Descending
  <1>5. PICK d \in Dirs : d = IF asked < tree.price[at] THEN "left" ELSE "right" BY DEF Dirs
  <1>6. PICK o : o = tree.child[other(d)][at] OBVIOUS
  <1>7. at' = tree.child[d][at] BY <1>2, <1>5 DEF toward
  <1>8. PICK k : k = at' OBVIOUS
  <1>9. Split(tree, S, at, k, o, d) BY <1>3, <1>4, <1>6, <1>7, <1>8, SplitFacts
  <1>10. S[at] \subseteq S[tree.root[side]] BY <1>3, <1>4, RootFacts
  <1>11. k \in S[k] /\ k \in S[at] /\ k \in S[tree.root[side]] /\ at \in S[at] /\ k \in Slot
    BY <1>2, <1>8, <1>9, <1>10 DEF Split
  <1>12. ASSUME NEW j \in S[tree.root[side]] \ S[k]
         PROVE  asked < tree.price[j] <=> tree.price[k] < tree.price[j]
    <2>1. /\ tree.price[j] \in Nat /\ tree.price[k] \in Nat /\ tree.price[at] \in Nat
      BY <1>3, <1>4, <1>11, PriceNat
    <2>2. before(d, tree.price[k], tree.price[at]) BY <1>9, <1>11 DEF Split
    <2>3. CASE j = at
      BY <1>3, <1>5, <2>1, <2>2, <2>3 DEF before
    <2>4. CASE j \in S[o]
      <3>1. before(other(d), tree.price[j], tree.price[at]) BY <1>9, <2>4 DEF Split
      <3> QED BY <1>3, <1>5, <2>1, <2>2, <3>1 DEF before, other
    <2>5. CASE j \notin S[at]
      <3>1. asked < tree.price[j] <=> tree.price[at] < tree.price[j]
        BY <1>3, <2>5 DEF Descending
      <3>2. /\ ~(tree.price[at] < tree.price[j] /\ tree.price[j] < tree.price[k])
            /\ ~(tree.price[k] < tree.price[j] /\ tree.price[j] < tree.price[at])
        BY <1>3, <1>4, <1>11, <2>5 DEF Forest, Convex
      <3>3. tree.price[j] # tree.price[k] /\ tree.price[j] # tree.price[at]
        BY <1>4, <1>11, <2>5 DEF Distinct
      <3> QED BY ONLY <2>1, <3>1, <3>2, <3>3
    <2> QED BY <1>9, <1>12, <2>3, <2>4, <2>5 DEF Split
  <1>13. Descending(tree, S)' BY <1>2, <1>3, <1>8, <1>11, <1>12 DEF Descending
  <1>14. Quiet(S)' BY <1>2, <1>3, <1>8, <1>11, <1>13 DEF Quiet
  <1>15. Data(tree', index', fresh', w, S) BY <1>1, <1>2
  <1>16. TreeInv' BY <1>2, <1>3, <1>14, <1>15, QuietStep
  <1>17. tree.height[at'] < tree.height[at]
    <2>1. Shape(tree, S) /\ at \in Used(tree) BY <1>3, <1>4, RootFacts
    <2> QED BY <1>2, <1>3, <1>7, <2>1, ChildLower
  <1> QED BY <1>16, <1>17

(* The new level becomes a leaf at the place that the descent has found. *)
LEMMA AttachStep ==
    ASSUME TreeInv, Attach
    PROVE  TreeInv'
  <1>1. PICK S, w : /\ Data(tree, index, fresh, w, S) /\ CallInv(tree, S)
                    /\ w = IF pc = "rebalance" THEN at ELSE none
                    /\ pc # "rebalance" => Only(tree, none)
    BY Begin
  <1>2. PICK d \in Dirs : d = IF asked < tree.price[at] THEN "left" ELSE "right" BY DEF Dirs
  <1>3. /\ pc = "descend" /\ pc' = "rebalance" /\ at' = at /\ fresh' = none
        /\ tree.child[d][at] = none
        /\ tree' = set_child(set_parent(tree, fresh, at), d, at, fresh)
        /\ Entered(index, index', side, asked, fresh)
        /\ side' = side /\ asked' = asked /\ size' = size /\ out' = out
    BY <1>2 DEF Attach, Goto, SameCall, Entered, toward
  <1>4. /\ w = none /\ out = <<>> /\ size \in Nat /\ side \in Sides
        /\ asked \in Prices /\ asked \in Nat /\ Only(tree, none) /\ Descending(tree, S)
    BY <1>1, <1>3, Basics DEF CallInv
  <1>5. /\ Forest(tree, S, fresh) /\ Indexed(tree, index, S) /\ Pool(tree) /\ tree \in TreeType
        /\ index \in [Sides -> [Prices -> Slot]]
        /\ at \in S[tree.root[side]] /\ Distinct(tree, S[tree.root[side]])
    BY <1>1, <1>4, DistinctPrices DEF Data, Descending, Forest
  <1>6. /\ Loose(tree, fresh) /\ fresh \in LevelIndex /\ tree.price[fresh] = asked
        /\ index[side][asked] = none
    BY <1>4 DEF Descending, Loose, Used
  <1>7. Shape(tree, S) /\ at \in Used(tree) /\ at \in LevelIndex /\ at \in Slot
    BY <1>4, <1>5, RootFacts, Basics
  <1>8. \A j \in S[tree.root[side]] : j # none /\ tree.price[j] # asked /\ tree.price[j] \in Nat
    <2> SUFFICES ASSUME NEW j \in S[tree.root[side]]
                 PROVE  j # none /\ tree.price[j] # asked /\ tree.price[j] \in Nat
      OBVIOUS
    <2>1. j \in LevelIndex /\ tree.price[j] \in Nat BY <1>4, <1>5, RootFacts, PriceNat
    <2>2. j # none BY <2>1, Basics
    <2>3. index[side][tree.price[j]] = j BY <1>4, <1>5 DEF Indexed
    <2> QED BY <1>6, <2>1, <2>2, <2>3
  <1>9. before(d, tree.price[fresh], tree.price[at])
    BY <1>2, <1>4, <1>5, <1>6, <1>8 DEF before
  <1>10. Adjacent(tree, S[tree.root[side]], at, tree.price[fresh])
    <2> SUFFICES ASSUME NEW j \in S[tree.root[side]] \ {at}
                 PROVE  /\ asked < tree.price[j] <=> tree.price[at] < tree.price[j]
                        /\ tree.price[j] < asked <=> tree.price[j] < tree.price[at]
      BY <1>6 DEF Adjacent
    <2>1. /\ tree.price[j] \in Nat /\ tree.price[at] \in Nat /\ tree.price[j] # asked
          /\ tree.price[j] # tree.price[at]
      BY <1>5, <1>8 DEF Distinct
    <2>2. PICK o : o = tree.child[other(d)][at] OBVIOUS
    <2>3. PICK k : k = none /\ k = tree.child[d][at] BY <1>3
    <2>4. Split(tree, S, at, k, o, d) BY <1>4, <1>5, <2>2, <2>3, SplitFacts
    <2>5. CASE j \in S[at]
      <3>1. before(other(d), tree.price[j], tree.price[at]) BY <2>3, <2>4, <2>5 DEF Split
      <3> QED BY <1>2, <1>4, <2>1, <3>1 DEF before, other
    <2>6. CASE j \notin S[at]
      <3>1. asked < tree.price[j] <=> tree.price[at] < tree.price[j]
        BY <1>4, <2>6 DEF Descending
      <3> QED BY ONLY <1>4, <2>1, <3>1
    <2> QED BY <2>5, <2>6
  <1>11. Grown(tree, tree', fresh, at, d) BY <1>3, <1>5, <1>6, <1>7, AttachFacts
  <1>12. PICK R : R = With(S, fresh, at) OBVIOUS
  <1>13. Forest(tree', R, none) /\ Widened(tree, S, tree', R, side, fresh)
    BY <1>3, <1>4, <1>5, <1>6, <1>9, <1>10, <1>11, <1>12, GrowForest
  <1>14. tree'.price = tree.price /\ tree' \in TreeType /\ Used(tree') = Used(tree) /\ Pool(tree')
    BY <1>5, <1>11 DEF Grown, SameRest, Used, Pool
  <1>15. Joined(tree, S, tree', R, side, fresh)
    <2>1. \A r \in Sides : \A j \in S[tree.root[r]] : j # none BY <1>5, RootFacts, Basics
    <2> QED BY <1>13, <1>14, <2>1 DEF Joined
  <1>16. Indexed(tree', index', R) /\ index' \in [Sides -> [Prices -> Slot]]
    BY <1>3, <1>4, <1>5, <1>6, <1>14, <1>15, IndexAdd
  <1>17. Only(tree', at) BY <1>3, <1>4, <1>6, <1>7, <1>11, GrowHeights
  <1>18. \E b : Heights(tree', at, b) BY <1>7, <1>14, <1>17, OnlyHeights
  <1>19. Data(tree', index', fresh', at, R) BY <1>3, <1>13, <1>14, <1>16, <1>18 DEF Data
  <1>20. at \in R[tree'.root[side]] BY <1>4, <1>5, <1>13 DEF Widened
  <1>21. Quiet(R)' BY <1>3, <1>4, <1>7, <1>20 DEF Quiet
  <1> QED BY <1>3, <1>19, <1>21, QuietStep

(* One iteration of rebalance_up() *)
LEMMA RebalanceStep ==
    ASSUME TreeInv, Rebalance
    PROVE  TreeInv' /\ (at' # none => tree.height[at'] > tree.height[at])
  <1>1. PICK S, w : /\ Data(tree, index, fresh, w, S) /\ CallInv(tree, S)
                    /\ w = IF pc = "rebalance" THEN at ELSE none
    BY Begin
  <1>2. PICK t : t = update(tree, at) OBVIOUS
  <1>3. PICK u : u = restore(t, side, at) OBVIOUS
  <1>4. PICK tp : tp = top(t, u, at) OBVIOUS
  <1>5. PICK q : q = u.parent[tp] OBVIOUS
  <1>6. /\ pc = "rebalance" /\ tree' = u /\ at' = q
        /\ pc' = IF q = none THEN "idle" ELSE "rebalance"
        /\ side' = side /\ size' = size /\ out' = out /\ index' = index /\ fresh' = fresh
    BY <1>2, <1>3, <1>4, <1>5 DEF Rebalance, rebalance_up, Climbs, Goto, SameCall
  <1>7. /\ w = at /\ out = <<>> /\ size \in Nat /\ side \in Sides /\ fresh = none
        /\ at \in S[tree.root[side]]
    BY <1>1, <1>6 DEF CallInv
  <1>8. /\ Forest(tree, S, none) /\ Indexed(tree, index, S) /\ Pool(tree)
        /\ index \in [Sides -> [Prices -> Slot]]
    BY <1>1, <1>7 DEF Data
  <1>9. PICK b : Heights(tree, at, b) BY <1>1, <1>7 DEF Data
  <1>10. /\ Kept(tree, S, u, none) /\ SameRest(tree, u) /\ q = tree.parent[at]
         /\ \E h : Heights(u, q, h)
         /\ q # none => tree.height[q] > tree.height[at]
    BY <1>2, <1>3, <1>4, <1>5, <1>7, <1>8, <1>9, RebalanceFacts
  <1>11. PICK R : Forest(u, R, none) /\ SameSides(tree, S, u, R) BY <1>10 DEF Kept
  <1>12. Indexed(u, index, R) /\ Pool(u)
    BY <1>8, <1>10, <1>11 DEF SameRest, SameSides, Indexed, Pool, Used
  <1>13. Data(tree', index', fresh', q, R) BY <1>6, <1>7, <1>8, <1>10, <1>11, <1>12 DEF Data
  <1>14. q # none => q \in S[tree.root[side]] /\ q \in Slot
    BY <1>7, <1>8, <1>10, RootFacts, Basics
  <1>15. q # none => q \in R[u.root[side]] BY <1>7, <1>11, <1>14 DEF SameSides
  <1>16. Quiet(R)' BY <1>6, <1>7, <1>14, <1>15, Basics DEF Quiet
  <1>17. TreeInv' BY <1>6, <1>13, <1>16, QuietStep
  <1> QED BY <1>6, <1>10, <1>17

(* A level that goes leaves the index with its price. *)
Narrowed(t, S, u, R, z) == \A r \in Sides : R[u.root[r]] = S[t.root[r]] \ {z}

(* The index knows all other levels. *)
LEMMA IndexDrop ==
    ASSUME NEW t, NEW ix \in [Sides -> [Prices -> Slot]], NEW S, Indexed(t, ix, S),
           NEW s \in Sides, NEW p \in Prices, NEW z, z = ix[s][p], z # none,
           NEW u, NEW n, Forest(t, S, n), NEW R, NEW jx, Entered(ix, jx, s, p, none),
           Narrowed(t, S, u, R, z), Returned(t, u, z)
    PROVE  Indexed(u, jx, R) /\ jx \in [Sides -> [Prices -> Slot]]
  <1>1. jx \in [Sides -> [Prices -> Slot]] BY Basics DEF Entered
  <1>2. \A r \in Sides, q \in Prices : jx[r][q] = IF r = s /\ q = p THEN none ELSE ix[r][q]
    BY DEF Entered
  <1>3. z \in S[t.root[s]] /\ t.price[z] = p BY DEF Indexed
  <1>4. \A r \in Sides : z \in S[t.root[r]] => r = s BY <1>3 DEF Forest, Rooted, Sides
  <1>5. \A r \in Sides : \A j \in S[t.root[r]] \ {z} : u.price[j] = t.price[j]
    <2> SUFFICES ASSUME NEW r \in Sides, NEW j \in S[t.root[r]] \ {z} PROVE u.price[j] = t.price[j]
      OBVIOUS
    <2>1. j \in Used(t) BY RootFacts
    <2> QED BY <2>1 DEF Returned
  <1>6. ASSUME NEW r \in Sides, NEW j \in R[u.root[r]]
        PROVE  u.price[j] \in Prices /\ jx[r][u.price[j]] = j
    <2>1. j \in S[t.root[r]] /\ j # z /\ u.price[j] = t.price[j] BY <1>5, <1>6 DEF Narrowed
    <2>2. t.price[j] \in Prices /\ ix[r][t.price[j]] = j BY <2>1 DEF Indexed
    <2> QED BY <1>2, <2>1, <2>2
  <1>7. ASSUME NEW r \in Sides, NEW q \in Prices, jx[r][q] # none
        PROVE  jx[r][q] \in R[u.root[r]] /\ u.price[jx[r][q]] = q
    <2>1. PICK x : x = ix[r][q] OBVIOUS
    <2>2. jx[r][q] = x /\ x # none /\ ~(r = s /\ q = p) BY <1>2, <1>7, <2>1
    <2>3. x \in S[t.root[r]] /\ t.price[x] = q BY <2>1, <2>2 DEF Indexed
    <2>4. x # z BY <1>3, <1>4, <2>2, <2>3
    <2> QED BY <1>5, <2>2, <2>3, <2>4 DEF Narrowed
  <1> QED BY <1>1, <1>6, <1>7 DEF Indexed

(* What a level that goes leaves behind *)
LEMMA DropStep ==
    ASSUME NEW S, Forest(tree, S, none), Indexed(tree, index, S), Pool(tree),
           index \in [Sides -> [Prices -> Slot]], NEW s \in Sides, NEW p \in Prices,
           NEW z, z = index[s][p], z # none, NEW t, NEW q, Drop(t, z, q), side' = s, asked' = p,
           Removed(tree, S, tree', z), Returned(tree, tree', z), Repairable(tree', q),
           q # none => q \in S[tree.root[s]] \ {z},
           fresh = none, out = <<>>, size \in Nat
    PROVE  TreeInv'
  <1>1. /\ Entered(index, index', s, p, none) /\ at' = q
        /\ pc' = IF q = none THEN "idle" ELSE "rebalance"
        /\ fresh' = fresh /\ size' = size /\ out' = out
    BY DEF Drop, Climbs, Goto, Entered
  <1>2. PICK R : Forest(tree', R, none) /\ Narrowed(tree, S, tree', R, z)
    BY DEF Removed, Narrowed
  <1>3. z \in S[tree.root[s]] BY DEF Indexed
  <1>4. z \in Used(tree) /\ tree \in TreeType BY <1>3, RootFacts DEF Forest
  <1>5. Indexed(tree', index', R) /\ index' \in [Sides -> [Prices -> Slot]]
    BY <1>1, <1>2, IndexDrop
  <1>6. Pool(tree') BY <1>4, ReturnPool
  <1>7. Data(tree', index', fresh', q, R) BY <1>1, <1>2, <1>5, <1>6 DEF Data, Repairable
  <1>8. q # none => q \in Slot BY RootFacts, Basics
  <1>9. Quiet(R)' BY <1>1, <1>2, <1>8, Basics DEF Quiet, Narrowed
  <1> QED BY <1>1, <1>7, <1>9, QuietStep

(* level_remove() of a level with one child at most, or its search for the *)
(* successor                                                               *)
LEMMA RemoveStep ==
    ASSUME TreeInv, NEW s \in Sides, NEW p \in Prices, level_remove(s, p)
    PROVE  TreeInv'
  <1>1. PICK S, w : /\ Data(tree, index, fresh, w, S) /\ CallInv(tree, S)
                    /\ w = IF pc = "rebalance" THEN at ELSE none
                    /\ pc # "rebalance" => Only(tree, none)
    BY Begin
  <1>2. PICK z : z = index[s][p] OBVIOUS
  <1>3. PICK l : l = tree.child["left"][z] OBVIOUS
  <1>4. PICK r : r = tree.child["right"][z] OBVIOUS
  <1>5. pc = "idle" /\ side' = s /\ asked' = p /\ z # none BY <1>2 DEF level_remove, Call
  <1>6. /\ w = none /\ fresh = none /\ out = <<>> /\ size \in Nat /\ Only(tree, none)
    BY <1>1, <1>5 DEF CallInv
  <1>7. /\ Forest(tree, S, none) /\ Indexed(tree, index, S) /\ Pool(tree)
        /\ index \in [Sides -> [Prices -> Slot]] /\ z \in S[tree.root[s]]
    BY <1>1, <1>2, <1>5, <1>6 DEF Data, Indexed
  <1>8. CASE l = none \/ r = none
    <2>1. PICK d \in Dirs : d = IF l = none THEN "right" ELSE "left" BY DEF Dirs
    <2>2. PICK c : c = tree.child[d][z] OBVIOUS
    <2>3. c = (IF l = none THEN r ELSE l) /\ tree.child[other(d)][z] = none
      BY <1>3, <1>4, <1>8, <2>1, <2>2 DEF other
    <2>4. PICK q : q = tree.parent[z] OBVIOUS
    <2>5. PICK t : t = replace_child(tree, s, q, z, c) OBVIOUS
    <2>6. Drop(t, z, q) BY <1>2, <1>3, <1>4, <1>8, <2>3, <2>4, <2>5 DEF level_remove
    <2>7. Cut(tree, tree', s, q, z, c) BY <2>5, <2>6 DEF Drop, Cut
    <2>8. /\ Removed(tree, S, tree', z) /\ Returned(tree, tree', z)
          /\ Repairable(tree', q)
          /\ q # none => q \in S[tree.root[s]] \ {z}
      BY <1>6, <1>7, <2>2, <2>3, <2>4, <2>7, RemoveFacts
    <2> QED BY <1>2, <1>5, <1>6, <1>7, <2>6, <2>8, DropStep
  <1>9. CASE l # none /\ r # none
    <2>1. /\ pc' = "successor" /\ at' = r /\ tree' = tree /\ index' = index /\ fresh' = fresh
          /\ size' = size /\ out' = out
      BY <1>2, <1>3, <1>4, <1>9 DEF level_remove, Goto
    <2>2. "right" \in Dirs BY DEF Dirs
    <2>3. Shape(tree, S) /\ z \in Used(tree) BY <1>7, RootFacts
    <2>4. r \in S[r] /\ r \in Slot BY <1>4, <1>9, <2>2, <2>3, SubFacts
    <2>5. Succeeding(tree, S)' BY <1>2, <1>3, <1>4, <1>5, <1>9, <2>1, <2>4 DEF Succeeding
    <2>6. Quiet(S)' BY <1>5, <1>6, <2>1, <2>4, <2>5 DEF Quiet
    <2>7. Data(tree', index', fresh', w, S) BY <1>1, <2>1
    <2> QED BY <1>6, <2>1, <2>6, <2>7, QuietStep
  <1> QED BY <1>8, <1>9

(* The successor is below the level that the search comes to. *)
LEMMA SuccessorStep ==
    ASSUME TreeInv, Successor
    PROVE  TreeInv' /\ tree.height[at'] < tree.height[at]
  <1>1. PICK S, w : /\ Data(tree, index, fresh, w, S) /\ CallInv(tree, S)
                    /\ w = IF pc = "rebalance" THEN at ELSE none
                    /\ pc # "rebalance" => Only(tree, none)
    BY Begin
  <1>2. PICK k : k = tree.child["left"][at] OBVIOUS
  <1>3. /\ pc = "successor" /\ pc' = pc /\ at' = k /\ k # none
        /\ side' = side /\ asked' = asked /\ size' = size /\ out' = out
        /\ tree' = tree /\ index' = index /\ fresh' = fresh
    BY <1>2 DEF Successor, Goto, SameCall
  <1>4. /\ w = none /\ out = <<>> /\ size \in Nat /\ side \in Sides /\ fresh = none
        /\ asked \in Prices /\ Only(tree, none) /\ Succeeding(tree, S)
    BY <1>1, <1>3 DEF CallInv
  <1>5. PICK z : z = index[side][asked] OBVIOUS
  <1>6. PICK r : r = tree.child["right"][z] OBVIOUS
  <1>7. /\ z # none /\ tree.child["left"][z] # none /\ at \in S[r]
        /\ \A j \in S[r] \ S[at], i \in S[at] : tree.price[i] < tree.price[j]
    BY <1>4, <1>5, <1>6 DEF Succeeding
  <1>8. Forest(tree, S, none) /\ z \in S[tree.root[side]]
    BY <1>1, <1>4, <1>5, <1>7 DEF Data, Indexed
  <1>9. "left" \in Dirs /\ "right" \in Dirs /\ other("left") = "right" /\ other("right") = "left"
    BY DEF Dirs, other
  <1>10. Shape(tree, S) /\ z \in Used(tree) /\ S[z] \subseteq S[tree.root[side]]
    BY <1>4, <1>8, RootFacts
  <1>11. S[r] \subseteq S[z] /\ S[r] \subseteq Used(tree) /\ r \in Slot
    BY <1>6, <1>9, <1>10, SubFacts
  <1>12. at \in S[tree.root[side]] /\ at \in Used(tree) BY <1>7, <1>10, <1>11
  <1>13. S[at] \subseteq S[r]
    <2>1. r # none BY <1>7, <1>10 DEF Shape, Below
    <2>2. r \in Used(tree) BY <1>6, <1>9, <1>10, <2>1, SubFacts
    <2> QED BY <1>7, <1>10, <2>2 DEF Shape, Nested
  <1>14. PICK o : o = tree.child["right"][at] OBVIOUS
  <1>15. Split(tree, S, at, k, o, "left")
    BY <1>2, <1>4, <1>8, <1>9, <1>12, <1>14, SplitFacts
  <1>16. k \in S[k] /\ k \in Slot /\ S[k] \subseteq S[at] BY <1>3, <1>15 DEF Split
  <1>17. ASSUME NEW j \in S[r] \ S[k], NEW i \in S[k] PROVE tree.price[i] < tree.price[j]
    <2>1. CASE j \notin S[at] BY <1>7, <1>16, <1>17, <2>1
    <2>2. CASE j \in S[at]
      <3>1. tree.price[i] < tree.price[at] BY <1>15, <1>17 DEF Split, before
      <3>2. j = at \/ j \in S[o] BY <1>15, <1>17, <2>2 DEF Split
      <3>3. j \in S[o] => tree.price[at] < tree.price[j] BY <1>9, <1>15 DEF Split, before
      <3>4. tree.price[i] \in Nat /\ tree.price[j] \in Nat /\ tree.price[at] \in Nat
        <4>1. i \in Used(tree) /\ j \in Used(tree) BY <1>11, <1>13, <1>16, <1>17
        <4> QED BY <1>10, <1>12, <4>1, Fields DEF Shape, Used
      <3> QED BY ONLY <3>1, <3>2, <3>3, <3>4
    <2> QED BY <2>1, <2>2
  <1>18. Succeeding(tree, S)' BY <1>3, <1>5, <1>6, <1>7, <1>13, <1>16, <1>17 DEF Succeeding
  <1>19. Quiet(S)' BY <1>3, <1>4, <1>16, <1>18 DEF Quiet
  <1>20. Data(tree', index', fresh', w, S) BY <1>1, <1>3
  <1>21. TreeInv' BY <1>3, <1>4, <1>19, <1>20, QuietStep
  <1>22. tree.height[k] < tree.height[at] BY <1>2, <1>3, <1>4, <1>9, <1>10, <1>12, ChildLower
  <1> QED BY <1>3, <1>21, <1>22

(* level_remove() of a level with two children *)
LEMMA SpliceStep ==
    ASSUME TreeInv, Splice
    PROVE  TreeInv'
  <1>1. PICK S, w : /\ Data(tree, index, fresh, w, S) /\ CallInv(tree, S)
                    /\ w = IF pc = "rebalance" THEN at ELSE none
                    /\ pc # "rebalance" => Only(tree, none)
    BY Begin
  <1>2. PICK z : z = index[side][asked] OBVIOUS
  <1>3. PICK y : y = at OBVIOUS
  <1>4. PICK o : o = tree.parent[y] OBVIOUS
  <1>5. PICK q : Resumes(q, z, y, o) BY DEF Resumes
  <1>6. PICK t : t = splice(tree, side, z, y) OBVIOUS
  <1>7. /\ pc = "successor" /\ tree.child["left"][y] = none /\ side' = side /\ asked' = asked
        /\ Drop(t, z, q)
    BY <1>2, <1>3, <1>4, <1>5, <1>6 DEF Splice, Resumes
  <1>8. /\ w = none /\ out = <<>> /\ size \in Nat /\ side \in Sides /\ fresh = none
        /\ asked \in Prices /\ Only(tree, none) /\ Succeeding(tree, S)
    BY <1>1, <1>7 DEF CallInv
  <1>9. PICK lz : lz = tree.child["left"][z] OBVIOUS
  <1>10. PICK rz : rz = tree.child["right"][z] OBVIOUS
  <1>11. PICK ry : ry = tree.child["right"][y] OBVIOUS
  <1>12. PICK pz : pz = tree.parent[z] OBVIOUS
  <1>13. z # none /\ lz # none /\ y \in S[rz] /\ Least(tree, S, y, rz)
    BY <1>2, <1>3, <1>8, <1>9, <1>10 DEF Succeeding, Least
  <1>14. Succ(tree, S, z, y, lz, rz, ry, o, pz)
    BY <1>4, <1>7, <1>9, <1>10, <1>11, <1>12, <1>13 DEF Succ
  <1>15. /\ Forest(tree, S, none) /\ Indexed(tree, index, S) /\ Pool(tree)
         /\ index \in [Sides -> [Prices -> Slot]] /\ z \in S[tree.root[side]]
    BY <1>1, <1>2, <1>8, <1>13 DEF Data, Indexed
  <1>16. Distinct(tree, S[tree.root[side]]) BY <1>8, <1>15, DistinctPrices
  <1>17. Spliced(tree, tree', side, z, y) BY <1>6, <1>7 DEF Drop, Spliced
  <1>18. /\ Removed(tree, S, tree', z) /\ Returned(tree, tree', z)
         /\ Repairable(tree', q) /\ q \in S[tree.root[side]] \ {z}
    BY <1>5, <1>8, <1>13, <1>14, <1>15, <1>16, <1>17, SpliceFacts
  <1> QED BY <1>2, <1>7, <1>8, <1>13, <1>15, <1>18, DropStep
-----------------------------------------------------------------------------
(* Prices of a side are in order, from the better to the worse. *)
LEMMA BetterOrder ==
    ASSUME NEW x \in Nat, NEW y \in Nat, NEW z \in Nat
    PROVE  /\ better(x, y) => ~better(y, x) /\ x # y
           /\ better(x, y) /\ better(y, z) => better(x, z)
           /\ x # y => better(x, y) \/ better(y, x)
  BY DEF better

(* A level and what is better and worse below it *)
Between(t, S, c, g, k) ==
    /\ g \in Slot /\ k \in Slot /\ S[c] = {c} \cup S[g] \cup S[k] /\ S[none] = {} /\ S[g] \cap S[k] = {}
    /\ c \notin S[g] /\ c \notin S[k] /\ (g # none => g \in S[g]) /\ (k # none => k \in S[k])
    /\ \A j \in S[g] : better(t.price[j], t.price[c])
    /\ \A j \in S[k] : better(t.price[c], t.price[j])

(* The same of the levels of a side. *)
LEMMA BetweenFacts ==
    ASSUME NEW t, NEW S, NEW n, Forest(t, S, n), side \in Sides, NEW c \in S[t.root[side]],
           NEW g, g = t.child[better_side][c], NEW k, k = t.child[worse_side][c]
    PROVE  Between(t, S, c, g, k)
  <1>1. PICK d \in Dirs : d = better_side BY DEF better_side, Dirs
  <1>2. PICK e \in Dirs : e = worse_side /\ e = other(d) /\ d = other(e)
    BY <1>1, Basics DEF worse_side
  <1>3. Split(t, S, c, g, k, d) BY <1>1, <1>2, SplitFacts
  <1>4. Split(t, S, c, k, g, e) BY <1>1, <1>2, SplitFacts
  <1>5. \A j \in S[g] : better(t.price[j], t.price[c])
    BY <1>1, <1>3 DEF Split, before, better, better_side, Sides
  <1>6. \A j \in S[k] : better(t.price[c], t.price[j])
    BY <1>1, <1>2, <1>4 DEF Split, before, better, better_side, other, Sides
  <1> QED BY <1>3, <1>4, <1>5, <1>6 DEF Split, Between

(* A level whose price is between two of a subtree is in the subtree. *)
LEMMA BetterConvex ==
    ASSUME NEW t, NEW S, NEW n, Forest(t, S, n), side \in Sides, NEW c \in S[t.root[side]],
           NEW j \in S[t.root[side]], NEW x \in S[c], NEW y \in S[c],
           better(t.price[x], t.price[j]), better(t.price[j], t.price[y])
    PROVE  j \in S[c]
  BY DEF Forest, Convex, better

(* The invariant after a step of depth() *)
Walk(S) ==
    /\ pc \in {"extreme", "write", "climb", "written"}
    /\ side \in Sides /\ size \in Nat /\ at \in Slot /\ out \in Seq(Nat) /\ fresh = none
    /\ Walked(tree, S)
    /\ pc = "extreme" => AtExtreme(tree, S)
    /\ pc = "write" => AtWrite(tree, S)
    /\ pc = "climb" => AtClimb(tree, S)
    /\ pc = "written" /\ Len(out) < size => \A j \in S[tree.root[side]] : Written(tree, j)
    /\ Len(out) <= size
    /\ \A m, n \in 1 .. Len(out) : m < n => better(out[m], out[n])
    /\ Range(out) \subseteq Resting(side)

(* It holds after a step that establishes its parts. *)
LEMMA WalkStep ==
    ASSUME NEW R, Data(tree', index', fresh', none, R), Walk(R)'
    PROVE  TreeInv'
  <1>1. CallInv(tree, R)' BY DEF Walk, CallInv
  <1>2. Known(R)' BY <1>1 DEF Known, Data
  <1>3. pc' # "rebalance" BY DEF Walk
  <1> QED BY <1>2, <1>3 DEF TreeInv, Data

(* What is known while depth() walks *)
LEMMA Walking ==
    ASSUME TreeInv, pc \in {"extreme", "write", "climb", "written"}
    PROVE  \E S : Data(tree, index, fresh, none, S) /\ Walk(S) /\ Only(tree, none)
  <1>1. PICK S, w : /\ Data(tree, index, fresh, w, S) /\ CallInv(tree, S)
                    /\ w = IF pc = "rebalance" THEN at ELSE none
                    /\ pc # "rebalance" => Only(tree, none)
    BY Begin
  <1>2. w = none /\ Walk(S) BY <1>1 DEF CallInv, Walk
  <1> QED BY <1>1, <1>2

(* depth() begins at the root. *)
LEMMA DepthStep ==
    ASSUME TreeInv, NEW s \in Sides, NEW n \in Spans, depth(s, n)
    PROVE  TreeInv'
  <1>1. PICK S, w : /\ Data(tree, index, fresh, w, S) /\ CallInv(tree, S)
                    /\ w = IF pc = "rebalance" THEN at ELSE none
    BY Begin
  <1>2. /\ pc = "idle" /\ at' = tree.root[s] /\ side' = s /\ size' = n
        /\ pc' = IF tree.root[s] = none THEN "written" ELSE "extreme"
        /\ tree' = tree /\ index' = index /\ fresh' = fresh /\ out' = out
    BY DEF depth, Call, Goto
  <1>3. w = none /\ fresh = none /\ out = <<>> /\ n \in Nat
    BY <1>1, <1>2, TreeAssumption DEF CallInv
  <1>4. Forest(tree, S, none) BY <1>1, <1>3 DEF Data
  <1>5. tree.root[s] \in Slot BY <1>4, Fields DEF Forest
  <1>6. /\ tree.root[s] # none => tree.root[s] \in S[tree.root[s]]
        /\ tree.root[s] = none => S[tree.root[s]] = {}
    BY <1>4 DEF Forest, Rooted, Below
  <1>7. Range(out') = {} /\ Len(out') = 0 /\ out' \in Seq(Nat) BY <1>2, <1>3, NoneOut
  <1>8. Walked(tree, S)' BY <1>7 DEF Walked
  <1>9. pc' = "extreme" => AtExtreme(tree, S)' BY <1>2, <1>6, <1>7 DEF AtExtreme, Written
  <1>10. pc' = "written" => \A j \in S[tree'.root[side']] : Written(tree, j)' BY <1>2, <1>6
  <1>11. Walk(S)' BY <1>2, <1>3, <1>5, <1>7, <1>8, <1>9, <1>10 DEF Walk
  <1>12. Data(tree', index', fresh', none, S) BY <1>1, <1>2, <1>3
  <1> QED BY <1>11, <1>12, WalkStep

(* The walk to the best level that is left *)
LEMMA ExtremeStep ==
    ASSUME TreeInv, Extreme
    PROVE  TreeInv' /\ (pc' = pc => tree.height[at'] < tree.height[at])
  <1>1. pc = "extreme" BY DEF Extreme
  <1>2. PICK S : Data(tree, index, fresh, none, S) /\ Walk(S) /\ Only(tree, none)
    BY <1>1, Walking
  <1>3. PICK g : g = tree.child[better_side][at] OBVIOUS
  <1>4. PICK k : k = tree.child[worse_side][at] OBVIOUS
  <1>5. /\ at' = (IF g # none THEN g ELSE at) /\ pc' = (IF g # none THEN "extreme" ELSE "write")
        /\ side' = side /\ size' = size /\ out' = out
        /\ tree' = tree /\ index' = index /\ fresh' = fresh
    BY <1>3 DEF Extreme, Goto, Same
  <1>6. /\ Forest(tree, S, fresh) /\ side \in Sides /\ AtExtreme(tree, S)
        /\ at \in S[tree.root[side]]
    BY <1>1, <1>2 DEF Data, Walk, AtExtreme
  <1>7. Between(tree, S, at, g, k) BY <1>3, <1>4, <1>6, BetweenFacts
  <1>8. /\ S[at] \subseteq S[tree.root[side]] /\ at \in Slot /\ Shape(tree, S) /\ at \in Used(tree)
    BY <1>6, RootFacts, Basics
  <1>9. \A j \in S[tree.root[side]] : tree.price[j] \in Nat BY <1>6, PriceNat
  <1>10. ASSUME NEW j \in S[at], j \notin S[g], NEW i \in S[g]
         PROVE  better(tree.price[i], tree.price[j])
    <2>1. better(tree.price[i], tree.price[at]) BY <1>7, <1>10 DEF Between
    <2>2. j = at \/ better(tree.price[at], tree.price[j]) BY <1>7, <1>10 DEF Between
    <2>3. i \in S[at] BY <1>7, <1>10 DEF Between
    <2> QED BY <1>6, <1>8, <1>9, <1>10, <2>1, <2>2, <2>3, BetterOrder
  <1>11. CASE g # none
    <2>1. g \in S[g] /\ g \in Slot /\ S[g] \subseteq S[at] BY <1>7, <1>11 DEF Between
    <2>2. \A i \in S[g] : ~Written(tree, i) BY <1>6, <2>1 DEF AtExtreme
    <2>3. ASSUME NEW j \in S[tree.root[side]] \ S[g], ~Written(tree, j), NEW i \in S[g]
          PROVE  better(tree.price[i], tree.price[j])
      <3>1. CASE j \in S[at] BY <1>10, <2>3, <3>1
      <3>2. CASE j \notin S[at] BY <1>6, <2>1, <2>3, <3>2 DEF AtExtreme
      <3> QED BY <3>1, <3>2
    <2>4. AtExtreme(tree, S)' BY <1>5, <1>8, <1>11, <2>1, <2>2, <2>3 DEF AtExtreme, Written, better
    <2>5. Walk(S)' BY <1>2, <1>5, <1>11, <2>1, <2>4 DEF Walk, Walked, Written, better, Resting
    <2>6. Data(tree', index', fresh', none, S) BY <1>2, <1>5
    <2>7. PICK d \in Dirs : d = better_side BY DEF better_side, Dirs
    <2>8. tree.height[g] < tree.height[at] BY <1>2, <1>3, <1>8, <1>11, <2>7, ChildLower
    <2> QED BY <1>5, <1>11, <2>5, <2>6, <2>8, WalkStep
  <1>12. CASE g = none
    <2>1. S[at] = {at} \cup S[k] BY <1>7, <1>12 DEF Between
    <2>2. ~Written(tree, at) BY <1>6, <2>1 DEF AtExtreme
    <2>3. ASSUME NEW j \in S[tree.root[side]], ~Written(tree, j), j # at
          PROVE  better(tree.price[at], tree.price[j])
      <3>1. CASE j \in S[at] BY <1>7, <2>1, <2>3, <3>1 DEF Between
      <3>2. CASE j \notin S[at] BY <1>6, <2>1, <2>3, <3>2 DEF AtExtreme
      <3> QED BY <3>1, <3>2
    <2>4. AtWrite(tree, S)' BY <1>5, <1>6, <1>12, <2>2, <2>3 DEF AtWrite, Written, better
    <2>5. Walk(S)' BY <1>2, <1>5, <1>8, <1>12, <2>4 DEF Walk, Walked, Written, better, Resting
    <2>6. Data(tree', index', fresh', none, S) BY <1>2, <1>5
    <2> QED BY <1>1, <1>5, <1>12, <2>5, <2>6, WalkStep
  <1> QED BY <1>11, <1>12

(* One more price is written. *)
Appended(o, x, v) ==
    /\ x \in Seq(Nat) /\ x # <<>> /\ Len(x) = Len(o) + 1 /\ x[Len(x)] = v
    /\ \A m \in 1 .. Len(o) : x[m] = o[m]
    /\ Range(x) = Range(o) \cup {v}

(* Append(), price by price *)
LEMMA AppendFacts ==
    ASSUME NEW o \in Seq(Nat), NEW v \in Nat, NEW x, x = Append(o, v)
    PROVE  Appended(o, x, v)
  <1>1. /\ x \in Seq(Nat) /\ Len(x) = Len(o) + 1 /\ Len(o) \in Nat /\ x[Len(x)] = v
        /\ \A m \in 1 .. Len(o) : x[m] = o[m]
    OBVIOUS
  <1>2. x # <<>> BY <1>1
  <1>3. DOMAIN x = 1 .. Len(x) /\ DOMAIN o = 1 .. Len(o) BY <1>1
  <1>4. ASSUME NEW j PROVE j \in Range(x) <=> j \in Range(o) \cup {v}
    <2>1. ASSUME j \in Range(x) PROVE j \in Range(o) \cup {v}
      <3>1. PICK i \in 1 .. Len(x) : j = x[i] BY <1>3, <2>1 DEF Range
      <3>2. i \in 1 .. Len(o) \/ i = Len(x) BY <1>1
      <3> QED BY <1>1, <1>3, <3>1, <3>2 DEF Range
    <2>2. ASSUME j \in Range(o) PROVE j \in Range(x)
      <3>1. PICK i \in 1 .. Len(o) : j = o[i] BY <1>3, <2>2 DEF Range
      <3>2. i \in 1 .. Len(x) /\ x[i] = j BY <1>1, <3>1
      <3> QED BY <1>3, <3>2 DEF Range
    <2>3. v \in Range(x)
      <3>1. Len(x) \in 1 .. Len(x) BY <1>1
      <3> QED BY <1>1, <1>3, <3>1 DEF Range
    <2> QED BY <2>1, <2>2, <2>3
  <1> QED BY <1>1, <1>2, <1>4 DEF Appended

(* The best price that is left is written. *)
LEMMA WriteStep ==
    ASSUME TreeInv, Write
    PROVE  TreeInv' /\ pc' # pc
  <1>1. pc = "write" /\ Len(out) < size BY DEF Write
  <1>2. PICK S : Data(tree, index, fresh, none, S) /\ Walk(S) BY <1>1, Walking
  <1>3. PICK g : g = tree.child[better_side][at] OBVIOUS
  <1>4. PICK k : k = tree.child[worse_side][at] OBVIOUS
  <1>5. PICK v : v = tree.price[at] OBVIOUS
  <1>6. /\ at' = (IF k # none THEN k ELSE at) /\ pc' = (IF k # none THEN "extreme" ELSE "climb")
        /\ side' = side /\ size' = size /\ out' = Append(out, v)
        /\ tree' = tree /\ index' = index /\ fresh' = fresh
    BY <1>4, <1>5 DEF Write, Goto, Same
  <1>7. /\ Forest(tree, S, fresh) /\ Indexed(tree, index, S) /\ side \in Sides /\ AtWrite(tree, S)
        /\ at \in S[tree.root[side]] /\ ~Written(tree, at) /\ out \in Seq(Nat) /\ size \in Nat
        /\ Walked(tree, S) /\ fresh = none
    BY <1>1, <1>2 DEF Data, Walk, AtWrite
  <1>8. Between(tree, S, at, g, k) BY <1>3, <1>4, <1>7, BetweenFacts
  <1>9. S[at] \subseteq S[tree.root[side]] /\ at \in Slot /\ at \in LevelIndex BY <1>7, RootFacts, Basics
  <1>10. \A j \in S[tree.root[side]] : tree.price[j] \in Nat BY <1>7, PriceNat
  <1>11. v \in Nat BY <1>5, <1>7, <1>10
  <1>12. Appended(out, out', v) BY <1>6, <1>7, <1>11, AppendFacts
  <1>13. Distinct(tree, S[tree.root[side]]) BY <1>7, DistinctPrices
  <1>14. \A j \in S[tree.root[side]] : Written(tree, j)' <=> Written(tree, j) \/ j = at
    BY <1>5, <1>6, <1>7, <1>12, <1>13 DEF Written, Appended, Distinct
  <1>15. \A q \in Range(out) : better(q, v) BY <1>5, <1>7 DEF Walked
  <1>16. \A j \in S[tree.root[side]] : ~Written(tree, j) /\ j # at => better(v, tree.price[j])
    BY <1>5, <1>7 DEF AtWrite
  <1>17. \A x, y : better(x, y)' <=> better(x, y) BY <1>6 DEF better
  <1>18. Walked(tree, S)'
    <2> SUFFICES ASSUME NEW j \in S[tree.root[side]], ~Written(tree, j)', NEW q \in Range(out')
                 PROVE  better(q, tree.price[j])
      BY <1>6, <1>17 DEF Walked
    <2>1. ~Written(tree, j) /\ j # at BY <1>14
    <2>2. CASE q = v BY <1>16, <2>1, <2>2
    <2>3. CASE q \in Range(out) BY <1>7, <2>1, <2>3 DEF Walked
    <2> QED BY <1>12, <2>2, <2>3 DEF Appended
  <1>19. ASSUME NEW m \in 1 .. Len(out'), NEW n \in 1 .. Len(out'), m < n
         PROVE  better(out'[m], out'[n])
    <2>1. Len(out) \in Nat /\ Len(out') = Len(out) + 1 BY <1>7, <1>12 DEF Appended
    <2>2. m \in 1 .. Len(out) /\ out'[m] = out[m]
      BY <1>12, <1>19, <2>1 DEF Appended
    <2>3. CASE n \in 1 .. Len(out)
      <3>1. out'[n] = out[n] BY <1>12, <2>3 DEF Appended
      <3> QED BY <1>2, <1>19, <2>2, <2>3, <3>1 DEF Walk
    <2>4. CASE n = Len(out')
      <3>1. out[m] \in Range(out) BY <1>7, <2>2 DEF Range
      <3> QED BY <1>12, <1>15, <2>2, <2>4, <3>1 DEF Appended
    <2> QED BY <2>1, <2>3, <2>4
  <1>20. Range(out') \subseteq Resting(side)
    <2>1. v \in Prices /\ index[side][v] = at BY <1>5, <1>7 DEF Indexed
    <2>2. v \in Resting(side) BY <1>9, <2>1, Basics DEF Resting
    <2> QED BY <1>2, <1>12, <2>2 DEF Walk, Appended
  <1>21. Len(out') <= size BY <1>1, <1>7, <1>12 DEF Appended
  <1>22. Data(tree', index', fresh', none, S) BY <1>2, <1>6
  <1>23. Resting(side)' = Resting(side) BY <1>6 DEF Resting
  <1>24. CASE k # none
    <2>1. k \in S[k] /\ k \in Slot /\ S[k] \subseteq S[at] /\ at \notin S[k] BY <1>8, <1>24 DEF Between
    <2>2. \A i \in S[k] : better(v, tree.price[i]) BY <1>5, <1>8 DEF Between
    <2>3. ASSUME NEW i \in S[k] PROVE ~Written(tree, i)'
      <3>1. i \in S[tree.root[side]] /\ i # at BY <1>9, <2>1, <2>3
      <3>2. ASSUME Written(tree, i) PROVE FALSE
        <4>1. better(tree.price[i], v) BY <1>15, <3>2 DEF Written
        <4> QED BY <1>10, <1>11, <2>2, <2>3, <3>1, <4>1, BetterOrder
      <3> QED BY <1>14, <3>1, <3>2
    <2>4. ASSUME NEW j \in S[tree.root[side]] \ S[k], ~Written(tree, j)', NEW i \in S[k]
          PROVE  better(tree.price[i], tree.price[j])
      <3>1. ~Written(tree, j) /\ j # at /\ i \in S[at] /\ i \in S[tree.root[side]]
        BY <1>9, <1>14, <2>1, <2>4
      <3>2. better(v, tree.price[j]) BY <1>16, <3>1
      <3>3. tree.price[j] \in Nat /\ tree.price[i] \in Nat BY <1>10, <3>1
      <3>4. j \notin S[at]
        <4>1. ASSUME j \in S[g] PROVE FALSE
          <5>1. better(tree.price[j], v) BY <1>5, <1>8, <4>1 DEF Between
          <5> QED BY <1>11, <3>2, <3>3, <5>1, BetterOrder
        <4> QED BY <1>8, <2>4, <3>1, <4>1 DEF Between
      <3>5. at \in S[at] BY <1>8 DEF Between
      <3>6. ~better(tree.price[j], tree.price[i])
        BY <1>5, <1>7, <3>1, <3>2, <3>4, <3>5, BetterConvex
      <3>7. tree.price[j] # tree.price[i] BY <1>13, <3>1, <3>4 DEF Distinct
      <3> QED BY <3>3, <3>6, <3>7, BetterOrder
    <2>5. k \in S[tree.root[side]] BY <1>9, <2>1
    <2>6. AtExtreme(tree, S)'
      BY <1>6, <1>17, <1>24, <2>3, <2>4, <2>5 DEF AtExtreme, Written
    <2>7. Walk(S)'
      BY <1>6, <1>7, <1>12, <1>17, <1>18, <1>19, <1>20, <1>21, <1>23, <1>24, <2>1, <2>6 DEF Walk, Appended
    <2> QED BY <1>1, <1>6, <1>22, <1>24, <2>7, WalkStep
  <1>25. CASE k = none
    <2>1. S[at] = {at} \cup S[g] /\ at \in S[at] BY <1>8, <1>25 DEF Between
    <2>2. ASSUME NEW i \in S[at] PROVE Written(tree, i)'
      <3>1. i \in S[tree.root[side]] BY <1>9, <2>2
      <3>2. CASE i = at BY <1>14, <3>1, <3>2
      <3>3. CASE i \in S[g]
        <4>1. better(tree.price[i], v) BY <1>5, <1>8, <3>3 DEF Between
        <4>2. ~better(v, tree.price[i]) BY <1>10, <1>11, <3>1, <4>1, BetterOrder
        <4> QED BY <1>14, <1>16, <3>1, <4>2
      <3> QED BY <2>1, <2>2, <3>2, <3>3
    <2>3. AtClimb(tree, S)'
      BY <1>5, <1>6, <1>7, <1>12, <1>25, <2>1, <2>2 DEF AtClimb, Appended
    <2>4. Walk(S)'
      BY <1>6, <1>7, <1>9, <1>12, <1>17, <1>18, <1>19, <1>20, <1>21, <1>23, <1>25, <2>3 DEF Walk, Appended
    <2> QED BY <1>1, <1>6, <1>22, <1>25, <2>4, WalkStep
  <1> QED BY <1>24, <1>25

(* The output is full. *)
LEMMA SpanFullStep ==
    ASSUME TreeInv, SpanFull
    PROVE  TreeInv' /\ pc' # pc
  <1>1. /\ pc = "write" /\ Len(out) >= size /\ pc' = "written" /\ at' = none
        /\ side' = side /\ size' = size /\ out' = out
        /\ tree' = tree /\ index' = index /\ fresh' = fresh
    BY DEF SpanFull, Goto, Same
  <1>2. PICK S : Data(tree, index, fresh, none, S) /\ Walk(S) BY <1>1, Walking
  <1>3. Data(tree', index', fresh', none, S) BY <1>1, <1>2
  <1>4. Len(out) \in Nat /\ size \in Nat BY <1>2 DEF Walk
  <1>5. Walk(S)' BY <1>1, <1>2, <1>4, Basics DEF Walk, Walked, Written, better, Resting
  <1> QED BY <1>1, <1>3, <1>5, WalkStep

(* The walk goes up until it comes to a level from its better side. *)
LEMMA ClimbStep ==
    ASSUME TreeInv, Climb
    PROVE  TreeInv' /\ (pc' = pc => tree.height[at'] > tree.height[at])
  <1>1. pc = "climb" BY DEF Climb
  <1>2. PICK S : Data(tree, index, fresh, none, S) /\ Walk(S) /\ Only(tree, none)
    BY <1>1, Walking
  <1>3. PICK p : p = tree.parent[at] OBVIOUS
  <1>4. PICK up \in BOOLEAN : up <=> p # none /\ tree.child[worse_side][p] = at OBVIOUS
  <1>5. /\ at' = p /\ pc' = IF up THEN "climb" ELSE IF p = none THEN "written" ELSE "write"
        /\ side' = side /\ size' = size /\ out' = out
        /\ tree' = tree /\ index' = index /\ fresh' = fresh
    BY <1>3, <1>4 DEF Climb, Goto, Same
  <1>6. /\ Forest(tree, S, fresh) /\ Indexed(tree, index, S) /\ side \in Sides /\ AtClimb(tree, S)
        /\ at \in S[tree.root[side]] /\ out \in Seq(Nat) /\ Walked(tree, S) /\ out # <<>>
        /\ \A i \in S[at] : Written(tree, i)
    BY <1>1, <1>2 DEF Data, Walk, AtClimb
  <1>7. PICK v : v = out[Len(out)] OBVIOUS
  <1>8. PICK k \in S[at] : tree.price[k] = v BY <1>6, <1>7 DEF AtClimb
  <1>9. Len(out) \in 1 .. Len(out) /\ v \in Range(out)
    <2>1. Len(out) \in Nat /\ Len(out) # 0 BY <1>6
    <2>2. Len(out) \in DOMAIN out BY <1>6, <2>1
    <2> QED BY <1>7, <2>1, <2>2 DEF Range
  <1>10. ASSUME NEW q \in Range(out) PROVE q = v \/ better(q, v)
    <2>1. PICK m \in 1 .. Len(out) : q = out[m] BY <1>6 DEF Range
    <2>2. m = Len(out) \/ m < Len(out) BY <1>6, <1>9
    <2> QED BY <1>2, <1>7, <1>9, <2>1, <2>2 DEF Walk
  <1>11. /\ S[at] \subseteq S[tree.root[side]] /\ Shape(tree, S) /\ at \in Used(tree)
         /\ p = none <=> tree.root[side] = at
         /\ p # none => p \in S[tree.root[side]]
    BY <1>3, <1>6, RootFacts
  <1>12. \A j \in S[tree.root[side]] : tree.price[j] \in Nat BY <1>6, PriceNat
  <1>13. v \in Nat BY <1>8, <1>11, <1>12
  <1>14. Distinct(tree, S[tree.root[side]]) BY <1>6, DistinctPrices
  <1>15. Data(tree', index', fresh', none, S) BY <1>2, <1>5
  <1>16. CASE p = none
    <2>1. \A j \in S[tree.root[side]] : Written(tree, j) BY <1>6, <1>11, <1>16
    <2>2. Walk(S)' BY <1>2, <1>4, <1>5, <1>16, <2>1, Basics DEF Walk, Walked, Written, better, Resting
    <2> QED BY <1>1, <1>4, <1>5, <1>15, <1>16, <2>2, WalkStep
  <1>17. CASE p # none
    <2>1. PICK g : g = tree.child[better_side][p] OBVIOUS
    <2>2. PICK f : f = tree.child[worse_side][p] OBVIOUS
    <2>3. p \in S[tree.root[side]] BY <1>11, <1>17
    <2>4. Between(tree, S, p, g, f) BY <1>6, <2>1, <2>2, <2>3, BetweenFacts
    <2>5. /\ S[p] \subseteq S[tree.root[side]] /\ p \in Slot /\ p \in Used(tree)
      BY <1>6, <2>3, RootFacts, Basics
    <2>6. PICK e \in Dirs : tree.child[e][p] = at BY <1>3, <1>11, <1>17, UpFacts
    <2>7. g = at \/ f = at
      BY <2>1, <2>2, <2>6, Basics DEF better_side, worse_side, Dirs, other
    <2>8. tree.height[at] < tree.height[p]
      <3>1. at # none BY <1>11, Basics DEF Used
      <3> QED BY <1>2, <1>11, <2>5, <2>6, <3>1, ChildLower
    <2>9. k \in S[p] /\ k \in S[tree.root[side]] /\ p \in S[p]
      BY <1>8, <2>4, <2>5, <2>7 DEF Between
    <2>10. CASE up
      <3>1. f = at BY <1>4, <2>2, <2>10
      <3>2. ASSUME NEW j \in S[p] PROVE Written(tree, j)
        <4>1. CASE j \in S[at] BY <1>6, <4>1
        <4>2. CASE j \notin S[at]
          <5>1. j = p \/ better(tree.price[j], tree.price[p]) BY <2>4, <3>1, <3>2, <4>2 DEF Between
          <5>2. better(tree.price[p], v) BY <1>8, <2>4, <3>1 DEF Between
          <5>3. tree.price[j] \in Nat /\ tree.price[p] \in Nat BY <1>12, <2>3, <2>5, <3>2
          <5>4. better(tree.price[j], v) BY <1>13, <5>1, <5>2, <5>3, BetterOrder
          <5>5. ~better(v, tree.price[j]) BY <1>13, <5>3, <5>4, BetterOrder
          <5> QED BY <1>6, <1>9, <2>5, <3>2, <5>5 DEF Walked
        <4> QED BY <4>1, <4>2
      <3>3. AtClimb(tree, S)'
        BY <1>5, <1>6, <1>7, <1>8, <2>3, <2>9, <3>2 DEF AtClimb, Written
      <3>4. Walk(S)' BY <1>2, <1>5, <2>5, <2>10, <3>3 DEF Walk, Walked, Written, better, Resting
      <3>5. tree.height[p] > tree.height[at]
        <4>1. tree.height[p] \in Nat /\ tree.height[at] \in Nat
          BY <1>11, <2>5, Fields DEF Shape, Used
        <4> QED BY <2>8, <4>1
      <3> QED BY <1>5, <1>15, <3>4, <3>5, WalkStep
    <2>11. CASE ~up
      <3>1. g = at BY <1>4, <1>17, <2>2, <2>7, <2>11
      <3>2. better(v, tree.price[p]) BY <1>8, <2>4, <3>1 DEF Between
      <3>3. tree.price[p] \in Nat BY <1>12, <2>3
      <3>4. ~Written(tree, p)
        <4>1. ASSUME tree.price[p] \in Range(out) PROVE FALSE
          <5>1. tree.price[p] = v \/ better(tree.price[p], v) BY <1>10, <4>1
          <5> QED BY <1>13, <3>2, <3>3, <5>1, BetterOrder
        <4> QED BY <4>1 DEF Written
      <3>5. ASSUME NEW j \in S[tree.root[side]], ~Written(tree, j), j # p
            PROVE  better(tree.price[p], tree.price[j])
        <4>1. better(v, tree.price[j]) /\ tree.price[j] \in Nat BY <1>6, <1>9, <1>12, <3>5 DEF Walked
        <4>2. j \notin S[at] BY <1>6, <3>5
        <4>3. CASE j \in S[p] BY <2>4, <3>1, <3>5, <4>2, <4>3 DEF Between
        <4>4. CASE j \notin S[p]
          <5>1. ~better(tree.price[j], tree.price[p])
            BY <1>6, <1>8, <2>3, <2>9, <4>1, <4>4, BetterConvex
          <5>2. tree.price[j] # tree.price[p] BY <1>14, <2>3, <3>5 DEF Distinct
          <5> QED BY <3>3, <4>1, <5>1, <5>2, BetterOrder
        <4> QED BY <4>3, <4>4
      <3>6. AtWrite(tree, S)' BY <1>5, <2>3, <3>4, <3>5 DEF AtWrite, Written, better
      <3>7. Walk(S)'
        BY <1>2, <1>5, <1>17, <2>5, <2>11, <3>6 DEF Walk, Walked, Written, better, Resting
      <3> QED BY <1>1, <1>5, <1>15, <1>17, <2>11, <3>7, WalkStep
    <2> QED BY <2>10, <2>11
  <1> QED BY <1>16, <1>17

(* depth() returns. *)
LEMMA ReturnStep ==
    ASSUME TreeInv, Return
    PROVE  TreeInv' /\ pc' # pc
  <1>1. /\ pc = "written" /\ pc' = "idle" /\ at' = none /\ out' = <<>>
        /\ side' = side /\ size' = size /\ tree' = tree /\ index' = index /\ fresh' = fresh
    BY DEF Return, Goto, Same
  <1>2. PICK S : Data(tree, index, fresh, none, S) /\ Walk(S) BY <1>1, Walking
  <1>3. Data(tree', index', fresh', none, S) BY <1>1, <1>2
  <1>4. Quiet(S)' BY <1>1, <1>2, Basics DEF Quiet, Walk
  <1> QED BY <1>1, <1>3, <1>4, QuietStep
-----------------------------------------------------------------------------
Calls ==
    \/ \E s \in Sides : \E p \in Quoted[s] :
          level_find(s, p, "find") \/ level_find(s, p, "get") \/ level_remove(s, p)
    \/ \E s \in Sides, n \in Spans : depth(s, n)
Loops ==
    \/ FindNext \/ FindReturn \/ Acquire \/ Descend \/ Attach \/ Rebalance \/ Successor \/ Splice
    \/ Extreme \/ Write \/ SpanFull \/ Climb \/ Return

(* Every call and every iteration of a loop keeps the invariant. *)
LEMMA NextInv == TreeInv /\ [Next]_vars => TreeInv'
  <1> SUFFICES ASSUME TreeInv, [Next]_vars PROVE TreeInv' OBVIOUS
  <1>1. CASE Calls
    <2>1. ASSUME NEW s \in Sides, NEW p \in Quoted[s],
                 level_find(s, p, "find") \/ level_find(s, p, "get") \/ level_remove(s, p)
          PROVE  TreeInv'
      <3>1. p \in Prices BY TreeAssumption
      <3>2. CASE level_find(s, p, "find") BY <3>1, <3>2, FindStep
      <3>3. CASE level_find(s, p, "get") BY <3>1, <3>3, FindStep
      <3>4. CASE level_remove(s, p) BY <3>1, <3>4, RemoveStep
      <3> QED BY <2>1, <3>2, <3>3, <3>4
    <2>2. ASSUME NEW s \in Sides, NEW n \in Spans, depth(s, n) PROVE TreeInv' BY <2>2, DepthStep
    <2> QED BY <1>1, <2>1, <2>2 DEF Calls
  <1>2. CASE FindNext BY <1>2, FindNextStep
  <1>3. CASE FindReturn BY <1>3, FindReturnStep
  <1>4. CASE Acquire BY <1>4, AcquireStep
  <1>5. CASE Descend BY <1>5, DescendStep
  <1>6. CASE Attach BY <1>6, AttachStep
  <1>7. CASE Rebalance BY <1>7, RebalanceStep
  <1>8. CASE Successor BY <1>8, SuccessorStep
  <1>9. CASE Splice BY <1>9, SpliceStep
  <1>10. CASE Extreme BY <1>10, ExtremeStep
  <1>11. CASE Write BY <1>11, WriteStep
  <1>12. CASE SpanFull BY <1>12, SpanFullStep
  <1>13. CASE Climb BY <1>13, ClimbStep
  <1>14. CASE Return BY <1>14, ReturnStep
  <1>15. CASE UNCHANGED vars
    <2>1. /\ tree' = tree /\ index' = index /\ pc' = pc /\ side' = side /\ asked' = asked
          /\ at' = at /\ fresh' = fresh /\ size' = size /\ out' = out
      BY <1>15 DEF vars
    <2> QED BY <2>1 DEF TreeInv, Known, CallInv, Searching, Descending, Succeeding, Walked, Written,
                        AtExtreme, AtWrite, AtClimb, better, Resting
  <1>16. Calls \/ Loops \/ UNCHANGED vars BY DEF Next, Calls, Loops
  <1> QED BY <1>1, <1>2, <1>3, <1>4, <1>5, <1>6, <1>7, <1>8, <1>9, <1>10, <1>11, <1>12, <1>13,
             <1>14, <1>15, <1>16 DEF Loops

(* The price index at every step of every call: both trees are search      *)
(* trees over the levels that their side refers to, heights are right but  *)
(* along the way of rebalance_up(), and each loop is where it should be.   *)
THEOREM TreeInvariance == Spec => []TreeInv
  BY InitInv, NextInv, PTL DEF Spec

(* PoolExact for every sequence of calls. *)
THEOREM PoolExactAlways == Spec => []PoolExact
  <1>1. TreeInv => PoolExact
    <2> SUFFICES ASSUME TreeInv PROVE PoolExact OBVIOUS
    <2>1. PICK S : Known(S) BY DEF TreeInv
    <2>2. Active = Used(tree) BY DEF Active, Used
    <2>3. Forest(tree, S, fresh) /\ Indexed(tree, index, S) /\ CallInv(tree, S) BY <2>1 DEF Known
    <2>4. ASSUME NEW c
          PROVE  c \in Active <=> c \in ({index[s][p] : s \in Sides, p \in Prices} \cup {fresh}) \ {none}
      <3>1. ASSUME c \in Active
            PROVE  c \in ({index[s][p] : s \in Sides, p \in Prices} \cup {fresh}) \ {none}
        <4>1. c # none BY <3>1, Basics DEF Active
        <4>2. CASE c = fresh BY <4>1, <4>2
        <4>3. CASE c # fresh
          <5>1. PICK s \in Sides : c \in S[tree.root[s]]
            BY <2>2, <2>3, <3>1, <4>3 DEF Forest, Rooted
          <5>2. tree.price[c] \in Prices /\ index[s][tree.price[c]] = c BY <2>3, <5>1 DEF Indexed
          <5> QED BY <4>1, <5>2
        <4> QED BY <4>2, <4>3
      <3>2. ASSUME c \in ({index[s][p] : s \in Sides, p \in Prices} \cup {fresh}) \ {none}
            PROVE  c \in Active
        <4>1. CASE c = fresh
          <5>1. pc = "descend" BY <2>3, <3>2, <4>1 DEF CallInv
          <5> QED BY <2>2, <2>3, <4>1, <5>1 DEF CallInv, Descending
        <4>2. CASE c # fresh
          <5>1. PICK s \in Sides, p \in Prices : c = index[s][p] BY <3>2, <4>2
          <5>2. c \in S[tree.root[s]] BY <2>3, <3>2, <5>1 DEF Indexed
          <5> QED BY <2>2, <2>3, <5>2, RootFacts
        <4> QED BY <4>1, <4>2
      <3> QED BY <3>1, <3>2
    <2> QED BY <2>2, <2>4 DEF PoolExact, TreeInv, Pool
  <1> QED BY <1>1, TreeInvariance, PTL

(* FindExact for every sequence of calls. *)
THEOREM FindExactAlways == Spec => []FindExact
  <1>1. TreeInv => FindExact
    <2> SUFFICES ASSUME TreeInv PROVE FindExact OBVIOUS
    <2>1. PICK S : Known(S) BY DEF TreeInv
    <2>2. Active = Used(tree) BY DEF Active, Used
    <2>3. Forest(tree, S, fresh) /\ Indexed(tree, index, S) /\ CallInv(tree, S) BY <2>1 DEF Known
    <2>4. ASSUME pc \in {"find", "get"}, Found PROVE at = index[side][asked]
      <3>1. side \in Sides /\ asked \in Prices /\ Searching(tree, S) BY <2>3, <2>4 DEF CallInv
      <3>2. CASE at = none
        <4>1. S[at] = {} BY <2>3, <3>2 DEF Forest, Below
        <4> QED BY <2>3, <3>1, <3>2, <4>1 DEF Searching, Indexed
      <3>3. CASE at # none
        <4>1. tree.price[at] = asked /\ at \in S[tree.root[side]]
          BY <2>4, <3>1, <3>3 DEF Found, Searching
        <4> QED BY <2>3, <3>1, <4>1 DEF Indexed
      <3> QED BY <3>2, <3>3
    <2>5. ASSUME NEW s \in Sides, NEW p \in Prices, index[s][p] # none
          PROVE  /\ index[s][p] \in Active /\ tree.price[index[s][p]] = p
                 /\ \A r \in Sides, q \in Prices : index[r][q] = index[s][p] => r = s /\ q = p
      <3>1. PICK x : x = index[s][p] OBVIOUS
      <3>2. x \in S[tree.root[s]] /\ tree.price[x] = p BY <2>3, <2>5, <3>1 DEF Indexed
      <3>3. x \in Active BY <2>2, <2>3, <3>2, RootFacts
      <3>4. ASSUME NEW r \in Sides, NEW q \in Prices, index[r][q] = x PROVE r = s /\ q = p
        <4>1. x \in S[tree.root[r]] /\ tree.price[x] = q BY <2>3, <2>5, <3>1, <3>4 DEF Indexed
        <4>2. r = s BY <2>3, <3>2, <4>1 DEF Forest, Rooted, Sides
        <4> QED BY <3>2, <4>1, <4>2
      <3> QED BY <3>1, <3>2, <3>3, <3>4
    <2> QED BY <2>4, <2>5 DEF FindExact
  <1> QED BY <1>1, TreeInvariance, PTL

(* Balanced for every sequence of calls: both trees are AVL trees whenever *)
(* no call is under way.                                                   *)
THEOREM BalancedAlways == Spec => []Balanced
  <1>1. TreeInv => Balanced
    <2> SUFFICES ASSUME TreeInv, pc = "idle" PROVE Balanced BY DEF Balanced
    <2>1. PICK S, w : /\ Data(tree, index, fresh, w, S) /\ CallInv(tree, S)
                      /\ w = IF pc = "rebalance" THEN at ELSE none
                      /\ pc # "rebalance" => Only(tree, none)
      BY Begin
    <2>2. Only(tree, none) /\ Forest(tree, S, fresh) BY <2>1 DEF Data
    <2>3. Active = Used(tree) /\ none \notin Active BY Basics DEF Active, Used
    <2>4. ASSUME NEW s \in Sides, tree.root[s] # none PROVE tree.parent[tree.root[s]] = none
      BY <2>2, <2>4 DEF Forest, Rooted
    <2>5. ASSUME NEW c \in Active, NEW l, l = tree.child["left"][c], NEW r, r = tree.child["right"][c],
                 NEW p, p = tree.parent[c]
          PROVE  /\ \A k \in {l, r} \ {none} : k \in Active /\ tree.parent[k] = c
                 /\ p # none => c \in {tree.child["left"][p], tree.child["right"][p]}
                 /\ tree.height[c] = 1 + (IF height(tree, l) > height(tree, r)
                                          THEN height(tree, l) ELSE height(tree, r))
                 /\ balance(tree, c) \in -1 .. 1
      <3>1. \A k \in {l, r} \ {none} : k \in Active /\ tree.parent[k] = c
        BY <2>2, <2>3, <2>5 DEF Forest, Linked, Dirs
      <3>2. p # none => c \in {tree.child["left"][p], tree.child["right"][p]}
        BY <2>2, <2>3, <2>5 DEF Forest, Linked, Dirs
      <3>3. Even(tree.height[c], height(tree, l), height(tree, r))
        BY <2>2, <2>3, <2>5 DEF Only, HeightOK
      <3> QED BY <2>5, <3>1, <3>2, <3>3 DEF Even, balance
    <2> QED BY <2>4, <2>5 DEF Balanced
  <1> QED BY <1>1, TreeInvariance, PTL

(* DepthExact for every sequence of calls. *)
THEOREM DepthExactAlways == Spec => []DepthExact
  <1>1. TreeInv => DepthExact
    <2> SUFFICES ASSUME TreeInv PROVE DepthExact OBVIOUS
    <2>1. PICK S : Known(S) BY DEF TreeInv
    <2>2. Forest(tree, S, fresh) /\ Indexed(tree, index, S) /\ CallInv(tree, S) /\ side \in Sides
      BY <2>1 DEF Known, CallInv
    <2>3. ASSUME NEW p \in Resting(side)
          PROVE  \E j \in S[tree.root[side]] : tree.price[j] = p
      BY <2>2, <2>3 DEF Resting, Indexed
    <2>4. ASSUME pc \in {"extreme", "write", "climb", "written"},
                 NEW p \in Resting(side) \ Range(out), NEW q \in Range(out)
          PROVE  better(q, p)
      <3>1. PICK j \in S[tree.root[side]] : tree.price[j] = p BY <2>3, <2>4
      <3>2. Walked(tree, S) /\ ~Written(tree, j) BY <2>2, <2>4, <3>1 DEF CallInv, Written
      <3> QED BY <2>4, <3>1, <3>2 DEF Walked
    <2>5. ASSUME pc = "written", Len(out) < size PROVE Range(out) = Resting(side)
      <3>1. \A j \in S[tree.root[side]] : Written(tree, j) BY <2>2, <2>5 DEF CallInv
      <3>2. Range(out) \subseteq Resting(side) BY <2>2 DEF CallInv
      <3> QED BY <2>3, <3>1, <3>2 DEF Written
    <2>6. /\ Range(out) \subseteq Resting(side) /\ Len(out) <= size
          /\ \A m, n \in 1 .. Len(out) : m < n => better(out[m], out[n])
      BY <2>2 DEF CallInv
    <2> QED BY <2>4, <2>5, <2>6 DEF DepthExact
  <1> QED BY <1>1, TreeInvariance, PTL

(* LoopsEnd for every sequence of calls: no loop of the price index runs   *)
(* in a circle.                                                            *)
THEOREM LoopsEndAlways == Spec => LoopsEnd
  <1> DEFINE Ends ==
        pc' = pc /\ at' # none =>
          /\ pc \in {"find", "get", "descend", "successor", "extreme"} =>
                tree.height[at'] < tree.height[at]
          /\ pc \in {"rebalance", "climb"} => tree.height[at'] > tree.height[at]
  <1>1. TreeInv /\ [Next]_vars => [Ends]_vars
    <2> SUFFICES ASSUME TreeInv, Next PROVE Ends BY DEF vars
    <2>1. CASE Calls
      <3>1. pc = "idle" BY <2>1 DEF Calls, level_find, level_remove, depth, Call
      <3> QED BY <3>1
    <2>2. CASE FindNext
      <3>1. pc \in {"find", "get"} BY <2>2 DEF FindNext
      <3> QED BY <2>2, <3>1, FindNextStep
    <2>3. CASE FindReturn BY <2>3 DEF FindReturn, Goto
    <2>4. CASE Acquire
      <3>1. pc = "get" /\ (pc' = "idle" \/ pc' = "descend") BY <2>4 DEF Acquire, Goto
      <3> QED BY <3>1
    <2>5. CASE Descend
      <3>1. pc = "descend" BY <2>5 DEF Descend
      <3> QED BY <2>5, <3>1, DescendStep
    <2>6. CASE Attach BY <2>6 DEF Attach, Goto
    <2>7. CASE Rebalance
      <3>1. pc = "rebalance" BY <2>7 DEF Rebalance
      <3> QED BY <2>7, <3>1, RebalanceStep
    <2>8. CASE Successor
      <3>1. pc = "successor" BY <2>8 DEF Successor
      <3> QED BY <2>8, <3>1, SuccessorStep
    <2>9. CASE Splice
      <3>1. pc = "successor" /\ pc' # pc BY <2>9 DEF Splice, Drop, Climbs, Goto
      <3> QED BY <3>1
    <2>10. CASE Extreme
      <3>1. pc = "extreme" BY <2>10 DEF Extreme
      <3> QED BY <2>10, <3>1, ExtremeStep
    <2>11. CASE Write BY <2>11, WriteStep
    <2>12. CASE SpanFull BY <2>12, SpanFullStep
    <2>13. CASE Climb
      <3>1. pc = "climb" BY <2>13 DEF Climb
      <3> QED BY <2>13, <3>1, ClimbStep
    <2>14. CASE Return BY <2>14, ReturnStep
    <2>15. Calls \/ Loops BY DEF Next, Calls, Loops
    <2> QED BY <2>1, <2>2, <2>3, <2>4, <2>5, <2>6, <2>7, <2>8, <2>9, <2>10, <2>11, <2>12, <2>13,
               <2>14, <2>15 DEF Loops
  <1> QED BY <1>1, TreeInvariance, PTL DEF Spec, LoopsEnd
=============================================================================
