---------------------------- MODULE MCLevelTree -----------------------------
(* Model-checking instance of LevelTree. *)
EXTENDS LevelTree

(* One tree tall enough for every case of a removal, and next to it one of *)
(* the other side, on the same pool.                                       *)
MCQuoted == [buy |-> 1 .. 9, sell |-> {10}]

(* The states up to the numbering of the slots: what an operation does to  *)
(* the shape depends on prices and links, and every property is stated     *)
(* over them.  No price is on both sides.                                  *)
PriceOf(c) == IF c = none THEN none ELSE tree.price[c]
Shape ==
    <<pc, side, asked, PriceOf(at), PriceOf(fresh), size, out,
      [s \in Sides |-> PriceOf(tree.root[s])], Len(tree.free_level),
      {<<tree.price[c], PriceOf(tree.child["left"][c]), PriceOf(tree.child["right"][c]),
         PriceOf(tree.parent[c]), tree.height[c]>> : c \in Active}>>
=============================================================================
