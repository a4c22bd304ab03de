------------------------- MODULE LookupTableProofs --------------------------
(***************************************************************************)
(* For every pool size, every set of ids and every hash function, the      *)
(* table of lookup_find(), lookup_insert() and lookup_erase() is the       *)
(* dictionary module OrderBook takes it for.                               *)
(***************************************************************************)
EXTENDS LookupTable, FiniteSetTheorems, TLAPS

(* The constructor makes the table larger than the pool. *)
(* The constructor makes the table larger than the pool. *)
LEMMA SizeFacts == LookupSize \in Nat /\ LookupSize > MaxOrders /\ LookupSize >= 8
  BY PoolAssumption DEF LookupSize

(* The next slot, without the modulus. *)
LEMMA AfterFacts ==
  ASSUME NEW pos \in Positions
  PROVE  /\ after(pos) \in Positions
         /\ after(pos) = IF pos + 1 < LookupSize THEN pos + 1 ELSE 0
  <1>1. CASE pos + 1 < LookupSize BY <1>1, SizeFacts DEF Positions, after
  <1>2. CASE pos + 1 = LookupSize BY <1>2, SizeFacts DEF Positions, after
  <1> QED BY <1>1, <1>2, SizeFacts DEF Positions

(* The n-th slot probed, without the modulus. *)
LEMMA ProbeFacts ==
  ASSUME NEW id \in Ids, NEW n \in Positions
  PROVE  /\ probe(id, n) \in Positions
         /\ probe(id, n) = IF hash[id] + n < LookupSize THEN hash[id] + n
                           ELSE hash[id] + n - LookupSize
  <1>1. hash[id] \in Positions BY HashAssumption
  <1>2. CASE hash[id] + n < LookupSize BY <1>1, <1>2, SizeFacts DEF Positions, probe
  <1>3. CASE hash[id] + n >= LookupSize
    <2>1. hash[id] + n = LookupSize + (hash[id] + n - LookupSize)
      BY <1>1, SizeFacts DEF Positions
    <2>2. hash[id] + n - LookupSize \in Positions BY <1>1, <1>3, SizeFacts DEF Positions
    <2> QED BY <1>1, <1>3, <2>1, <2>2, SizeFacts DEF Positions, probe
  <1> QED BY <1>1, <1>2, <1>3, SizeFacts DEF Positions

(* The probe loop meets every position once, and before its n-th slot      *)
(* exactly those between the home and that slot.                           *)
LEMMA ProbeReaches ==
  ASSUME NEW id \in Ids, NEW pos \in Positions
  PROVE  \E n \in Positions : probe(id, n) = pos
  <1>0. hash[id] \in Positions BY HashAssumption
  <1> DEFINE n == IF hash[id] <= pos THEN pos - hash[id] ELSE pos - hash[id] + LookupSize
  <1>1. n \in Positions BY <1>0, SizeFacts DEF Positions
  <1>2. probe(id, n) = pos BY <1>0, <1>1, ProbeFacts, SizeFacts DEF Positions
  <1> QED BY <1>1, <1>2

(* The n-th slot probed lies before the m-th one, on the way from the home. *)
LEMMA ProbeOrder ==
  ASSUME NEW id \in Ids, NEW n \in Positions, NEW m \in Positions
  PROVE  m < n <=> Between(hash[id], probe(id, m), probe(id, n))
  <1>0. hash[id] \in Positions BY HashAssumption
  <1> QED BY <1>0, ProbeFacts, SizeFacts DEF Positions, Between

(* Entries with different live ids cannot fill the table. *)
LEMMA Pigeonhole ==
  ASSUME NEW L, IsFiniteSet(L), Cardinality(L) <= MaxOrders,
         NEW k \in [Positions -> L],
         \A p, q \in Positions : k[p] = k[q] => p = q
  PROVE  FALSE
  <1>1. IsFiniteSet(Positions) /\ Cardinality(Positions) = LookupSize
    BY FS_Interval, SizeFacts DEF Positions
  <1>2. k \in Injection(Positions, L) BY DEF Injection, IsInjective
  <1>3. Cardinality(Positions) <= Cardinality(L) BY <1>1, <1>2, FS_Injection
  <1>4. Cardinality(L) \in Nat BY FS_CardinalityType
  <1> QED BY <1>1, <1>3, <1>4, SizeFacts, PoolAssumption
-----------------------------------------------------------------------------
(* Outside the loop every occupied slot is an entry. *)
LEMMA IdleHeld == pc = "idle" => \A pos : Held(pos) <=> lookup_id[pos] # NoId
  BY DEF Held

(* The loop invariant gives the answer of the probe loop. *)
LEMMA FindFollows == LoopInv => FindExact
  <1> SUFFICES ASSUME LoopInv, pc = "idle", NEW id \in Ids
               PROVE  lookup_find(id) = dict[id]
    BY DEF FindExact
  <1> USE DEF LoopInv
  <1>1. CASE dict[id] # NoOrder
    <2>1. PICK pos \in Positions : lookup_id[pos] = id
      BY <1>1 DEF EntriesExact, Live
    <2>2. Held(pos) BY <2>1, IdleHeld, NoneAssumption
    <2>3. PICK n \in Positions : probe(id, n) = pos BY ProbeReaches
    <2>4. stops(id, n) BY <2>1, <2>3 DEF stops
    <2>5. ASSUME NEW m \in 0 .. n - 1 PROVE ~stops(id, m)
      <3>1. m \in Positions /\ m < n BY <2>5, SizeFacts DEF Positions
      <3>2. probe(id, m) \in Positions BY <3>1, ProbeFacts
      <3>3. Between(hash[id], probe(id, m), pos) BY <2>3, <3>1, ProbeOrder
      <3>4. lookup_id[probe(id, m)] # NoId BY <2>1, <2>2, <3>2, <3>3 DEF ChainsWhole
      <3>5. probe(id, m) # pos BY <2>3, <3>1, ProbeFacts, HashAssumption, SizeFacts DEF Positions
      <3>6. lookup_id[probe(id, m)] # id
        BY <2>1, <2>2, <3>2, <3>4, <3>5, IdleHeld DEF EntriesExact
      <3> QED BY <3>4, <3>6 DEF stops
    <2>6. ends(id, n) BY <2>4, <2>5 DEF ends
    <2>7. ASSUME NEW k \in Positions, ends(id, k) PROVE k = n
      <3>1. ~(k < n) BY <2>5, <2>7, SizeFacts DEF ends, Positions
      <3>2. ~(n < k) BY <2>4, <2>7, SizeFacts DEF ends, Positions
      <3> QED BY <3>1, <3>2, SizeFacts DEF Positions
    <2>8. lookup_find(id) = lookup_order[pos] BY <2>3, <2>6, <2>7 DEF lookup_find
    <2> QED BY <2>1, <2>2, <2>8 DEF EntriesExact
  <1>2. CASE dict[id] = NoOrder
    <2>1. ASSUME NEW n \in Positions, ends(id, n) PROVE lookup_order[probe(id, n)] = NoOrder
      <3>1. probe(id, n) \in Positions BY ProbeFacts
      <3>2. lookup_id[probe(id, n)] # id
        BY <1>2, <3>1, IdleHeld, NoneAssumption DEF EntriesExact
      <3> QED BY <2>1, <3>1, <3>2 DEF ends, stops, EntriesExact
    <2> QED BY <1>2, <2>1 DEF lookup_find
  <1> QED BY <1>1, <1>2

(* The empty table satisfies the loop invariant. *)
LEMMA InitEstablishes == Init => LoopInv
  <1> SUFFICES ASSUME Init PROVE LoopInv OBVIOUS
  <1>1. TypeOK BY SizeFacts DEF Init, TypeOK, Positions
  <1>2. Live = {} BY DEF Init, Live
  <1>3. PoolBound BY <1>2, FS_EmptySet, PoolAssumption DEF PoolBound
  <1>4. \A pos \in Positions : lookup_id[pos] = NoId /\ lookup_order[pos] = NoOrder BY DEF Init
  <1>5. EntriesExact BY <1>2, <1>4 DEF EntriesExact, Held
  <1>6. ChainsWhole BY <1>4 DEF ChainsWhole, Held
  <1>7. NeverFull BY <1>4, SizeFacts DEF NeverFull, Positions
  <1> QED BY <1>1, <1>3, <1>5, <1>6, <1>7 DEF LoopInv, ShiftInv, Init
-----------------------------------------------------------------------------
(* The shift loop: one iteration, and the step that leaves it. *)
LEMMA ShiftPreserves == LoopInv /\ shift => LoopInv'
  <1> SUFFICES ASSUME LoopInv, shift PROVE LoopInv' OBVIOUS
  <1> USE DEF LoopInv
  <1>0. /\ pc = "shift" /\ pc' = "shift" /\ hole \in Positions /\ scan \in Positions
        /\ lookup_id[scan] # NoId /\ dict' = dict /\ hole # scan
        /\ scan' = after(scan) /\ scan' \in Positions
    BY AfterFacts DEF shift, TypeOK, ShiftInv
  <1>1. Live' = Live BY <1>0 DEF Live
  <1>2. PoolBound' BY <1>1 DEF PoolBound
  <1>3. lookup_id[hole] # NoId BY <1>0 DEF ShiftInv, Between, Positions
  <1>4. hash[lookup_id[scan]] \in Positions BY <1>0, HashAssumption DEF TypeOK
  <1>5. CASE crosses
    <2>1. /\ lookup_id' = [lookup_id EXCEPT ![hole] = lookup_id[scan]]
          /\ lookup_order' = [lookup_order EXCEPT ![hole] = lookup_order[scan]]
          /\ hole' = scan
      BY <1>5 DEF shift
    <2>2. TypeOK' BY <1>0, <2>1 DEF TypeOK
    <2>3. \A pos \in Positions : lookup_id'[pos] = NoId <=> lookup_id[pos] = NoId
      BY <1>0, <1>3, <2>1 DEF TypeOK
    <2>4. NeverFull' BY <2>3 DEF NeverFull
    <2>5. \A pos \in Positions : Held(pos)' <=> IF pos = hole THEN TRUE
                                                ELSE IF pos = scan THEN FALSE ELSE Held(pos)
      BY <1>0, <2>1 DEF Held, TypeOK
    <2>6. Held(scan) BY <1>0 DEF Held
    <2>7. EntriesExact'
      <3>1. \A pos \in Positions : Held(pos)' =>
               dict'[lookup_id'[pos]] # NoOrder /\ lookup_order'[pos] = dict'[lookup_id'[pos]]
        BY <1>0, <2>1, <2>5, <2>6 DEF EntriesExact, TypeOK
      <3>2. \A p, q \in Positions : (Held(p) /\ Held(q) /\ lookup_id[p] = lookup_id[q])' => p = q
        BY <1>0, <2>1, <2>5, <2>6 DEF EntriesExact, TypeOK
      <3>3. ASSUME NEW id \in Live PROVE \E pos \in Positions : (Held(pos) /\ lookup_id[pos] = id)'
        <4>1. PICK pos \in Positions : Held(pos) /\ lookup_id[pos] = id BY DEF EntriesExact
        <4>2. CASE pos = scan BY <1>0, <2>1, <2>5, <4>1, <4>2 DEF TypeOK
        <4>3. CASE pos # scan
          <5>1. pos # hole BY <1>0, <4>1 DEF Held
          <5> QED BY <2>1, <2>5, <4>1, <4>3, <5>1 DEF TypeOK
        <4> QED BY <4>2, <4>3
      <3>4. \A pos \in Positions : lookup_id'[pos] = NoId => lookup_order'[pos] = NoOrder
        BY <1>0, <2>1 DEF EntriesExact, TypeOK
      <3> QED BY <1>1, <3>1, <3>2, <3>3, <3>4 DEF EntriesExact
    <2>8. ChainsWhole'
      <3> SUFFICES ASSUME NEW pos \in Positions, NEW q \in Positions,
                          Held(pos)', Between(hash[lookup_id'[pos]], q, pos)
                   PROVE  lookup_id'[q] # NoId
        BY DEF ChainsWhole, Between
      <3>1. CASE pos # hole BY <2>1, <2>3, <2>5, <3>1 DEF ChainsWhole, TypeOK
      <3>2. CASE pos = hole
        <4>1. lookup_id'[pos] = lookup_id[scan] BY <1>0, <2>1, <3>2 DEF TypeOK
        <4>2. Between(hash[lookup_id[scan]], q, scan)
          BY <1>0, <1>4, <1>5, <3>2, <4>1 DEF crosses, Between, Positions
        <4> QED BY <1>0, <2>3, <2>6, <4>2 DEF ChainsWhole
      <3> QED BY <3>1, <3>2
    <2>9. ShiftInv'
      <3>1. hole' # scan' BY <1>0, <2>1, AfterFacts, SizeFacts DEF Positions
      <3>2. ASSUME NEW q \in Positions, Between(hole', q, scan') PROVE q = scan
        BY <1>0, <2>1, <3>2, AfterFacts, SizeFacts DEF Positions, Between
      <3>3. lookup_id'[scan] # NoId BY <1>0, <2>3
      <3>4. \A pos \in Positions : Held(pos)' => ~Between(hole', pos, scan')
        BY <1>0, <2>5, <3>2
      <3> QED BY <3>1, <3>2, <3>3, <3>4 DEF ShiftInv, Between
    <2> QED BY <1>2, <2>2, <2>4, <2>7, <2>8, <2>9
  <1>6. CASE ~crosses
    <2>1. lookup_id' = lookup_id /\ lookup_order' = lookup_order /\ hole' = hole
      BY <1>6 DEF shift
    <2>2. TypeOK' BY <1>0, <2>1 DEF TypeOK
    <2>3. NeverFull' BY <2>1 DEF NeverFull
    <2>4. \A pos : Held(pos)' <=> Held(pos) BY <1>0, <2>1 DEF Held
    <2>5. EntriesExact' BY <1>0, <1>1, <2>1, <2>4 DEF EntriesExact
    <2>6. ChainsWhole' BY <2>1, <2>4 DEF ChainsWhole, Between
    <2>7. ShiftInv'
      <3>1. ASSUME NEW q \in Positions, q # hole, q # scan, after(scan) = hole
            PROVE  Between(hole, q, scan)
        BY <1>0, <3>1, AfterFacts, SizeFacts DEF Positions, Between
      <3>2. hole # after(scan) BY <1>0, <1>3, <3>1 DEF NeverFull, ShiftInv
      <3>3. ASSUME NEW q \in Positions, Between(hole, q, after(scan)), q # scan
            PROVE  Between(hole, q, scan)
        BY <1>0, <3>2, <3>3, AfterFacts, SizeFacts DEF Positions, Between
      <3>4. ~Between(hash[lookup_id[scan]], hole, scan)
        BY <1>0, <1>4, <1>6 DEF crosses, Between, Positions
      <3>5. \A q \in Positions : Between(hole, q, after(scan)) => lookup_id[q] # NoId
        BY <1>0, <3>3 DEF ShiftInv
      <3>6. \A pos \in Positions :
               Held(pos) /\ Between(hash[lookup_id[pos]], hole, pos)
               => ~Between(hole, pos, after(scan))
        BY <1>0, <3>3, <3>4 DEF ShiftInv
      <3> QED BY <1>0, <2>1, <2>4, <3>2, <3>5, <3>6 DEF ShiftInv, Between
    <2> QED BY <1>2, <2>2, <2>3, <2>5, <2>6, <2>7
  <1> QED BY <1>5, <1>6

(* Leaving the loop: the hole becomes an empty slot. *)
LEMMA ClearPreserves == LoopInv /\ clear_hole => LoopInv'
  <1> SUFFICES ASSUME LoopInv, clear_hole PROVE LoopInv' OBVIOUS
  <1> USE DEF LoopInv
  <1>0. /\ pc = "shift" /\ pc' = "idle" /\ hole \in Positions /\ scan \in Positions
        /\ lookup_id[scan] = NoId /\ dict' = dict /\ hole # scan
        /\ lookup_id' = [lookup_id EXCEPT ![hole] = NoId]
        /\ lookup_order' = [lookup_order EXCEPT ![hole] = NoOrder]
    BY DEF clear_hole, TypeOK, ShiftInv
  <1>1. Live' = Live BY <1>0 DEF Live
  <1>2. PoolBound' BY <1>1 DEF PoolBound
  <1>3. TypeOK' BY <1>0 DEF TypeOK, clear_hole
  <1>4. NeverFull' BY <1>0 DEF NeverFull, TypeOK
  <1>5. \A pos \in Positions : Held(pos)' <=> Held(pos) BY <1>0 DEF Held, TypeOK
  <1>6. \A pos \in Positions : Held(pos) => pos # hole BY <1>0 DEF Held
  <1>7. EntriesExact' BY <1>0, <1>1, <1>5, <1>6 DEF EntriesExact, TypeOK
  <1>8. ChainsWhole'
    <2> SUFFICES ASSUME NEW pos \in Positions, NEW q \in Positions,
                        Held(pos)', Between(hash[lookup_id'[pos]], q, pos)
                 PROVE  lookup_id'[q] # NoId
      BY DEF ChainsWhole, Between
    <2>1. Held(pos) /\ pos # hole /\ lookup_id'[pos] = lookup_id[pos]
      BY <1>0, <1>5, <1>6 DEF TypeOK
    <2>2. hash[lookup_id[pos]] \in Positions BY <2>1, HashAssumption DEF Held, TypeOK
    <2>3. ASSUME q = hole PROVE FALSE
      <3>1. ~Between(hole, pos, scan) BY <1>0, <2>1, <2>3 DEF ShiftInv
      <3>2. pos # scan BY <1>0, <2>1 DEF Held
      <3>3. Between(hash[lookup_id[pos]], scan, pos)
        BY <1>0, <2>1, <2>2, <2>3, <3>1, <3>2 DEF Between, Positions
      <3> QED BY <1>0, <2>1, <3>3 DEF ChainsWhole
    <2> QED BY <1>0, <2>1, <2>3 DEF ChainsWhole, TypeOK
  <1> QED BY <1>0, <1>2, <1>3, <1>4, <1>7, <1>8 DEF ShiftInv

(* Erasing an id takes its slot as the hole. *)
LEMMA ErasePreserves ==
  ASSUME NEW id \in Ids, LoopInv, lookup_erase(id)
  PROVE  LoopInv'
  <1> USE DEF LoopInv
  <1>1. PICK n \in Positions : /\ ends(id, n) /\ lookup_id[probe(id, n)] = id
                              /\ hole' = probe(id, n) /\ scan' = after(probe(id, n))
    BY DEF lookup_erase
  <1> DEFINE h == probe(id, n)
  <1>2. h \in Positions BY ProbeFacts
  <1>3. /\ pc = "idle" /\ pc' = "shift" /\ dict' = [dict EXCEPT ![id] = NoOrder]
        /\ lookup_id' = lookup_id /\ lookup_order' = lookup_order
        /\ hole' = h /\ scan' = after(h) /\ lookup_id[h] = id /\ lookup_id[h] # NoId
    BY <1>1, NoneAssumption DEF lookup_erase
  <1> HIDE DEF h
  <1>4. TypeOK' BY <1>2, <1>3, AfterFacts DEF TypeOK
  <1>5. Live' = Live \ {id} BY <1>3 DEF Live, TypeOK
  <1>6. PoolBound'
    <2>1. IsFiniteSet(Live') /\ Cardinality(Live') <= Cardinality(Live)
      <3>1. IsFiniteSet(Live) BY DEF PoolBound
      <3>2. Cardinality(Live) \in Nat BY <3>1, FS_CardinalityType
      <3>3. /\ IsFiniteSet(Live \ {id})
            /\ Cardinality(Live \ {id}) =
                 IF id \in Live THEN Cardinality(Live) - 1 ELSE Cardinality(Live)
        BY <3>1, FS_RemoveElement, Zenon
      <3> QED BY <1>5, <3>2, <3>3
    <2> QED BY <2>1, FS_CardinalityType, PoolAssumption DEF PoolBound
  <1>7. NeverFull' BY <1>3 DEF NeverFull
  <1>8. \A pos \in Positions : Held(pos)' <=> Held(pos) /\ pos # h BY <1>3 DEF Held
  <1>9. Held(h) BY <1>3 DEF Held
  <1>10. EntriesExact'
    <2>1. \A pos \in Positions : Held(pos)' => lookup_id[pos] # id
      BY <1>2, <1>3, <1>8, <1>9 DEF EntriesExact
    <2>2. \A pos \in Positions : Held(pos)' => dict'[lookup_id[pos]] = dict[lookup_id[pos]]
      BY <1>3, <1>8, <2>1 DEF TypeOK, Held
    <2>3. ASSUME NEW i \in Live' PROVE \E pos \in Positions : (Held(pos) /\ lookup_id[pos] = i)'
      <3>1. PICK pos \in Positions : Held(pos) /\ lookup_id[pos] = i BY <1>5 DEF EntriesExact
      <3>2. pos # h BY <1>3, <1>5, <3>1
      <3> QED BY <1>3, <1>8, <3>1, <3>2
    <2> QED BY <1>3, <1>8, <2>2, <2>3 DEF EntriesExact
  <1>11. ChainsWhole' BY <1>3, <1>8 DEF ChainsWhole, Between
  <1>12. ShiftInv'
    <2>1. h # after(h) BY <1>2, AfterFacts, SizeFacts DEF Positions
    <2>2. \A q \in Positions : Between(h, q, after(h)) => q = h
      BY <1>2, AfterFacts, SizeFacts DEF Positions, Between
    <2>3. \A pos \in Positions : Held(pos)' => ~Between(h, pos, after(h)) BY <1>8, <2>2
    <2> QED BY <1>2, <1>3, <2>1, <2>2, <2>3 DEF ShiftInv, Between
  <1> QED BY <1>4, <1>6, <1>7, <1>10, <1>11, <1>12

(* An insertion fills the first empty slot of its probe sequence. *)
LEMMA InsertPreserves ==
  ASSUME NEW id \in Ids, NEW o \in Orders, LoopInv, lookup_insert(id, o)
  PROVE  LoopInv'
  <1> USE DEF LoopInv
  <1>0. /\ pc = "idle" /\ pc' = "idle" /\ dict[id] = NoOrder /\ Cardinality(Live) < MaxOrders
        /\ UNCHANGED <<hole, scan>>
    BY DEF lookup_insert
  <1>1. CASE UNCHANGED <<lookup_id, lookup_order, dict>>
    <2>1. UNCHANGED vars BY <1>0, <1>1 DEF vars
    <2> QED BY <2>1 DEF vars, TypeOK, PoolBound, Live, EntriesExact, ChainsWhole, NeverFull,
                        ShiftInv, Held, Between
  <1>2. CASE ~UNCHANGED <<lookup_id, lookup_order, dict>>
    <2>1. PICK n \in Positions :
             /\ ends(id, n)
             /\ lookup_id'    = [lookup_id EXCEPT ![probe(id, n)] = id]
             /\ lookup_order' = [lookup_order EXCEPT ![probe(id, n)] = o]
      BY <1>2 DEF lookup_insert
    <2> DEFINE new == probe(id, n)
    <2>2. new \in Positions BY ProbeFacts
    <2>3. dict' = [dict EXCEPT ![id] = o] BY <1>2 DEF lookup_insert
    <2>4. \A pos \in Positions : lookup_id[pos] # id
      BY <1>0, IdleHeld, NoneAssumption DEF EntriesExact
    <2>5. lookup_id[new] = NoId BY <2>1, <2>2, <2>4 DEF ends, stops
    <2>6. ASSUME NEW q \in Positions, Between(hash[id], q, new) PROVE lookup_id[q] # NoId
      <3>1. PICK m \in Positions : probe(id, m) = q BY ProbeReaches
      <3>2. m < n BY <2>6, <3>1, ProbeOrder
      <3>3. m \in 0 .. n - 1 BY <3>2, SizeFacts DEF Positions
      <3> QED BY <2>1, <3>1, <3>3 DEF ends, stops
    <2>7. /\ lookup_id' = [lookup_id EXCEPT ![new] = id]
          /\ lookup_order' = [lookup_order EXCEPT ![new] = o]
      BY <2>1
    <2> HIDE DEF new
    <2>8. TypeOK' BY <1>0, <2>2, <2>3, <2>7 DEF TypeOK
    <2>9. Live' = Live \cup {id} BY <2>3, NoneAssumption DEF Live, TypeOK
    <2>10. PoolBound'
      <3>1. IsFiniteSet(Live') /\ Cardinality(Live') <= Cardinality(Live) + 1
        <4>1. IsFiniteSet(Live) BY DEF PoolBound
        <4>2. Cardinality(Live) \in Nat BY <4>1, FS_CardinalityType
        <4>3. /\ IsFiniteSet(Live \cup {id})
              /\ Cardinality(Live \cup {id}) =
                   IF id \in Live THEN Cardinality(Live) ELSE Cardinality(Live) + 1
          BY <4>1, FS_AddElement, Zenon
        <4> QED BY <2>9, <4>2, <4>3
      <3> QED BY <1>0, <3>1, FS_CardinalityType, PoolAssumption DEF PoolBound
    <2>11. \A pos \in Positions : Held(pos)' <=> Held(pos) \/ pos = new
      BY <1>0, <2>2, <2>7, NoneAssumption DEF Held, TypeOK
    <2>12. ~Held(new) BY <2>5 DEF Held
    <2>13. EntriesExact'
      <3>1. \A pos \in Positions : Held(pos)' =>
               dict'[lookup_id'[pos]] # NoOrder /\ lookup_order'[pos] = dict'[lookup_id'[pos]]
        <4>1. ASSUME NEW pos \in Positions, Held(pos)
              PROVE  /\ lookup_id'[pos] = lookup_id[pos] /\ lookup_order'[pos] = lookup_order[pos]
                     /\ dict'[lookup_id[pos]] = dict[lookup_id[pos]]
          BY <2>2, <2>3, <2>4, <2>7, <2>12, <4>1 DEF TypeOK, Held
        <4>2. /\ lookup_id'[new] = id /\ lookup_order'[new] = o /\ dict'[id] = o
          BY <2>2, <2>3, <2>7 DEF TypeOK
        <4> QED BY <2>11, <4>1, <4>2, NoneAssumption DEF EntriesExact
      <3>2. \A p, q \in Positions : (Held(p) /\ Held(q) /\ lookup_id[p] = lookup_id[q])' => p = q
        BY <2>2, <2>4, <2>7, <2>11 DEF EntriesExact, TypeOK
      <3>3. ASSUME NEW i \in Live' PROVE \E pos \in Positions : (Held(pos) /\ lookup_id[pos] = i)'
        <4>1. CASE i = id BY <2>2, <2>7, <2>11, <4>1 DEF TypeOK
        <4>2. CASE i # id
          <5>1. PICK pos \in Positions : Held(pos) /\ lookup_id[pos] = i
            BY <2>9, <4>2 DEF EntriesExact
          <5> QED BY <2>7, <2>11, <2>12, <5>1 DEF TypeOK
        <4> QED BY <4>1, <4>2
      <3>4. \A pos \in Positions : lookup_id'[pos] = NoId => lookup_order'[pos] = NoOrder
        BY <2>2, <2>7, NoneAssumption DEF EntriesExact, TypeOK
      <3> QED BY <3>1, <3>2, <3>3, <3>4 DEF EntriesExact
    <2>14. \A q \in Positions : lookup_id[q] # NoId => lookup_id'[q] # NoId
      BY <2>2, <2>7, NoneAssumption DEF TypeOK
    <2>15. ChainsWhole'
      <3> SUFFICES ASSUME NEW pos \in Positions, NEW q \in Positions,
                          Held(pos)', Between(hash[lookup_id'[pos]], q, pos)
                   PROVE  lookup_id'[q] # NoId
        BY DEF ChainsWhole, Between
      <3>1. CASE pos = new BY <2>2, <2>6, <2>7, <2>14, <3>1 DEF TypeOK
      <3>2. CASE pos # new
        <4>1. Held(pos) /\ lookup_id'[pos] = lookup_id[pos] BY <2>7, <2>11, <3>2 DEF TypeOK
        <4> QED BY <2>14, <4>1 DEF ChainsWhole
      <3> QED BY <3>1, <3>2
    <2>16. NeverFull'
      <3> SUFFICES ASSUME \A pos \in Positions : lookup_id'[pos] # NoId PROVE FALSE
        BY DEF NeverFull
      <3>1. \A pos \in Positions : Held(pos)' BY <1>0 DEF Held
      <3>2. lookup_id' \in [Positions -> Live'] BY <2>8, <3>1, <2>13 DEF EntriesExact, TypeOK, Live
      <3>3. \A p, q \in Positions : lookup_id'[p] = lookup_id'[q] => p = q
        BY <2>13, <3>1 DEF EntriesExact
      <3> QED BY <2>10, <3>2, <3>3, Pigeonhole DEF PoolBound
    <2> QED BY <1>0, <2>8, <2>10, <2>13, <2>15, <2>16 DEF ShiftInv
  <1> QED BY <1>1, <1>2
-----------------------------------------------------------------------------
(* The invariant of the table and of the shift loop, for every LookupSize  *)
(* and every hash.                                                         *)
THEOREM LookupInvariant == Spec => []LoopInv
  <1>1. ASSUME LoopInv, [Next]_vars PROVE LoopInv'
    <2>1. CASE UNCHANGED vars
      BY <1>1, <2>1 DEF LoopInv, vars, TypeOK, PoolBound, Live, EntriesExact, ChainsWhole,
                        NeverFull, ShiftInv, Held, Between
    <2>2. CASE \E id \in Ids, o \in Orders : lookup_insert(id, o)
      BY <1>1, <2>2, InsertPreserves
    <2>3. CASE \E id \in Ids : lookup_erase(id) BY <1>1, <2>3, ErasePreserves
    <2>4. CASE shift BY <1>1, <2>4, ShiftPreserves
    <2>5. CASE clear_hole BY <1>1, <2>5, ClearPreserves
    <2> QED BY <1>1, <2>1, <2>2, <2>3, <2>4, <2>5 DEF Next
  <1> QED BY <1>1, InitEstablishes, PTL DEF Spec

(* lookup_find() is right after any sequence of inserts and erases. *)
THEOREM LookupIsExact == Spec => []FindExact
  BY LookupInvariant, FindFollows, PTL

(* The table never fills up, so add() never reports lookup_full and the    *)
(* probe and shift loops always meet an empty slot.                        *)
THEOREM LookupNeverFull == Spec => []NeverFull
  <1>1. LoopInv => NeverFull BY DEF LoopInv
  <1> QED BY <1>1, LookupInvariant, PTL
=============================================================================
