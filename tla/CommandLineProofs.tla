------------------------- MODULE CommandLineProofs --------------------------
(***************************************************************************)
(* For every feed: what decode_capture() lets through to the book is a     *)
(* prefix of the session, in order and without repeats, and the exit       *)
(* status 0 of main() can be relied on.                                    *)
(***************************************************************************)
EXTENDS CommandLine, FiniteSetTheorems, WellFoundedInduction, TLAPS

(* Below the wrap the arithmetic of sequence numbers is that of integers.  *)
LEMMA BelowWrap ==
    /\ \A x \in Nat : x % Wrap \in 0 .. Wrap - 1
    /\ \A x \in Nat : x < Wrap => x % Wrap = x
  BY FeedAssumption

(* The fields of a datagram, and of one that carries messages.             *)
LEMMA DatagramFacts ==
    ASSUME NEW d \in Datagrams
    PROVE  /\ d.kind = "mold" /\ d.sequence \in 0 .. Wrap - 1 /\ d.message_count \in Nat
           /\ advances(d) \in Nat
           /\ control(d) => advances(d) = 0
           /\ ~control(d) => /\ d.message_count \in 1 .. MaxCount /\ advances(d) = d.message_count
                             /\ d.lengths \in [1 .. d.message_count -> Lengths]
  <1>1. CASE d \in [kind : {"mold"}, session : Sessions, sequence : Sequences_,
                    message_count : {0, EndOfSession}, lengths : {<<>>}, body : {0, 1}]
    <2>1. /\ d.kind = "mold" /\ d.sequence \in Sequences_ /\ d.message_count \in {0, EndOfSession}
      BY <1>1
    <2>2. d.sequence \in 0 .. Wrap - 1 BY <2>1, FeedAssumption
    <2> QED BY ONLY <2>1, <2>2 DEF control, advances, EndOfSession
  <1>2. CASE \E n \in 1 .. MaxCount :
                d \in [kind : {"mold"}, session : Sessions, sequence : Sequences_,
                       message_count : {n}, lengths : [1 .. n -> Lengths], body : 0 .. MaxBody]
    <2>1. PICK n \in 1 .. MaxCount :
                d \in [kind : {"mold"}, session : Sessions, sequence : Sequences_,
                       message_count : {n}, lengths : [1 .. n -> Lengths], body : 0 .. MaxBody]
      BY <1>2
    <2>2. /\ d.kind = "mold" /\ d.sequence \in Sequences_ /\ d.message_count = n
          /\ d.lengths \in [1 .. n -> Lengths]
      BY <2>1
    <2>3. d.sequence \in 0 .. Wrap - 1 BY <2>2, FeedAssumption
    <2>4. MaxCount \in Nat /\ n \in 1 .. MaxCount BY FeedAssumption
    <2>5. d.lengths \in [1 .. d.message_count -> Lengths] BY <2>2
    <2> QED BY ONLY <2>2, <2>3, <2>4, <2>5 DEF control, advances, EndOfSession
  <1> QED BY <1>1, <1>2 DEF Datagrams

(* A least counterexample exists. *)
LEMMA LeastNat ==
    ASSUME NEW T \in SUBSET Nat, T # {}
    PROVE  \E n \in T : \A m \in T : n <= m
  <1> DEFINE R == OpToRel(<, Nat)
  <1>1. IsWellFoundedOn(R, Nat) BY NatLessThanWellFounded
  <1>2. \A x, y \in Nat : x < y => <<x, y>> \in R BY DEF OpToRel
  <1> HIDE DEF R
  <1>3. PICK n \in T : \A m \in T : ~(<<m, n>> \in R) BY <1>1, WFMin
  <1>4. ASSUME NEW m \in T PROVE n <= m
    <2>1. m \in Nat /\ n \in Nat OBVIOUS
    <2>2. ~(m < n) BY <1>2, <1>3, <2>1
    <2> QED BY <2>1, <2>2
  <1> QED BY <1>4

(* The validation loop's positions: the recursion has a solution ...       *)
Position(d, g, k) == IF k = 1 THEN 0 ELSE g[k - 1] + 2 + d.lengths[k - 1]
LEMMA PositionsExist ==
    ASSUME NEW d
    PROVE  \E g : g = [k \in 1 .. MaxCount + 1 |-> Position(d, g, k)]
  <1> DEFINE N == MaxCount + 1
             Has(m) == \E g : g = [k \in 1 .. m |-> Position(d, g, k)]
             Bad == {m \in 0 .. N : ~Has(m)}
  <1>0. N \in Nat BY FeedAssumption
  <1>1. Has(0)
    <2> DEFINE g == [k \in 1 .. 0 |-> 0]
    <2>1. \A k \in 1 .. 0 : Position(d, g, k) = 0
      <3>1. \A k \in 1 .. 0 : FALSE OBVIOUS
      <3> QED BY <3>1
    <2>2. g = [k \in 1 .. 0 |-> Position(d, g, k)] BY <2>1
    <2> QED BY <2>2
  <1>2. ASSUME NEW m \in 0 .. N - 1, Has(m) PROVE Has(m + 1)
    <2>1. PICK h : h = [k \in 1 .. m |-> Position(d, h, k)] BY <1>2
    <2> DEFINE g == [k \in 1 .. m + 1 |-> Position(d, h, k)]
    <2>2. ASSUME NEW k \in 1 .. m + 1 PROVE Position(d, g, k) = Position(d, h, k)
      <3>1. CASE k = 1 BY <3>1 DEF Position
      <3>2. CASE k # 1
        <4>1. k - 1 \in 1 .. m /\ k - 1 \in 1 .. m + 1 BY <1>0, <3>2
        <4>2. h[k - 1] = Position(d, h, k - 1) BY <2>1, <4>1
        <4>3. g[k - 1] = h[k - 1] BY <4>1, <4>2
        <4> HIDE DEF g
        <4> QED BY <3>2, <4>3 DEF Position
      <3> QED BY <3>1, <3>2
    <2>3. g = [k \in 1 .. m + 1 |-> Position(d, g, k)]
      <3>1. [k \in 1 .. m + 1 |-> Position(d, g, k)] = [k \in 1 .. m + 1 |-> Position(d, h, k)]
        <4> HIDE DEF g
        <4> QED BY <2>2
      <3> QED BY <3>1, Zenon
    <2> HIDE DEF g
    <2> QED BY <2>3
  <1> HIDE DEF Has
  <1>3. ASSUME NEW m \in Bad PROVE FALSE
    <2>1. Bad \in SUBSET Nat OBVIOUS
    <2>2. PICK j \in Bad : \A i \in Bad : j <= i
      <3> HIDE DEF Bad
      <3> QED BY <1>3, <2>1, LeastNat
    <2>3. j \in 0 .. N /\ ~Has(j) /\ j # 0 BY <1>1, <2>2
    <2>4. j - 1 \in 0 .. N - 1 /\ j - 1 \notin Bad BY <1>0, <2>2, <2>3
    <2>5. Has(j - 1) BY <1>0, <2>4
    <2>6. Has((j - 1) + 1) BY <1>2, <2>4, <2>5
    <2>7. (j - 1) + 1 = j BY <2>3
    <2> QED BY <2>3, <2>6, <2>7
  <1>4. Has(N) BY <1>0, <1>3
  <1> QED BY <1>4 DEF Has

(* ... which position() reads. *)
LEMMA PositionSteps ==
    ASSUME NEW d, NEW k \in 1 .. MaxCount + 1
    PROVE  position(d, k) = IF k = 1 THEN 0 ELSE position(d, k - 1) + 2 + d.lengths[k - 1]
  <1> DEFINE c == CHOOSE g : g = [j \in 1 .. MaxCount + 1 |->
                                    IF j = 1 THEN 0 ELSE g[j - 1] + 2 + d.lengths[j - 1]]
  <1>1. \A i : position(d, i) = c[i] BY DEF position
  <1>2. c = [j \in 1 .. MaxCount + 1 |-> IF j = 1 THEN 0 ELSE c[j - 1] + 2 + d.lengths[j - 1]]
    <2>1. PICK h : h = [j \in 1 .. MaxCount + 1 |-> Position(d, h, j)] BY PositionsExist
    <2>2. h = [j \in 1 .. MaxCount + 1 |-> IF j = 1 THEN 0 ELSE h[j - 1] + 2 + d.lengths[j - 1]]
      BY <2>1, Zenon DEF Position
    <2> QED BY <2>2
  <1> HIDE DEF c
  <1>3. c[k] = IF k = 1 THEN 0 ELSE c[k - 1] + 2 + d.lengths[k - 1] BY <1>2
  <1> QED BY <1>1, <1>3

(* The positions of a datagram's messages rise up to the end of the last.  *)
LEMMA PositionsRise ==
    ASSUME NEW d \in Datagrams, ~control(d)
    PROVE  /\ \A k \in 1 .. d.message_count :
                 /\ position(d, k) \in Nat /\ d.lengths[k] \in Nat
                 /\ position(d, k + 1) = position(d, k) + 2 + d.lengths[k]
                 /\ position(d, k + 1) <= position(d, d.message_count + 1)
           /\ position(d, d.message_count + 1) \in Nat
  <1> DEFINE n == d.message_count
             p(k) == position(d, k)
             Untyped == {k \in 1 .. n + 1 : p(k) \notin Nat}
             Late == {k \in 0 .. n : ~(p(n + 1 - k) <= p(n + 1))}
  <1>0. n \in 1 .. MaxCount /\ MaxCount \in Nat BY DatagramFacts, FeedAssumption
  <1>1. \A k \in 1 .. n : d.lengths[k] \in Nat BY DatagramFacts, FeedAssumption
  <1>2. 1 \in 1 .. MaxCount + 1 /\ p(1) = 0 BY <1>0, PositionSteps
  <1>3. ASSUME NEW k \in 1 .. n PROVE p(k + 1) = p(k) + 2 + d.lengths[k]
    <2>1. k + 1 \in 1 .. MaxCount + 1 /\ k + 1 # 1 /\ (k + 1) - 1 = k BY <1>0
    <2>2. p(k + 1) = p((k + 1) - 1) + 2 + d.lengths[(k + 1) - 1]
      BY <2>1, PositionSteps
    <2> QED BY <2>1, <2>2
  <1> HIDE DEF n, p
  <1>4. ASSUME NEW x \in Untyped PROVE FALSE
    <2>1. Untyped \in SUBSET Nat BY <1>0
    <2>2. PICK k \in Untyped : \A i \in Untyped : k <= i
      <3> HIDE DEF Untyped
      <3> QED BY <1>4, <2>1, LeastNat
    <2>3. k \in 1 .. n + 1 /\ p(k) \notin Nat /\ k # 1 BY <1>2, <2>2
    <2>4. k - 1 \in 1 .. n /\ k - 1 \in 1 .. n + 1 /\ (k - 1) + 1 = k /\ ~(k <= k - 1)
      BY <1>0, <2>3
    <2>5. p(k - 1) \in Nat BY <2>2, <2>4
    <2>6. p((k - 1) + 1) = p(k - 1) + 2 + d.lengths[k - 1] /\ d.lengths[k - 1] \in Nat
      BY <1>1, <1>3, <2>4
    <2> QED BY <2>3, <2>4, <2>5, <2>6
  <1>5. \A k \in 1 .. n + 1 : p(k) \in Nat BY <1>4
  <1>6. ASSUME NEW x \in Late PROVE FALSE
    <2>1. Late \in SUBSET Nat BY <1>0
    <2>2. PICK k \in Late : \A i \in Late : k <= i
      <3> HIDE DEF Late
      <3> QED BY <1>6, <2>1, LeastNat
    <2>3. k \in 0 .. n /\ ~(p(n + 1 - k) <= p(n + 1)) BY <2>2
    <2>4. n + 1 \in 1 .. n + 1 /\ n + 1 - 0 = n + 1 BY <1>0
    <2>5. k # 0 BY <1>5, <2>3, <2>4
    <2>6. k - 1 \in 0 .. n /\ ~(k <= k - 1) BY <1>0, <2>3, <2>5
    <2>7. p(n + 1 - (k - 1)) <= p(n + 1) BY <2>2, <2>6
    <2> DEFINE i == n + 1 - k
    <2>8. i \in 1 .. n /\ i \in 1 .. n + 1 /\ n + 1 - (k - 1) = i + 1 /\ i + 1 \in 1 .. n + 1
      BY <1>0, <2>3, <2>5
    <2>9. ~(p(i) <= p(n + 1)) /\ p(i + 1) <= p(n + 1) BY <2>3, <2>7, <2>8
    <2> HIDE DEF i
    <2>10. p(i + 1) = p(i) + 2 + d.lengths[i] /\ d.lengths[i] \in Nat BY <1>1, <1>3, <2>8
    <2>11. p(i) \in Nat /\ p(i + 1) \in Nat /\ p(n + 1) \in Nat BY <1>5, <2>4, <2>8
    <2> QED BY <2>9, <2>10, <2>11
  <1>7. ASSUME NEW k \in 1 .. n PROVE p(k + 1) <= p(n + 1)
    <2>1. n - k \in 0 .. n /\ n + 1 - (n - k) = k + 1 BY <1>0
    <2>2. n - k \notin Late BY <1>6
    <2>3. p(n + 1 - (n - k)) <= p(n + 1) BY <2>1, <2>2
    <2> QED BY <2>1, <2>3
  <1>8. \A k \in 1 .. n : k \in 1 .. n + 1 BY <1>0
  <1>9. n + 1 \in 1 .. n + 1 BY <1>0
  <1> QED BY <1>1, <1>3, <1>5, <1>7, <1>8, <1>9 DEF n, p

(* decode() finds no fault exactly with a datagram that its messages fill. *)
LEMMA ValidIffFilled ==
    ASSUME NEW d \in Datagrams
    PROVE  validate(d) = "none" <=> Fills(d)
  <1>1. CASE control(d) BY <1>1 DEF validate, Fills
  <1>2. CASE ~control(d)
    <2> DEFINE n == d.message_count
    <2>1. Fills(d) <=> d.body = position(d, n + 1) BY <1>2 DEF Fills
    <2>2. ASSUME d.body = position(d, n + 1), NEW i \in 1 .. n
          PROVE  ~(d.body - position(d, i) < 2 + d.lengths[i])
      <3>1. /\ position(d, i) \in Nat /\ d.lengths[i] \in Nat /\ position(d, n + 1) \in Nat
            /\ position(d, i) + 2 + d.lengths[i] <= position(d, n + 1)
        BY <1>2, PositionsRise
      <3> QED BY <2>2, <3>1
    <2>3. validate(d) = IF \E i \in 1 .. n :
                              /\ d.body - position(d, i) < 2 + d.lengths[i]
                              /\ \A k \in 1 .. i - 1 :
                                    d.body - position(d, k) >= 2 + d.lengths[k]
                        THEN "truncated"
                        ELSE IF position(d, n + 1) # d.body THEN "trailing_bytes" ELSE "none"
      BY <1>2 DEF validate
    <2> HIDE DEF n
    <2>4. ASSUME d.body = position(d, n + 1) PROVE validate(d) = "none"
      BY <2>2, <2>3, <2>4
    <2>5. ASSUME d.body # position(d, n + 1) PROVE validate(d) # "none"
      BY <2>3, <2>5
    <2> QED BY <2>1, <2>4, <2>5 DEF n
  <1> QED BY <1>1, <1>2

(* Division with remainder, and its uniqueness. *)
LEMMA WrapDiv ==
    ASSUME NEW a \in Int
    PROVE  a % Wrap \in 0 .. Wrap - 1 /\ \E q \in Int : a = Wrap * q + (a % Wrap)
  <1>1. Wrap \in Nat /\ Wrap > 0 BY FeedAssumption
  <1>2. a % Wrap \in 0 .. Wrap - 1 BY <1>1, SMT
  <1>3. a \div Wrap \in Int BY <1>1, SMT
  <1>4. a = Wrap * (a \div Wrap) + (a % Wrap) BY <1>1, SMT
  <1> QED BY <1>2, <1>3, <1>4
LEMMA WrapUnique ==
    ASSUME NEW q \in Int, NEW r \in 0 .. Wrap - 1, NEW a \in Int, a = Wrap * q + r
    PROVE  a % Wrap = r
  <1>0. Wrap \in Nat /\ Wrap > 0 BY FeedAssumption
  <1>1. PICK e \in Int : a = Wrap * e + (a % Wrap) BY WrapDiv
  <1>2. a % Wrap \in 0 .. Wrap - 1 BY WrapDiv
  <1>3. Wrap * (q - e) = (a % Wrap) - r
    <2>1. Wrap * (q - e) = Wrap * q - Wrap * e BY <1>0, SMT
    <2> QED BY <1>0, <1>1, <1>2, <2>1
  <1>4. q - e >= 1 => Wrap * (q - e) >= Wrap BY <1>0, SMT
  <1>5. q - e <= -1 => Wrap * (q - e) <= -Wrap BY <1>0, SMT
  <1>6. q = e BY <1>0, <1>2, <1>3, <1>4, <1>5
  <1> QED BY <1>0, <1>1, <1>2, <1>6

(* The number after a wrapped one is the wrapped next number. *)
LEMMA WrapNext ==
    ASSUME NEW a \in Nat
    PROVE  ((a % Wrap) + 1) % Wrap = (a + 1) % Wrap
  <1>0. Wrap \in Nat /\ Wrap > 0 BY FeedAssumption
  <1>1. PICK q \in Int : a = Wrap * q + (a % Wrap) BY WrapDiv
  <1>2. a % Wrap \in 0 .. Wrap - 1 BY WrapDiv
  <1>3. Wrap * (q + 1) = Wrap * q + Wrap BY <1>0, SMT
  <1>4. CASE (a % Wrap) + 1 < Wrap
    <2>1. (a % Wrap) + 1 \in 0 .. Wrap - 1 /\ (a % Wrap) + 1 \in Nat BY <1>0, <1>2, <1>4
    <2>2. a + 1 = Wrap * q + ((a % Wrap) + 1) BY <1>0, <1>1, <1>2
    <2>3. (a + 1) % Wrap = (a % Wrap) + 1 BY <2>1, <2>2, WrapUnique
    <2>4. ((a % Wrap) + 1) % Wrap = (a % Wrap) + 1 BY <1>4, <2>1, BelowWrap
    <2> QED BY <2>3, <2>4
  <1>5. CASE (a % Wrap) + 1 = Wrap
    <2>1. a + 1 = Wrap * (q + 1) + 0 BY <1>0, <1>1, <1>2, <1>3, <1>5
    <2>2. q + 1 \in Int /\ 0 \in 0 .. Wrap - 1 /\ a + 1 \in Int BY <1>0
    <2>3. (a + 1) % Wrap = 0 BY <2>1, <2>2, WrapUnique
    <2>4. Wrap = Wrap * 1 + 0 /\ Wrap \in Int BY <1>0, SMT
    <2>5. Wrap % Wrap = 0 BY <2>2, <2>4, WrapUnique
    <2> QED BY <1>5, <2>3, <2>5
  <1> QED BY <1>0, <1>2, <1>4, <1>5

(* What observe() and the gate do, status by status.                       *)
New(d)      == status(tracker, d) \in {"initialized", "new_session"}
Dispatch(d) == ~control(d) /\ gate(sequence_valid, status(tracker, d)).pass
-----------------------------------------------------------------------------
(* The inductive invariant of the gate: besides what is promised, the gate *)
(* is shut exactly since a gap, and what was dispatched lies below what is *)
(* expected next.                                                          *)
Rising == ~crossed => /\ \A i \in 1 .. Len(log) - 1 : log[i] < log[i + 1]
                      /\ log # <<>> => log[Len(log)] < tracker.expected
FeedInv ==
    /\ tracker.expected \in 0 .. Wrap - 1 /\ start \in Nat /\ log \in Seq(Nat)
    /\ gapped \in BOOLEAN /\ rewound \in BOOLEAN /\ sequence_valid = ~gapped
    /\ ~tracker.initialized => log = <<>> /\ ~gapped
    /\ Rising /\ BookGetsPrefix

(* Before the first packet nothing was seen and nothing dispatched. *)
LEMMA FeedInit == Init => FeedInv
  <1> SUFFICES ASSUME Init PROVE FeedInv OBVIOUS
  <1>1. /\ tracker.expected = 0 /\ ~tracker.initialized /\ start = 0 /\ log = <<>>
        /\ gapped = FALSE /\ rewound = FALSE /\ sequence_valid = TRUE
    BY DEF Init
  <1>2. 0 \in 0 .. Wrap - 1 BY FeedAssumption
  <1>3. Rising /\ BookGetsPrefix BY <1>1 DEF Rising, BookGetsPrefix
  <1>4. log \in Seq(Nat) BY <1>1
  <1> QED BY ONLY <1>1, <1>2, <1>3, <1>4 DEF FeedInv

(* The sequence numbers of a datagram that does not run into the wrap.     *)
LEMMA SequenceFacts ==
    ASSUME NEW d \in Datagrams, ~control(d)
    PROVE  /\ Sequence(d) \in Seq(Nat) /\ Len(Sequence(d)) = d.message_count
           /\ d.sequence + advances(d) < Wrap =>
                 \A i \in 1 .. d.message_count : Sequence(d)[i] = d.sequence + i - 1
  <1>1. d.sequence \in Nat /\ d.message_count \in Nat \ {0} /\ advances(d) = d.message_count
    BY DatagramFacts, FeedAssumption
  <1>2. \A i \in 1 .. d.message_count : d.sequence + i - 1 \in Nat BY <1>1
  <1>3. \A i \in 1 .. d.message_count : (d.sequence + i - 1) % Wrap \in Nat
    <2> TAKE i \in 1 .. d.message_count
    <2>1. (d.sequence + i - 1) % Wrap \in 0 .. Wrap - 1 BY <1>2, BelowWrap
    <2> QED BY <2>1, FeedAssumption
  <1>4. Sequence(d) \in Seq(Nat) /\ Len(Sequence(d)) = d.message_count
    BY <1>1, <1>3 DEF Sequence
  <1>5. ASSUME d.sequence + advances(d) < Wrap, NEW i \in 1 .. d.message_count
        PROVE  Sequence(d)[i] = d.sequence + i - 1
    <2>1. d.sequence + i - 1 < Wrap BY <1>1, <1>5, FeedAssumption
    <2>2. (d.sequence + i - 1) % Wrap = d.sequence + i - 1 BY <1>2, <2>1, BelowWrap
    <2> QED BY <2>2 DEF Sequence
  <1> QED BY <1>4, <1>5

(* One step of Accept, by what observe() found: a new session, a gap, a    *)
(* datagram from the past, or the next one.                                *)
Grows(d, end) ==
    /\ tracker'.expected = IF end > tracker.expected THEN end ELSE tracker.expected
    /\ tracker'.initialized /\ start' = start
    /\ crossed' <=> (crossed \/ d.sequence + advances(d) >= Wrap)
Begins(d, end) ==
    /\ New(d) /\ sequence_valid' = TRUE /\ gapped' = FALSE /\ rewound' = FALSE
    /\ start' = d.sequence /\ tracker'.expected = end /\ tracker'.initialized
    /\ log' = IF control(d) THEN <<>> ELSE Sequence(d)
    /\ crossed' <=> (d.sequence + advances(d) >= Wrap)
Jumps(d, end) ==
    /\ status(tracker, d) = "gap" /\ ~Dispatch(d) /\ Grows(d, end)
    /\ sequence_valid' = FALSE /\ gapped' = TRUE /\ rewound' = rewound /\ log' = log
Returns(d, end) ==
    /\ status(tracker, d) = "rewind" /\ ~Dispatch(d) /\ Grows(d, end)
    /\ sequence_valid' = sequence_valid /\ gapped' = gapped /\ rewound' = TRUE /\ log' = log
Follows(d, end) ==
    /\ status(tracker, d) = "in_order" /\ Grows(d, end)
    /\ d.sequence = tracker.expected /\ tracker.initialized
    /\ sequence_valid' = sequence_valid /\ gapped' = gapped /\ rewound' = rewound
    /\ log' = IF control(d) \/ ~sequence_valid THEN log ELSE log \o Sequence(d)

(* These four are all that the tracker and the gate make of a datagram. *)
LEMMA AcceptFacts ==
    ASSUME FeedInv, NEW d \in Datagrams, Accept(d),
           NEW end, end = (d.sequence + advances(d)) % Wrap
    PROVE  /\ validate(d) = "none" /\ packet' = d /\ tracker' = observe(tracker, d)
           /\ Begins(d, end) \/ Jumps(d, end) \/ Returns(d, end) \/ Follows(d, end)
  <1> DEFINE st == status(tracker, d)
             g  == gate(sequence_valid, st)
             new == st \in {"initialized", "new_session"}
             n == d.message_count
  <1>1. /\ validate(d) = "none" /\ packet' = d /\ tracker' = observe(tracker, d)
        /\ sequence_valid' = g.valid
        /\ start' = IF new THEN d.sequence ELSE start
        /\ log' = (IF new THEN <<>> ELSE log)
                  \o (IF g.pass /\ ~control(d) THEN Sequence(d) ELSE <<>>)
        /\ gapped'  = ((~new /\ gapped) \/ st = "gap")
        /\ rewound' = ((~new /\ rewound) \/ st = "rewind")
        /\ crossed' = ((~new /\ crossed) \/ d.sequence + advances(d) >= Wrap)
    BY DEF Accept
  <1>2. /\ tracker'.initialized
        /\ tracker'.expected = IF new \/ end > tracker.expected THEN end ELSE tracker.expected
    BY <1>1 DEF observe
  <1>3. log \in Seq(Nat) /\ log \o <<>> = log /\ <<>> \o <<>> = <<>> BY DEF FeedInv
  <1>4. ~control(d) => <<>> \o Sequence(d) = Sequence(d) BY SequenceFacts
  <1>5. d.sequence \in Int /\ tracker.expected \in Int
    BY DatagramFacts, FeedAssumption DEF FeedInv
  <1>6. CASE new
    <2>1. New(d) BY <1>6 DEF New
    <2>2. g.pass = TRUE /\ g.valid = TRUE
      <3>1. CASE st = "new_session" BY <3>1 DEF gate
      <3>2. CASE st = "initialized"
        <4>1. ~tracker.initialized BY <3>2 DEF status
        <4>2. sequence_valid = TRUE BY <4>1 DEF FeedInv
        <4>3. g = [pass |-> sequence_valid, valid |-> sequence_valid] BY <3>2 DEF gate
        <4> HIDE DEF g
        <4> QED BY <4>2, <4>3
      <3> QED BY <1>6, <3>1, <3>2
    <2>3. st # "gap" /\ st # "rewind" BY <1>6
    <2> HIDE DEF g, st
    <2>4. log' = IF control(d) THEN <<>> ELSE Sequence(d) BY <1>1, <1>3, <1>4, <1>6, <2>2
    <2>5. gapped' = FALSE /\ rewound' = FALSE BY <1>1, <1>6, <2>3
    <2>6. crossed' <=> (d.sequence + advances(d) >= Wrap) BY <1>1, <1>6
    <2> QED BY <1>1, <1>2, <1>6, <2>1, <2>2, <2>4, <2>5, <2>6 DEF Begins
  <1>7. CASE st = "gap"
    <2>1. ~New(d) /\ ~new BY <1>7 DEF New
    <2>2. g = [pass |-> FALSE, valid |-> FALSE] BY <1>7 DEF gate
    <2>3. ~Dispatch(d) BY <2>2 DEF Dispatch
    <2>4. d.sequence > tracker.expected BY <1>7 DEF status
    <2>5. sequence_valid' = FALSE BY <1>1, <2>2
    <2>6. log' = log BY <1>1, <1>3, <2>1, <2>2
    <2> HIDE DEF g, st, new
    <2>7. gapped' = TRUE BY <1>1, <1>7
    <2>8. rewound' = rewound
      <3>1. rewound' = (rewound \/ FALSE) BY <1>1, <1>7, <2>1
      <3> QED BY <3>1 DEF FeedInv
    <2>9. crossed' <=> (crossed \/ d.sequence + advances(d) >= Wrap) BY <1>1, <2>1
    <2> QED BY <1>1, <1>2, <1>7, <2>1, <2>3, <2>4, <2>5, <2>6, <2>7, <2>8, <2>9 DEF st, Jumps, Grows
  <1>8. CASE st = "rewind"
    <2>1. ~New(d) /\ ~new BY <1>8 DEF New
    <2>2. g = [pass |-> FALSE, valid |-> sequence_valid] BY <1>8 DEF gate
    <2>3. ~Dispatch(d) BY <2>2 DEF Dispatch
    <2>4. d.sequence < tracker.expected BY <1>8 DEF status
    <2>5. sequence_valid' = sequence_valid BY <1>1, <2>2
    <2>6. log' = log BY <1>1, <1>3, <2>1, <2>2
    <2> HIDE DEF g, st, new
    <2>7. rewound' = TRUE BY <1>1, <1>8
    <2>8. gapped' = gapped
      <3>1. gapped' = (gapped \/ FALSE) BY <1>1, <1>8, <2>1
      <3> QED BY <3>1 DEF FeedInv
    <2>9. crossed' <=> (crossed \/ d.sequence + advances(d) >= Wrap) BY <1>1, <2>1
    <2> QED BY <1>1, <1>2, <1>8, <2>1, <2>3, <2>4, <2>5, <2>6, <2>7, <2>8, <2>9 DEF st, Returns, Grows
  <1>9. CASE st = "in_order"
    <2>1. ~New(d) /\ ~new BY <1>9 DEF New
    <2>2. g = [pass |-> sequence_valid, valid |-> sequence_valid] BY <1>9 DEF gate
    <2>4. d.sequence = tracker.expected /\ tracker.initialized BY <1>5, <1>9 DEF status
    <2>5. sequence_valid' = sequence_valid BY <1>1, <2>2
    <2>6. log' = IF control(d) \/ ~sequence_valid THEN log ELSE log \o Sequence(d)
      BY <1>1, <1>3, <2>1, <2>2
    <2> HIDE DEF g, st, new
    <2>7. rewound' = rewound
      <3>1. rewound' = (rewound \/ FALSE) BY <1>1, <1>9, <2>1
      <3> QED BY <3>1 DEF FeedInv
    <2>8. gapped' = gapped
      <3>1. gapped' = (gapped \/ FALSE) BY <1>1, <1>9, <2>1
      <3> QED BY <3>1 DEF FeedInv
    <2>9. crossed' <=> (crossed \/ d.sequence + advances(d) >= Wrap) BY <1>1, <2>1
    <2> QED BY <1>1, <1>2, <1>9, <2>1, <2>4, <2>5, <2>6, <2>7, <2>8, <2>9 DEF st, Follows, Grows
  <1>10. new \/ st = "gap" \/ st = "rewind" \/ st = "in_order" BY DEF status
  <1> QED BY <1>6, <1>7, <1>8, <1>9, <1>10

(* Numbers from x on, one by one.                                          *)
From(s, x) == \A i \in 1 .. Len(s) : s[i] = x + i - 1

(* What is appended to a rising sequence continues it.                     *)
LEMMA Continues ==
    ASSUME NEW s \in Seq(Nat), NEW t \in Seq(Nat), NEW x \in Nat, From(t, x), t # <<>>,
           \A i \in 1 .. Len(s) - 1 : s[i] < s[i + 1],
           s # <<>> => s[Len(s)] < x
    PROVE  /\ s \o t \in Seq(Nat) /\ Len(s \o t) = Len(s) + Len(t) /\ s \o t # <<>>
           /\ \A i \in 1 .. Len(s \o t) - 1 : (s \o t)[i] < (s \o t)[i + 1]
           /\ (s \o t)[Len(s \o t)] < x + Len(t)
  <1> DEFINE u == s \o t
  <1>1. /\ u \in Seq(Nat) /\ Len(u) = Len(s) + Len(t) /\ Len(s) \in Nat /\ Len(t) \in Nat \ {0}
        /\ \A i \in 1 .. Len(s) : u[i] = s[i]
        /\ \A i \in 1 .. Len(t) : u[Len(s) + i] = t[i]
    OBVIOUS
  <1>2. \A i \in Len(s) + 1 .. Len(u) : u[i] = x + (i - Len(s)) - 1
    <2> TAKE i \in Len(s) + 1 .. Len(u)
    <2>1. i - Len(s) \in 1 .. Len(t) /\ Len(s) + (i - Len(s)) = i BY <1>1
    <2> QED BY <1>1, <2>1 DEF From
  <1> HIDE DEF u
  <1>a. Len(u) = Len(s) + Len(t) /\ Len(s) \in Nat /\ Len(t) \in Nat \ {0} BY <1>1
  <1>3. ASSUME NEW i \in 1 .. Len(u) - 1 PROVE u[i] < u[i + 1]
    <2>1. CASE i < Len(s)
      <3>1. i \in 1 .. Len(s) - 1 /\ i \in 1 .. Len(s) /\ i + 1 \in 1 .. Len(s)
        BY ONLY <1>a, <2>1, i \in 1 .. Len(u) - 1
      <3>2. u[i] = s[i] /\ u[i + 1] = s[i + 1] BY <1>1, <3>1
      <3> QED BY <3>1, <3>2
    <2>2. CASE i = Len(s)
      <3>1. i \in 1 .. Len(s) /\ s # <<>> BY <1>1, <2>2
      <3>2. u[i] = s[Len(s)] BY <1>1, <2>2, <3>1
      <3>3. i + 1 \in Len(s) + 1 .. Len(u) BY <1>1, <2>2
      <3>4. u[i + 1] = x + ((i + 1) - Len(s)) - 1 BY <1>2, <3>3
      <3>5. u[i + 1] = x BY <1>1, <2>2, <3>4
      <3> QED BY <3>1, <3>2, <3>5
    <2>3. CASE i > Len(s)
      <3>1. i \in Len(s) + 1 .. Len(u) /\ i + 1 \in Len(s) + 1 .. Len(u)
        BY ONLY <1>a, <2>3, i \in 1 .. Len(u) - 1
      <3>2. u[i] = x + (i - Len(s)) - 1 /\ u[i + 1] = x + ((i + 1) - Len(s)) - 1 BY <1>2, <3>1
      <3> QED BY <1>1, <3>2
    <2> QED BY <1>1, <2>1, <2>2, <2>3
  <1>4. u[Len(u)] < x + Len(t)
    <2>1. Len(u) \in Len(s) + 1 .. Len(u) BY <1>1
    <2>2. u[Len(u)] = x + (Len(u) - Len(s)) - 1 BY <1>2, <2>1
    <2> QED BY <1>1, <2>2
  <1>5. u # <<>> BY <1>1
  <1> QED BY <1>1, <1>3, <1>4, <1>5 DEF u

(* The dispatched numbers go on rising, and follow each other where they must. *)
LEMMA AcceptKeeps ==
    ASSUME FeedInv, NEW d \in Datagrams, Accept(d)
    PROVE  FeedInv'
  <1> DEFINE end == (d.sequence + advances(d)) % Wrap
             t == Sequence(d)
  <1>1. /\ d.sequence \in Nat /\ advances(d) \in Nat /\ d.sequence + advances(d) \in Nat
        /\ d.sequence \in 0 .. Wrap - 1
        /\ control(d) => advances(d) = 0
        /\ ~control(d) => advances(d) = d.message_count /\ d.message_count \in Nat \ {0}
    BY DatagramFacts, FeedAssumption
  <1>2. end \in 0 .. Wrap - 1 BY <1>1, BelowWrap
  <1>3. d.sequence + advances(d) < Wrap => end = d.sequence + advances(d) BY <1>1, BelowWrap
  <1>4. ~control(d) => t \in Seq(Nat) /\ t # <<>> /\ Len(t) = advances(d)
    BY <1>1, SequenceFacts
  <1>5. ~control(d) /\ d.sequence + advances(d) < Wrap => From(t, d.sequence)
    BY <1>1, SequenceFacts DEF From
  <1>6. /\ tracker.expected \in 0 .. Wrap - 1 /\ start \in Nat /\ log \in Seq(Nat)
        /\ gapped \in BOOLEAN /\ rewound \in BOOLEAN /\ sequence_valid = ~gapped
        /\ Len(log) \in Nat /\ Wrap \in Nat \ {0}
    BY FeedAssumption DEF FeedInv
  <1>7. /\ ~crossed => /\ \A i \in 1 .. Len(log) - 1 : log[i] < log[i + 1]
                       /\ log # <<>> => log[Len(log)] < tracker.expected
        /\ ~rewound /\ ~crossed => \A i \in DOMAIN log : log[i] = start + i - 1
        /\ ~rewound /\ ~crossed /\ ~gapped /\ tracker.initialized =>
              Len(log) = tracker.expected - start
    BY DEF FeedInv, Rising, BookGetsPrefix
  <1> HIDE DEF end, t
  <1>8. ASSUME Begins(d, end) PROVE FeedInv'
    <2>0. /\ sequence_valid' = TRUE /\ gapped' = FALSE /\ rewound' = FALSE
          /\ start' = d.sequence /\ tracker'.expected = end /\ tracker'.initialized
          /\ log' = IF control(d) THEN <<>> ELSE t
          /\ crossed' <=> (d.sequence + advances(d) >= Wrap)
      BY <1>8 DEF Begins, t
    <2>1. log' \in Seq(Nat) BY <1>4, <2>0
    <2>2. Rising' /\ BookGetsPrefix'
      <3>1. CASE crossed' BY <3>1 DEF Rising, BookGetsPrefix
      <3>2. CASE ~crossed'
        <4>0. ~(d.sequence + advances(d) >= Wrap) BY <2>0, <3>2
        <4>1. d.sequence + advances(d) < Wrap BY <1>1, <1>6, <4>0
        <4>2. tracker'.expected = d.sequence + advances(d) BY <1>3, <2>0, <4>1
        <4>3. CASE control(d)
          <5>1. log' = <<>> /\ tracker'.expected = d.sequence BY <1>1, <2>0, <4>2, <4>3
          <5>2. Len(log') = 0 /\ DOMAIN log' = {} BY <5>1
          <5> QED BY <1>1, <2>0, <5>1, <5>2 DEF Rising, BookGetsPrefix
        <4>4. CASE ~control(d)
          <5>1. log' = t /\ From(t, d.sequence) /\ t \in Seq(Nat) /\ Len(t) = advances(d)
                /\ t # <<>> /\ DOMAIN t = 1 .. Len(t)
            BY <1>4, <1>5, <2>0, <4>1, <4>4
          <5>2. Len(t) \in Nat \ {0} /\ \A i \in 1 .. Len(t) : t[i] = d.sequence + i - 1
            BY <1>1, <4>4, <5>1 DEF From
          <5>3. Rising' BY <1>1, <4>2, <5>1, <5>2, SMTT(30) DEF Rising
          <5>4. BookGetsPrefix' BY <1>1, <2>0, <4>2, <5>1, <5>2 DEF BookGetsPrefix
          <5> QED BY <5>3, <5>4
        <4> QED BY <4>3, <4>4
      <3> QED BY <3>1, <3>2
    <2> QED BY <1>1, <1>2, <2>0, <2>1, <2>2 DEF FeedInv
  <1>9. ASSUME Jumps(d, end) \/ Returns(d, end) PROVE FeedInv'
    <2>0. /\ tracker'.initialized /\ start' = start /\ log' = log
          /\ tracker'.expected = IF end > tracker.expected THEN end ELSE tracker.expected
          /\ crossed' <=> (crossed \/ d.sequence + advances(d) >= Wrap)
      BY <1>9 DEF Jumps, Returns, Grows
    <2>00. \/ sequence_valid' = FALSE /\ gapped' = TRUE /\ rewound' = rewound
           \/ sequence_valid' = sequence_valid /\ gapped' = gapped /\ rewound' = TRUE
      BY <1>9 DEF Jumps, Returns
    <2>1. tracker'.expected \in 0 .. Wrap - 1 /\ tracker'.expected >= tracker.expected
      BY <1>2, <1>6, <2>0, <2>00
    <2>2. ~crossed' => ~crossed BY <2>0, <2>00
    <2>3. log # <<>> => log[Len(log)] \in Nat BY <1>6
    <2>4. Rising' BY <1>6, <1>7, <2>0, <2>00, <2>1, <2>2, <2>3 DEF Rising
    <2>5. BookGetsPrefix' BY <1>7, <2>0, <2>00, <2>2 DEF BookGetsPrefix
    <2>6. gapped' \in BOOLEAN /\ rewound' \in BOOLEAN /\ sequence_valid' = ~gapped'
      <3>1. CASE sequence_valid' = FALSE /\ gapped' = TRUE /\ rewound' = rewound BY <1>6, <3>1
      <3>2. CASE sequence_valid' = sequence_valid /\ gapped' = gapped /\ rewound' = TRUE
        BY <1>6, <3>2
      <3> QED BY <2>00, <3>1, <3>2
    <2> QED BY <1>6, <2>0, <2>00, <2>1, <2>4, <2>5, <2>6 DEF FeedInv
  <1>10. ASSUME Follows(d, end) PROVE FeedInv'
    <2>0. /\ tracker'.initialized /\ d.sequence = tracker.expected /\ tracker.initialized
          /\ sequence_valid' = sequence_valid /\ gapped' = gapped /\ rewound' = rewound
          /\ start' = start
          /\ log' = IF control(d) \/ ~sequence_valid THEN log ELSE log \o t
          /\ tracker'.expected = IF end > tracker.expected THEN end ELSE tracker.expected
          /\ crossed' <=> (crossed \/ d.sequence + advances(d) >= Wrap)
      BY <1>10 DEF Follows, Grows, t
    <2>1. tracker'.expected \in 0 .. Wrap - 1 /\ tracker'.expected >= tracker.expected
      BY <1>2, <1>6, <2>0
    <2>2. ~crossed' => ~crossed BY <2>0
    <2>3. CASE control(d) \/ ~sequence_valid
      <3>1. log' = log BY <2>0, <2>3
      <3>2. log # <<>> => log[Len(log)] \in Nat BY <1>6
      <3>3. Rising' BY <1>6, <1>7, <2>1, <2>2, <3>1, <3>2 DEF Rising
      <3>4. control(d) /\ ~crossed' => tracker'.expected = tracker.expected
        BY <1>1, <1>3, <1>6, <2>0
      <3>5. BookGetsPrefix' BY <1>6, <1>7, <2>0, <2>2, <2>3, <3>1, <3>4 DEF BookGetsPrefix
      <3> QED BY <1>6, <2>0, <2>1, <3>1, <3>3, <3>5 DEF FeedInv
    <2>4. CASE ~control(d) /\ sequence_valid
      <3>1. log' = log \o t /\ ~gapped BY <1>6, <2>0, <2>4
      <3>2. log' \in Seq(Nat) BY <1>4, <1>6, <2>4, <3>1
      <3>3. Rising' /\ BookGetsPrefix'
        <4>1. CASE crossed' BY <4>1 DEF Rising, BookGetsPrefix
        <4>2. CASE ~crossed'
          <5>0. ~crossed /\ ~(d.sequence + advances(d) >= Wrap) BY <2>0, <4>2
          <5>1. d.sequence + advances(d) < Wrap /\ ~crossed BY <1>1, <1>6, <5>0
          <5>2. From(t, d.sequence) /\ t \in Seq(Nat) /\ t # <<>> /\ Len(t) = advances(d)
            BY <1>4, <1>5, <2>4, <5>1
          <5>3. /\ Len(log') = Len(log) + Len(t) /\ log' # <<>>
                /\ \A i \in 1 .. Len(log') - 1 : log'[i] < log'[i + 1]
                /\ log'[Len(log')] < d.sequence + Len(t)
            BY <1>1, <1>6, <1>7, <2>0, <3>1, <5>1, <5>2, Continues
          <5>4. tracker'.expected = d.sequence + advances(d)
            BY <1>1, <1>3, <1>6, <2>0, <2>4, <5>1
          <5>5. Rising' BY <5>2, <5>3, <5>4 DEF Rising
          <5>6. BookGetsPrefix'
            <6>1. CASE rewound' BY <6>1 DEF BookGetsPrefix
            <6>2. CASE ~rewound'
              <7>1. /\ \A i \in DOMAIN log : log[i] = start + i - 1
                    /\ Len(log) = tracker.expected - start
                BY <1>7, <2>0, <3>1, <5>1, <6>2
              <7>2. Len(log') = tracker'.expected - start
                BY <1>1, <1>6, <2>0, <5>2, <5>3, <5>4, <7>1
              <7>3. ASSUME NEW i \in DOMAIN log' PROVE log'[i] = start + i - 1
                <8>1. i \in 1 .. Len(log) + Len(t) /\ Len(t) \in Nat BY <3>2, <5>2, <5>3
                <8>2. CASE i <= Len(log)
                  <9>1. i \in DOMAIN log /\ log'[i] = log[i] BY <1>6, <3>1, <5>2, <8>1, <8>2
                  <9> QED BY <7>1, <9>1
                <8>3. CASE i > Len(log)
                  <9>1. i - Len(log) \in 1 .. Len(t) /\ log'[i] = t[i - Len(log)]
                    BY <1>6, <3>1, <5>2, <8>1, <8>3
                  <9>2. t[i - Len(log)] = d.sequence + (i - Len(log)) - 1 BY <5>2, <9>1 DEF From
                  <9>3. /\ i \in Nat /\ d.sequence \in Nat /\ start \in Nat /\ Len(log) \in Nat
                        /\ Len(log) = d.sequence - start
                    BY <1>1, <1>6, <2>0, <7>1, <8>1
                  <9>4. d.sequence + (i - Len(log)) - 1 = start + i - 1 BY ONLY <9>3
                  <9> QED BY <9>1, <9>2, <9>4
                <8> QED BY <1>6, <8>1, <8>2, <8>3
              <7> QED BY <2>0, <7>2, <7>3 DEF BookGetsPrefix
            <6> QED BY <6>1, <6>2
          <5> QED BY <5>5, <5>6
        <4> QED BY <4>1, <4>2
      <3> QED BY <1>6, <2>0, <2>1, <3>2, <3>3 DEF FeedInv
    <2> QED BY <2>3, <2>4
  <1>11. Begins(d, end) \/ Jumps(d, end) \/ Returns(d, end) \/ Follows(d, end)
    BY AcceptFacts DEF end
  <1> QED BY <1>8, <1>9, <1>10, <1>11
-----------------------------------------------------------------------------
(* No loss without a report.  An empty log means that the first message is *)
(* still expected; s is unbroken when each number in it resumes the ones   *)
(* before.                                                                 *)
Resumed(s, x, n) == x = (s[n] + 1) % Wrap \/ \E j \in 1 .. n : s[j] = x
Unbroken(s)      == \A i \in 1 .. Len(s) - 1 : Resumed(s, s[i + 1], i)
Counts(t)        == \A i \in 1 .. Len(t) - 1 : t[i + 1] = (t[i] + 1) % Wrap
LossInv ==
    /\ NoSilentLoss
    /\ tracker.initialized /\ ~gapped /\ ~rewound /\ log = <<>> => tracker.expected = start

(* A datagram's numbers count modulo Wrap, up to the packet's end. *)
LEMMA SequenceCounts ==
    ASSUME NEW d \in Datagrams, ~control(d)
    PROVE  LET t == Sequence(d)
           IN  /\ t \in Seq(Nat) /\ t # <<>> /\ Len(t) \in Nat \ {0} /\ Counts(t)
               /\ t[1] = d.sequence
               /\ (t[Len(t)] + 1) % Wrap = (d.sequence + advances(d)) % Wrap
  <1> DEFINE t == Sequence(d)
             n == d.message_count
  <1>1. /\ d.sequence \in 0 .. Wrap - 1 /\ d.sequence \in Nat /\ n \in Nat \ {0}
        /\ advances(d) = n /\ Wrap \in Nat \ {0}
    BY DatagramFacts, FeedAssumption
  <1>2. t \in Seq(Nat) /\ Len(t) = n /\ \A i \in 1 .. n : t[i] = (d.sequence + i - 1) % Wrap
    BY SequenceFacts DEF Sequence
  <1> HIDE DEF t, n
  <1>3. t[1] = d.sequence
    <2>1. 1 \in 1 .. n /\ d.sequence + 1 - 1 = d.sequence BY <1>1
    <2>2. t[1] = d.sequence % Wrap BY <1>2, <2>1
    <2>3. d.sequence < Wrap BY <1>1
    <2> QED BY <1>1, <2>2, <2>3, BelowWrap
  <1>4. ASSUME NEW i \in 1 .. n PROVE (t[i] + 1) % Wrap = (d.sequence + i) % Wrap
    <2>1. d.sequence + i - 1 \in Nat /\ (d.sequence + i - 1) + 1 = d.sequence + i BY <1>1
    <2>2. t[i] = (d.sequence + i - 1) % Wrap BY <1>2
    <2> QED BY <2>1, <2>2, WrapNext
  <1>5. ASSUME NEW i \in 1 .. n - 1 PROVE t[i + 1] = (t[i] + 1) % Wrap
    <2>1. i + 1 \in 1 .. n /\ i \in 1 .. n /\ d.sequence + (i + 1) - 1 = d.sequence + i BY <1>1
    <2>2. t[i + 1] = (d.sequence + (i + 1) - 1) % Wrap BY <1>2, <2>1
    <2> QED BY <1>4, <2>1, <2>2
  <1>6. (t[n] + 1) % Wrap = (d.sequence + n) % Wrap
    <2>1. n \in 1 .. n BY <1>1
    <2> QED BY <1>4, <2>1
  <1>7. t # <<>> BY <1>1, <1>2
  <1>8. /\ t \in Seq(Nat) /\ t # <<>> /\ Len(t) \in Nat \ {0} /\ Counts(t)
        /\ t[1] = d.sequence /\ (t[Len(t)] + 1) % Wrap = (d.sequence + advances(d)) % Wrap
    BY <1>1, <1>2, <1>3, <1>5, <1>6, <1>7 DEF Counts
  <1> QED BY <1>8 DEF t

(* Numbers that count on from an unbroken sequence keep it unbroken. *)
LEMMA CountsOn ==
    ASSUME NEW s \in Seq(Nat), NEW t \in Seq(Nat), t # <<>>, Counts(t), Unbroken(s),
           s # <<>> => Resumed(s, t[1], Len(s))
    PROVE  /\ Unbroken(s \o t) /\ Len(s \o t) = Len(s) + Len(t) /\ s \o t # <<>>
           /\ (s \o t)[Len(s \o t)] = t[Len(t)]
           /\ (s \o t)[Len(s) + 1] = t[1]
           /\ s # <<>> => (s \o t)[1] = s[1]
  <1> DEFINE u == s \o t
             m == Len(s)
             n == Len(t)
  <1>1. /\ m \in Nat /\ n \in Nat \ {0} /\ Len(u) = m + n
        /\ \A i \in 1 .. m : u[i] = s[i]
        /\ \A i \in 1 .. n : u[m + i] = t[i]
    OBVIOUS
  <1>2. s # <<>> => 1 \in 1 .. m BY <1>1
  <1> HIDE DEF u, m, n
  <1>3. u[m + 1] = t[1] /\ u[m + n] = t[n] BY <1>1
  <1>4. ASSUME NEW i \in 1 .. (m + n) - 1 PROVE Resumed(u, u[i + 1], i)
    <2>1. CASE i < m
      <3>1. i \in 1 .. m - 1 /\ i \in 1 .. m /\ i + 1 \in 1 .. m BY <1>1, <2>1
      <3>2. Resumed(s, s[i + 1], i) BY <3>1 DEF Unbroken, m
      <3>3. u[i] = s[i] /\ u[i + 1] = s[i + 1] BY <1>1, <3>1
      <3>4. \A j \in 1 .. i : u[j] = s[j] BY <1>1, <3>1
      <3> QED BY <3>2, <3>3, <3>4 DEF Resumed
    <2>2. CASE i = m
      <3>1. i \in 1 .. m /\ s # <<>> BY <1>1, <2>2 DEF m
      <3>2. Resumed(s, t[1], m) BY <3>1 DEF m
      <3>3. u[i + 1] = t[1] /\ u[i] = s[m] BY <1>1, <1>3, <2>2, <3>1
      <3>4. \A j \in 1 .. i : u[j] = s[j] BY <1>1, <2>2
      <3> QED BY <2>2, <3>2, <3>3, <3>4 DEF Resumed
    <2>3. CASE i > m
      <3> DEFINE k == i - m
      <3>1. k \in 1 .. n - 1 /\ k \in 1 .. n /\ k + 1 \in 1 .. n /\ m + k = i /\ m + (k + 1) = i + 1
        BY <1>1, <2>3
      <3> HIDE DEF k
      <3>2. t[k + 1] = (t[k] + 1) % Wrap BY <3>1 DEF Counts, n
      <3>3. u[i] = t[k] /\ u[i + 1] = t[k + 1] BY <1>1, <3>1
      <3> QED BY <3>2, <3>3 DEF Resumed
    <2> QED BY <1>1, <2>1, <2>2, <2>3
  <1>5. s # <<>> => u[1] = s[1] BY <1>1, <1>2
  <1>6. u # <<>>
    <2>1. Len(u) # 0 BY <1>1
    <2> QED BY <2>1
  <1> QED BY <1>1, <1>3, <1>4, <1>5, <1>6 DEF u, m, n, Unbroken

(* Every datagram that is accepted keeps track of what is to come. *)
LEMMA LossAccept ==
    ASSUME FeedInv, LossInv, NEW d \in Datagrams, Accept(d)
    PROVE  LossInv'
  <1> DEFINE end == (d.sequence + advances(d)) % Wrap
             t == Sequence(d)
  <1>1. /\ d.sequence \in 0 .. Wrap - 1 /\ d.sequence \in Nat /\ Wrap \in Nat \ {0}
        /\ control(d) => advances(d) = 0
        /\ tracker.expected \in 0 .. Wrap - 1 /\ log \in Seq(Nat)
        /\ gapped \in BOOLEAN /\ rewound \in BOOLEAN /\ sequence_valid = ~gapped
    BY DatagramFacts, FeedAssumption DEF FeedInv
  <1>2. ~control(d) => /\ t \in Seq(Nat) /\ t # <<>> /\ Len(t) \in Nat \ {0} /\ Counts(t)
                       /\ t[1] = d.sequence /\ (t[Len(t)] + 1) % Wrap = end
    BY SequenceCounts
  <1>3. control(d) => end = d.sequence
    <2>1. control(d) => d.sequence + advances(d) = d.sequence /\ d.sequence < Wrap BY <1>1
    <2> QED BY <1>1, <2>1, BelowWrap
  <1>4. Begins(d, end) \/ Jumps(d, end) \/ Returns(d, end) \/ Follows(d, end)
    BY AcceptFacts
  <1> HIDE DEF end, t
  <1>5. CASE Begins(d, end)
    <2>1. /\ start' = d.sequence /\ tracker'.expected = end
          /\ log' = IF control(d) THEN <<>> ELSE t
      BY <1>5 DEF Begins, t
    <2>2. CASE control(d) BY <1>3, <2>1, <2>2 DEF LossInv, NoSilentLoss
    <2>3. CASE ~control(d)
      <3>1. log' = t /\ log' # <<>> /\ log'[1] = start' BY <1>2, <2>1, <2>3
      <3>2. \A i \in 1 .. Len(t) - 1 : t[i + 1] = (t[i] + 1) % Wrap BY <1>2, <2>3 DEF Counts
      <3>3. tracker'.expected = (t[Len(t)] + 1) % Wrap BY <1>2, <2>1, <2>3
      <3>4. NoSilentLoss' BY <3>1, <3>2, <3>3 DEF NoSilentLoss, Resumes
      <3> QED BY <3>1, <3>4 DEF LossInv
    <2> QED BY <2>2, <2>3
  <1>6. CASE Jumps(d, end) \/ Returns(d, end)
    <2>1. gapped' = TRUE \/ rewound' = TRUE BY <1>6 DEF Jumps, Returns
    <2> QED BY <2>1 DEF LossInv, NoSilentLoss
  <1>7. CASE Follows(d, end)
    <2>1. /\ d.sequence = tracker.expected /\ tracker.initialized /\ start' = start
          /\ gapped' = gapped /\ rewound' = rewound
          /\ log' = IF control(d) \/ ~sequence_valid THEN log ELSE log \o t
          /\ tracker'.expected = IF end > tracker.expected THEN end ELSE tracker.expected
      BY <1>7 DEF Follows, Grows, t
    <2>2. CASE gapped \/ rewound BY <2>1, <2>2 DEF LossInv, NoSilentLoss
    <2>3. CASE control(d)
      <3>1. log' = log /\ tracker'.expected = tracker.expected BY <1>1, <1>3, <2>1, <2>3
      <3> QED BY <2>1, <3>1 DEF LossInv, NoSilentLoss, Resumes
    <2>4. CASE ~control(d) /\ ~gapped /\ ~rewound
      <3>1. log' = log \o t BY <1>1, <2>1, <2>4
      <3>2. log # <<>> => /\ log[1] = start /\ Unbroken(log)
                          /\ Resumed(log, tracker.expected, Len(log))
        BY <2>4 DEF LossInv, NoSilentLoss, Resumes, Unbroken, Resumed
      <3>3. log = <<>> => Unbroken(log) /\ tracker.expected = start
        <4>1. ASSUME log = <<>> PROVE \A i \in 1 .. Len(log) - 1 : FALSE BY <4>1
        <4> QED BY <2>1, <2>4, <4>1 DEF LossInv, Unbroken
      <3>4. /\ Unbroken(log') /\ Len(log') = Len(log) + Len(t) /\ log' # <<>>
            /\ log'[Len(log')] = t[Len(t)] /\ log'[Len(log) + 1] = t[1]
            /\ log # <<>> => log'[1] = log[1]
        BY <1>1, <1>2, <2>1, <2>4, <3>1, <3>2, <3>3, CountsOn
      <3>5. Len(log) \in Nat /\ (log = <<>> => Len(log) = 0) BY <1>1
      <3>6. log'[1] = start'
        <4>1. CASE log = <<>>
          <5>1. Len(log) + 1 = 1 BY <3>5, <4>1
          <5> QED BY <1>2, <2>1, <2>4, <3>3, <3>4, <4>1, <5>1
        <4>2. CASE log # <<>> BY <2>1, <3>2, <3>4, <4>2
        <4> QED BY <4>1, <4>2
      <3>7. Resumed(log', tracker'.expected, Len(log'))
        <4>1. CASE tracker'.expected = end BY <1>2, <2>4, <3>4, <4>1 DEF Resumed
        <4>2. CASE tracker'.expected = tracker.expected
          <5>1. log'[Len(log) + 1] = tracker'.expected BY <1>2, <2>1, <2>4, <3>4, <4>2
          <5>2. Len(log) + 1 \in 1 .. Len(log') BY <1>2, <2>4, <3>4, <3>5
          <5> QED BY <5>1, <5>2 DEF Resumed
        <4> QED BY <2>1, <4>1, <4>2
      <3>8. NoSilentLoss' BY <3>4, <3>6, <3>7 DEF NoSilentLoss, Resumes, Unbroken, Resumed
      <3> QED BY <3>4, <3>8 DEF LossInv
    <2> QED BY <1>1, <2>2, <2>3, <2>4
  <1> QED BY <1>4, <1>5, <1>6, <1>7

(* So does every step of the feed. *)
LEMMA LossStep ==
    ASSUME FeedInv, LossInv, Next
    PROVE  LossInv'
  <1>1. ASSUME UNCHANGED <<tracker, start, log, gapped, rewound>> PROVE LossInv'
    BY <1>1 DEF LossInv, NoSilentLoss, Resumes
  <1>2. ASSUME NEW p \in Others, Turn_away(p) PROVE LossInv' BY <1>1, <1>2 DEF Turn_away
  <1>3. ASSUME NEW d \in Datagrams, Refuse(d) PROVE LossInv' BY <1>1, <1>3 DEF Refuse
  <1>4. ASSUME NEW d \in Datagrams, Accept(d) PROVE LossInv' BY <1>4, LossAccept
  <1> QED BY <1>2, <1>3, <1>4 DEF Next
-----------------------------------------------------------------------------
(* The steps of the feed: every one keeps the invariant, holds the book    *)
(* after a gap, and takes a datagram whole or not at all.                  *)
Holds == gapped /\ gapped' => log' = log
Whole == pcap_stats'.packets # pcap_stats.packets =>
            IF packet'.kind = "mold" /\ Fills(packet')
            THEN LET new  == status(tracker, packet') \in {"initialized", "new_session"}
                     kept == IF new THEN <<>> ELSE log
                 IN  /\ tracker' = observe(tracker, packet')
                     /\ \/ log' = kept /\ UNCHANGED decoder_stats
                        \/ /\ ~control(packet') /\ log' = kept \o Sequence(packet')
                           /\ \A o \in DOMAIN decoder_stats :
                                 decoder_stats'[o] = decoder_stats[o] + count(packet', o)
            ELSE UNCHANGED <<tracker, sequence_valid, log, decoder_stats>>

(* A datagram that is accepted is observed, and dispatched whole or not.  *)
LEMMA AcceptWhole ==
    ASSUME FeedInv, NEW d \in Datagrams, Accept(d)
    PROVE  Whole
  <1> DEFINE st   == status(tracker, d)
             new  == st \in {"initialized", "new_session"}
             kept == IF new THEN <<>> ELSE log
             dispatched == gate(sequence_valid, st).pass /\ ~control(d)
  <1>1. /\ validate(d) = "none" /\ packet' = d /\ tracker' = observe(tracker, d)
        /\ log' = kept \o (IF dispatched THEN Sequence(d) ELSE <<>>)
        /\ decoder_stats' = IF dispatched
                            THEN [o \in DOMAIN decoder_stats |-> decoder_stats[o] + count(d, o)]
                            ELSE decoder_stats
    BY DEF Accept
  <1>2. d.kind = "mold" /\ Fills(d) BY <1>1, DatagramFacts, ValidIffFilled
  <1>3. log \o <<>> = log /\ <<>> \o <<>> = <<>> BY DEF FeedInv
  <1>4. kept \o <<>> = kept BY <1>3
  <1> HIDE DEF kept, dispatched
  <1>5. CASE dispatched
    <2>1. log' = kept \o Sequence(d) BY <1>1, <1>5
    <2>2. decoder_stats' = [o \in DOMAIN decoder_stats |-> decoder_stats[o] + count(d, o)]
      BY <1>1, <1>5
    <2>3. \A o \in DOMAIN decoder_stats : decoder_stats'[o] = decoder_stats[o] + count(d, o)
      BY <2>2
    <2>4. ~control(d) BY <1>5 DEF dispatched
    <2> QED BY <1>1, <1>2, <2>1, <2>3, <2>4 DEF Whole, kept
  <1>6. CASE ~dispatched
    <2>1. log' = kept /\ decoder_stats' = decoder_stats BY <1>1, <1>4, <1>6
    <2> QED BY <1>1, <1>2, <2>1 DEF Whole, kept
  <1> QED BY <1>5, <1>6

(* Only an accepted datagram reaches the tracker, the gate and the book. *)
LEMMA FeedStep ==
    ASSUME FeedInv, Next
    PROVE  FeedInv' /\ Holds /\ Whole
  <1>1. ASSUME UNCHANGED <<tracker, sequence_valid, decoder_stats, start, log, gapped, rewound,
                           crossed>>,
               packet'.kind # "mold" \/ ~Fills(packet')
        PROVE  FeedInv' /\ Holds /\ Whole
    <2>1. FeedInv' BY <1>1 DEF FeedInv, Rising, BookGetsPrefix
    <2> QED BY <1>1, <2>1 DEF Holds, Whole
  <1>2. ASSUME NEW p \in Others, Turn_away(p) PROVE FeedInv' /\ Holds /\ Whole
    <2>1. packet' = p /\ p.kind # "mold" BY <1>2 DEF Turn_away, Others
    <2> QED BY <1>1, <1>2, <2>1 DEF Turn_away
  <1>3. ASSUME NEW d \in Datagrams, Refuse(d) PROVE FeedInv' /\ Holds /\ Whole
    <2>1. packet' = d /\ ~Fills(d) BY <1>3, ValidIffFilled DEF Refuse
    <2> QED BY <1>1, <1>3, <2>1 DEF Refuse
  <1>4. ASSUME NEW d \in Datagrams, Accept(d) PROVE FeedInv' /\ Holds /\ Whole
    <2> DEFINE end == (d.sequence + advances(d)) % Wrap
    <2>1. FeedInv' BY <1>4, AcceptKeeps
    <2>2. Begins(d, end) \/ Jumps(d, end) \/ Returns(d, end) \/ Follows(d, end)
      BY <1>4, AcceptFacts
    <2>3. Holds
      BY <2>2 DEF Holds, Begins, Jumps, Returns, Follows, FeedInv
    <2> QED BY <1>4, <2>1, <2>3, AcceptWhole
  <1> QED BY <1>2, <1>3, <1>4 DEF Next
-----------------------------------------------------------------------------
(* The counters.  While neither a gap nor a rewind was counted, every      *)
(* message announced was parsed, and every packet is counted once.         *)
PcapStats ==
    [packets : Nat, udp_packets : Nat, filtered_packets : Nat, skipped_packets : Nat,
     malformed_packets : Nat, mold_packets : Nat, mold_messages : Nat, mold_errors : Nat,
     heartbeats : Nat, end_of_session : Nat, sequence_gaps : Nat, missing_messages : Nat,
     sequence_rewinds : Nat]
DecoderStats == [ok : Nat, unsupported : Nat, malformed : Nat]
CountInv ==
    /\ pcap_stats \in PcapStats /\ decoder_stats \in DecoderStats
    /\ pcap_stats.packets = pcap_stats.skipped_packets + pcap_stats.malformed_packets
                            + pcap_stats.filtered_packets + pcap_stats.mold_errors
                            + pcap_stats.mold_packets
    /\ gapped => pcap_stats.sequence_gaps # 0
    /\ rewound => pcap_stats.sequence_rewinds # 0
    /\ pcap_stats.sequence_gaps = 0 /\ pcap_stats.sequence_rewinds = 0 =>
          Parsed(decoder_stats) = pcap_stats.mold_messages

(* The counters start at zero. *)
LEMMA CountInit == Init => CountInv
  <1> SUFFICES ASSUME Init PROVE CountInv OBVIOUS
  <1>1. pcap_stats \in PcapStats BY DEF Init, PcapStats
  <1>2. decoder_stats \in DecoderStats BY DEF Init, DecoderStats
  <1>3. /\ pcap_stats.packets = 0 /\ pcap_stats.skipped_packets = 0
        /\ pcap_stats.malformed_packets = 0 /\ pcap_stats.filtered_packets = 0
        /\ pcap_stats.mold_errors = 0 /\ pcap_stats.mold_packets = 0
        /\ pcap_stats.mold_messages = 0 /\ gapped = FALSE /\ rewound = FALSE
    BY DEF Init
  <1>4. Parsed(decoder_stats) = 0 BY DEF Init, Parsed
  <1> QED BY <1>1, <1>2, <1>3, <1>4 DEF CountInv

(* parse_message() makes one of three things of each message.              *)
LEMMA CountsFill ==
    ASSUME NEW d \in Datagrams, ~control(d)
    PROVE  /\ count(d, "ok") \in Nat /\ count(d, "unsupported") \in Nat
           /\ count(d, "malformed") \in Nat
           /\ count(d, "ok") + count(d, "unsupported") + count(d, "malformed") = advances(d)
  <1> DEFINE D == 1 .. d.message_count
             A == {i \in D : Parse(d.lengths[i]) = "ok"}
             B == {i \in D : Parse(d.lengths[i]) = "unsupported"}
             C == {i \in D : Parse(d.lengths[i]) = "malformed"}
  <1>1. d.message_count \in Nat /\ advances(d) = d.message_count /\ DOMAIN d.lengths = D
        /\ \A i \in D : d.lengths[i] \in Lengths
    BY DatagramFacts
  <1>2. IsFiniteSet(D) /\ Cardinality(D) = d.message_count BY <1>1, FS_Interval
  <1>3. \A i \in D : Parse(d.lengths[i]) \in {"ok", "unsupported", "malformed"}
    BY <1>1, FeedAssumption
  <1>4. D = (A \cup B) \cup C /\ A \cap B = {} /\ (A \cup B) \cap C = {} BY <1>3
  <1>5. /\ count(d, "ok") = Cardinality(A) /\ count(d, "unsupported") = Cardinality(B)
        /\ count(d, "malformed") = Cardinality(C)
    BY <1>1 DEF count
  <1>6. A \in SUBSET D /\ B \in SUBSET D /\ C \in SUBSET D OBVIOUS
  <1> HIDE DEF D, A, B, C
  <1>7. IsFiniteSet(A) /\ IsFiniteSet(B) /\ IsFiniteSet(C) BY <1>2, <1>6, FS_Subset
  <1>8. /\ IsFiniteSet(A \cup B)
        /\ Cardinality(A \cup B) = Cardinality(A) + Cardinality(B) - Cardinality(A \cap B)
    BY <1>7, FS_Union
  <1>9. Cardinality((A \cup B) \cup C)
        = Cardinality(A \cup B) + Cardinality(C) - Cardinality((A \cup B) \cap C)
    BY <1>7, <1>8, FS_Union
  <1>10. Cardinality(A) \in Nat /\ Cardinality(B) \in Nat /\ Cardinality(C) \in Nat
    BY <1>7, FS_CardinalityType
  <1>11. Cardinality(A \cap B) = 0 /\ Cardinality((A \cup B) \cap C) = 0 BY <1>4, FS_EmptySet
  <1> QED BY <1>1, <1>2, <1>4, <1>5, <1>8, <1>9, <1>10, <1>11

(* The counters of a packet that is not a datagram of the feed.            *)
LEMMA TurnAwayCounts ==
    ASSUME CountInv, NEW p \in Others, Turn_away(p) PROVE CountInv'
  <1>1. p.kind \in {"skipped", "malformed", "filtered", "header_too_short"} BY DEF Others
  <1>2. pcap_stats \in PcapStats BY DEF CountInv
  <1>3. /\ one(p.kind = "skipped") \in Nat /\ one(p.kind = "malformed") \in Nat
        /\ one(p.kind \in {"filtered", "header_too_short"}) \in Nat
        /\ one(p.kind = "filtered") \in Nat /\ one(p.kind = "header_too_short") \in Nat
    BY DEF one
  <1>4. one(p.kind = "skipped") + one(p.kind = "malformed") + one(p.kind = "filtered")
        + one(p.kind = "header_too_short") = 1
    BY <1>1 DEF one
  <1> DEFINE s == one(p.kind = "skipped")
             m == one(p.kind = "malformed")
             u == one(p.kind \in {"filtered", "header_too_short"})
             f == one(p.kind = "filtered")
             h == one(p.kind = "header_too_short")
  <1>5. pcap_stats' = [pcap_stats EXCEPT
          !.packets = @ + 1, !.skipped_packets = @ + s, !.malformed_packets = @ + m,
          !.udp_packets = @ + u, !.filtered_packets = @ + f, !.mold_errors = @ + h]
    BY DEF Turn_away
  <1>6. UNCHANGED <<decoder_stats, gapped, rewound>> BY DEF Turn_away
  <1> HIDE DEF s, m, u, f, h
  <1>7. s \in Nat /\ m \in Nat /\ u \in Nat /\ f \in Nat /\ h \in Nat /\ s + m + f + h = 1
    BY <1>3, <1>4 DEF s, m, u, f, h
  <1>8. /\ pcap_stats' \in PcapStats
        /\ pcap_stats'.packets = pcap_stats.packets + 1
        /\ pcap_stats'.skipped_packets = pcap_stats.skipped_packets + s
        /\ pcap_stats'.malformed_packets = pcap_stats.malformed_packets + m
        /\ pcap_stats'.filtered_packets = pcap_stats.filtered_packets + f
        /\ pcap_stats'.mold_errors = pcap_stats.mold_errors + h
        /\ pcap_stats'.mold_packets = pcap_stats.mold_packets
        /\ pcap_stats'.mold_messages = pcap_stats.mold_messages
        /\ pcap_stats'.sequence_gaps = pcap_stats.sequence_gaps
        /\ pcap_stats'.sequence_rewinds = pcap_stats.sequence_rewinds
    <2> DEFINE a == pcap_stats.packets + 1
               b == pcap_stats.skipped_packets + s
               c == pcap_stats.malformed_packets + m
               v == pcap_stats.udp_packets + u
               k == pcap_stats.filtered_packets + f
               l == pcap_stats.mold_errors + h
    <2>1. a \in Nat /\ b \in Nat /\ c \in Nat /\ v \in Nat /\ k \in Nat /\ l \in Nat
      BY <1>2, <1>7 DEF PcapStats
    <2>2. pcap_stats' = [pcap_stats EXCEPT
            !.packets = a, !.skipped_packets = b, !.malformed_packets = c,
            !.udp_packets = v, !.filtered_packets = k, !.mold_errors = l]
      BY <1>5
    <2> HIDE DEF a, b, c, v, k, l
    <2>3. pcap_stats' \in PcapStats BY ONLY <1>2, <2>1, <2>2 DEF PcapStats
    <2> QED BY ONLY <1>2, <2>2, <2>3 DEF PcapStats, a, b, c, v, k, l
  <1>9. pcap_stats'.packets = pcap_stats'.skipped_packets + pcap_stats'.malformed_packets
                            + pcap_stats'.filtered_packets + pcap_stats'.mold_errors
                            + pcap_stats'.mold_packets
    <2>1. /\ pcap_stats.packets \in Nat /\ pcap_stats.skipped_packets \in Nat
          /\ pcap_stats.malformed_packets \in Nat /\ pcap_stats.filtered_packets \in Nat
          /\ pcap_stats.mold_errors \in Nat /\ pcap_stats.mold_packets \in Nat
      BY <1>2 DEF PcapStats
    <2>2. pcap_stats.packets = pcap_stats.skipped_packets + pcap_stats.malformed_packets
                            + pcap_stats.filtered_packets + pcap_stats.mold_errors
                            + pcap_stats.mold_packets
      BY DEF CountInv
    <2> QED BY ONLY <1>7, <1>8, <2>1, <2>2
  <1> QED BY <1>6, <1>8, <1>9 DEF CountInv, Parsed

(* A datagram that does not validate is counted as an error of MoldUDP64. *)
LEMMA RefuseCounts ==
    ASSUME CountInv, NEW d \in Datagrams, Refuse(d) PROVE CountInv'
  <1>2. pcap_stats \in PcapStats BY DEF CountInv
  <1>5. pcap_stats' = [pcap_stats EXCEPT !.packets = @ + 1, !.udp_packets = @ + 1,
                                         !.mold_errors = @ + 1]
    BY DEF Refuse
  <1>6. UNCHANGED <<decoder_stats, gapped, rewound>> BY DEF Refuse
  <1>8. /\ pcap_stats' \in PcapStats
        /\ pcap_stats'.packets = pcap_stats.packets + 1
        /\ pcap_stats'.skipped_packets = pcap_stats.skipped_packets
        /\ pcap_stats'.malformed_packets = pcap_stats.malformed_packets
        /\ pcap_stats'.filtered_packets = pcap_stats.filtered_packets
        /\ pcap_stats'.mold_errors = pcap_stats.mold_errors + 1
        /\ pcap_stats'.mold_packets = pcap_stats.mold_packets
        /\ pcap_stats'.mold_messages = pcap_stats.mold_messages
        /\ pcap_stats'.sequence_gaps = pcap_stats.sequence_gaps
        /\ pcap_stats'.sequence_rewinds = pcap_stats.sequence_rewinds
    <2> DEFINE a == pcap_stats.packets + 1
               v == pcap_stats.udp_packets + 1
               l == pcap_stats.mold_errors + 1
    <2>1. a \in Nat /\ v \in Nat /\ l \in Nat BY <1>2 DEF PcapStats
    <2>2. pcap_stats' = [pcap_stats EXCEPT !.packets = a, !.udp_packets = v, !.mold_errors = l]
      BY <1>5
    <2> HIDE DEF a, v, l
    <2>3. pcap_stats' \in PcapStats BY ONLY <1>2, <2>1, <2>2 DEF PcapStats
    <2> QED BY ONLY <1>2, <2>2, <2>3 DEF PcapStats, a, v, l
  <1>9. pcap_stats'.packets = pcap_stats'.skipped_packets + pcap_stats'.malformed_packets
                            + pcap_stats'.filtered_packets + pcap_stats'.mold_errors
                            + pcap_stats'.mold_packets
    <2>1. /\ pcap_stats.packets \in Nat /\ pcap_stats.skipped_packets \in Nat
          /\ pcap_stats.malformed_packets \in Nat /\ pcap_stats.filtered_packets \in Nat
          /\ pcap_stats.mold_errors \in Nat /\ pcap_stats.mold_packets \in Nat
      BY <1>2 DEF PcapStats
    <2>2. pcap_stats.packets = pcap_stats.skipped_packets + pcap_stats.malformed_packets
                            + pcap_stats.filtered_packets + pcap_stats.mold_errors
                            + pcap_stats.mold_packets
      BY DEF CountInv
    <2> QED BY ONLY <1>8, <2>1, <2>2
  <1> QED BY <1>6, <1>8, <1>9 DEF CountInv, Parsed

(* Each status is counted where decode_capture() counts it. *)
LEMMA AcceptCounts ==
    ASSUME FeedInv, CountInv, NEW d \in Datagrams, Accept(d) PROVE CountInv'
  <1> DEFINE st == status(tracker, d)
             end == (d.sequence + advances(d)) % Wrap
             g == one(st = "gap")
             w == one(st = "rewind")
             x == IF st = "gap" THEN pcap_stats.missing_messages + missing(tracker, d)
                  ELSE pcap_stats.missing_messages
             h == one(d.message_count = 0)
             z == one(d.message_count = EndOfSession)
  <1>1. Begins(d, end) \/ Jumps(d, end) \/ Returns(d, end) \/ Follows(d, end)
    BY AcceptFacts
  <1>2. pcap_stats \in PcapStats /\ decoder_stats \in DecoderStats BY DEF CountInv
  <1>3. advances(d) \in Nat /\ d.sequence \in Nat /\ tracker.expected \in Nat
    BY DatagramFacts, FeedAssumption DEF FeedInv
  <1>4. g \in Nat /\ w \in Nat /\ h \in Nat /\ z \in Nat BY DEF one
  <1>5. x \in Nat
    <2>1. pcap_stats.missing_messages \in Nat BY <1>2 DEF PcapStats
    <2>2. st = "gap" => missing(tracker, d) \in Nat BY <1>3 DEF status, missing
    <2> HIDE DEF st
    <2> QED BY <2>1, <2>2
  <1>6. pcap_stats' = [pcap_stats EXCEPT
              !.packets = @ + 1, !.udp_packets = @ + 1, !.mold_packets = @ + 1,
              !.sequence_gaps = @ + g, !.missing_messages = x, !.sequence_rewinds = @ + w,
              !.mold_messages = @ + advances(d), !.heartbeats = @ + h, !.end_of_session = @ + z]
    BY DEF Accept
  <1> HIDE DEF g, w, x, h, z, st, end
  <1>7. /\ pcap_stats' \in PcapStats
        /\ pcap_stats'.packets = pcap_stats.packets + 1
        /\ pcap_stats'.skipped_packets = pcap_stats.skipped_packets
        /\ pcap_stats'.malformed_packets = pcap_stats.malformed_packets
        /\ pcap_stats'.filtered_packets = pcap_stats.filtered_packets
        /\ pcap_stats'.mold_errors = pcap_stats.mold_errors
        /\ pcap_stats'.mold_packets = pcap_stats.mold_packets + 1
        /\ pcap_stats'.mold_messages = pcap_stats.mold_messages + advances(d)
        /\ pcap_stats'.sequence_gaps = pcap_stats.sequence_gaps + g
        /\ pcap_stats'.sequence_rewinds = pcap_stats.sequence_rewinds + w
    <2> DEFINE a == pcap_stats.packets + 1
               b == pcap_stats.udp_packets + 1
               c == pcap_stats.mold_packets + 1
               e == pcap_stats.sequence_gaps + g
               f == pcap_stats.sequence_rewinds + w
               k == pcap_stats.mold_messages + advances(d)
               l == pcap_stats.heartbeats + h
               m == pcap_stats.end_of_session + z
    <2>1. /\ a \in Nat /\ b \in Nat /\ c \in Nat /\ e \in Nat /\ f \in Nat /\ k \in Nat
          /\ l \in Nat /\ m \in Nat
      BY <1>2, <1>3, <1>4 DEF PcapStats
    <2>2. pcap_stats' = [pcap_stats EXCEPT
              !.packets = a, !.udp_packets = b, !.mold_packets = c, !.sequence_gaps = e,
              !.missing_messages = x, !.sequence_rewinds = f, !.mold_messages = k,
              !.heartbeats = l, !.end_of_session = m]
      BY <1>6
    <2> HIDE DEF a, b, c, e, f, k, l, m
    <2>3. pcap_stats' \in PcapStats BY ONLY <1>2, <1>5, <2>1, <2>2 DEF PcapStats
    <2> QED BY ONLY <1>2, <2>2, <2>3 DEF PcapStats, a, b, c, e, f, k, l, m
  <1>8. /\ pcap_stats.packets \in Nat /\ pcap_stats.skipped_packets \in Nat
        /\ pcap_stats.malformed_packets \in Nat /\ pcap_stats.filtered_packets \in Nat
        /\ pcap_stats.mold_errors \in Nat /\ pcap_stats.mold_packets \in Nat
        /\ pcap_stats.sequence_gaps \in Nat /\ pcap_stats.sequence_rewinds \in Nat
        /\ pcap_stats.mold_messages \in Nat
    BY <1>2 DEF PcapStats
  <1>9. pcap_stats'.packets = pcap_stats'.skipped_packets + pcap_stats'.malformed_packets
                            + pcap_stats'.filtered_packets + pcap_stats'.mold_errors
                            + pcap_stats'.mold_packets
    <2>2. pcap_stats.packets = pcap_stats.skipped_packets + pcap_stats.malformed_packets
                            + pcap_stats.filtered_packets + pcap_stats.mold_errors
                            + pcap_stats.mold_packets
      BY DEF CountInv
    <2> QED BY ONLY <1>7, <1>8, <2>2
  <1>10. (st = "gap" => g = 1) /\ (st = "rewind" => w = 1) BY DEF g, w, one
  <1>11. gapped' => pcap_stats'.sequence_gaps # 0
    <2>1. gapped' => gapped \/ st = "gap"
      BY <1>1 DEF Begins, Jumps, Returns, Follows, st
    <2>2. gapped => pcap_stats.sequence_gaps # 0 BY DEF CountInv
    <2> QED BY <1>4, <1>7, <1>8, <1>10, <2>1, <2>2
  <1>12. rewound' => pcap_stats'.sequence_rewinds # 0
    <2>1. rewound' => rewound \/ st = "rewind"
      BY <1>1 DEF Begins, Jumps, Returns, Follows, st
    <2>2. rewound => pcap_stats.sequence_rewinds # 0 BY DEF CountInv
    <2> QED BY <1>4, <1>7, <1>8, <1>10, <2>1, <2>2
  <1> DEFINE dispatched == gate(sequence_valid, status(tracker, d)).pass /\ ~control(d)
             counted == [o \in DOMAIN decoder_stats |-> decoder_stats[o] + count(d, o)]
  <1>13. decoder_stats' = IF dispatched THEN counted ELSE decoder_stats
    BY DEF Accept
  <1>14. /\ decoder_stats.ok \in Nat /\ decoder_stats.unsupported \in Nat
         /\ decoder_stats.malformed \in Nat
         /\ DOMAIN decoder_stats = {"ok", "unsupported", "malformed"}
    BY <1>2 DEF DecoderStats
  <1>15. ~control(d) =>
            /\ counted \in DecoderStats
            /\ counted.ok = decoder_stats.ok + count(d, "ok")
            /\ counted.unsupported = decoder_stats.unsupported + count(d, "unsupported")
            /\ counted.malformed = decoder_stats.malformed + count(d, "malformed")
    <2> SUFFICES ASSUME ~control(d)
                 PROVE /\ counted \in DecoderStats
                       /\ counted.ok = decoder_stats.ok + count(d, "ok")
                       /\ counted.unsupported = decoder_stats.unsupported + count(d, "unsupported")
                       /\ counted.malformed = decoder_stats.malformed + count(d, "malformed")
      OBVIOUS
    <2>1. counted = [ok |-> decoder_stats.ok + count(d, "ok"),
                     unsupported |-> decoder_stats.unsupported + count(d, "unsupported"),
                     malformed |-> decoder_stats.malformed + count(d, "malformed")]
      BY <1>14
    <2> HIDE DEF counted
    <2> QED BY <1>14, <2>1, CountsFill DEF DecoderStats
  <1> HIDE DEF counted, dispatched
  <1>16. decoder_stats' \in DecoderStats
    BY <1>2, <1>13, <1>15 DEF dispatched
  <1>17. ASSUME pcap_stats'.sequence_gaps = 0, pcap_stats'.sequence_rewinds = 0
         PROVE  Parsed(decoder_stats') = pcap_stats'.mold_messages
    <2>1. /\ pcap_stats.sequence_gaps = 0 /\ pcap_stats.sequence_rewinds = 0 /\ g = 0 /\ w = 0
      <3>1. pcap_stats.sequence_gaps + g = 0 /\ pcap_stats.sequence_rewinds + w = 0
        BY <1>7, <1>17
      <3>2. \A i, j \in Nat : i + j = 0 => i = 0 /\ j = 0 OBVIOUS
      <3>3. pcap_stats.sequence_gaps = 0 /\ g = 0 BY <1>4, <1>8, <3>1, <3>2
      <3>4. pcap_stats.sequence_rewinds = 0 /\ w = 0 BY <1>4, <1>8, <3>1, <3>2
      <3> QED BY <3>3, <3>4
    <2>2. st # "gap" /\ st # "rewind" /\ ~gapped BY <1>10, <2>1 DEF CountInv
    <2>3. Parsed(decoder_stats) = pcap_stats.mold_messages BY <2>1 DEF CountInv
    <2>4. sequence_valid = TRUE BY <2>2 DEF FeedInv
    <2>5. gate(sequence_valid, status(tracker, d)).pass
      BY <2>2, <2>4 DEF gate, st
    <2>6. CASE control(d)
      <3>1. decoder_stats' = decoder_stats BY <1>13, <2>6 DEF dispatched
      <3>2. advances(d) = 0 BY <2>6, DatagramFacts
      <3> QED BY <1>7, <1>8, <2>3, <3>1, <3>2
    <2>7. CASE ~control(d)
      <3>1. decoder_stats' = counted BY <1>13, <2>5, <2>7 DEF dispatched
      <3>2. /\ count(d, "ok") \in Nat /\ count(d, "unsupported") \in Nat
            /\ count(d, "malformed") \in Nat
            /\ count(d, "ok") + count(d, "unsupported") + count(d, "malformed") = advances(d)
        BY <2>7, CountsFill
      <3>3. /\ counted.ok = decoder_stats.ok + count(d, "ok")
            /\ counted.unsupported = decoder_stats.unsupported + count(d, "unsupported")
            /\ counted.malformed = decoder_stats.malformed + count(d, "malformed")
        BY <1>15, <2>7
      <3>4. Parsed(counted) = Parsed(decoder_stats) + advances(d)
        BY ONLY <1>14, <3>2, <3>3 DEF Parsed
      <3> QED BY <1>7, <2>3, <3>1, <3>4
    <2> QED BY <2>6, <2>7
  <1> QED BY <1>7, <1>9, <1>11, <1>12, <1>16, <1>17 DEF CountInv
-----------------------------------------------------------------------------
(* The inductive invariant of main(): nothing is counted before the        *)
(* replay, and the counters of a replay that goes on are exact.            *)
Clean == /\ decoder_stats.malformed = 0 /\ rejected = 0 /\ pcap_stats.malformed_packets = 0
         /\ pcap_stats.mold_errors = 0 /\ pcap_stats.sequence_gaps = 0
         /\ pcap_stats.sequence_rewinds = 0
MainInv == /\ FeedInv
           /\ phase # "exited" => CountInv
           /\ phase = "options" => Clean
           /\ ExitZeroMeansWhole

(* main() starts with clean counters. *)
LEMMA MainStart == MainInit => MainInv
  <1> SUFFICES ASSUME MainInit PROVE MainInv OBVIOUS
  <1>1. Init /\ phase = "options" /\ rejected = 0 BY DEF MainInit
  <1>2. Clean BY <1>1 DEF Init, Clean
  <1> QED BY <1>1, <1>2, FeedInit, CountInit DEF MainInv, ExitZeroMeansWhole

(* A clean replay that ends is whole.                                      *)
LEMMA CleanIsWhole ==
    ASSUME FeedInv, CountInv, Clean
    PROVE  /\ Parsed(decoder_stats) = pcap_stats.mold_messages
           /\ pcap_stats.packets = pcap_stats.skipped_packets + pcap_stats.filtered_packets
                                   + pcap_stats.mold_packets
           /\ ~crossed => Consecutive
  <1>1. Parsed(decoder_stats) = pcap_stats.mold_messages BY DEF CountInv, Clean
  <1>2. ~gapped /\ ~rewound BY DEF CountInv, Clean
  <1>3. ~crossed => Consecutive BY <1>2 DEF FeedInv, BookGetsPrefix, Consecutive
  <1>4. pcap_stats.packets = pcap_stats.skipped_packets + pcap_stats.filtered_packets
                             + pcap_stats.mold_packets
    <2>1. /\ pcap_stats.skipped_packets \in Nat /\ pcap_stats.filtered_packets \in Nat
          /\ pcap_stats.mold_packets \in Nat
      BY DEF CountInv, PcapStats
    <2>2. /\ pcap_stats.packets = pcap_stats.skipped_packets + pcap_stats.malformed_packets
                                  + pcap_stats.filtered_packets + pcap_stats.mold_errors
                                  + pcap_stats.mold_packets
          /\ pcap_stats.malformed_packets = 0 /\ pcap_stats.mold_errors = 0
      BY DEF CountInv, Clean
    <2> QED BY ONLY <2>1, <2>2
  <1> QED BY <1>1, <1>3, <1>4

(* The steps of main(): options, packets, an exception, or the exit. *)
LEMMA MainStep ==
    ASSUME MainInv, [MainNext]_mainvars
    PROVE  MainInv' /\ (UNCHANGED vars \/ (Holds /\ Whole))
  <1>0. FeedInv BY DEF MainInv
  <1>1. ASSUME NEW a \in Arguments, ReadOption(a) PROVE MainInv' /\ UNCHANGED vars
    <2>1. phase = "options" /\ UNCHANGED <<vars, rejected>> BY <1>1 DEF ReadOption
    <2>2. CountInv /\ Clean BY <2>1 DEF MainInv
    <2>3. FeedInv' /\ CountInv' /\ Clean'
      BY <1>0, <2>1, <2>2 DEF vars, FeedInv, Rising, BookGetsPrefix, CountInv, Clean
    <2>4. (Parsed(decoder_stats) = pcap_stats.mold_messages)'
          /\ (pcap_stats.packets = pcap_stats.skipped_packets + pcap_stats.filtered_packets
                                   + pcap_stats.mold_packets)'
          /\ (~crossed => Consecutive)'
      BY <1>0, <2>1, <2>2, CleanIsWhole DEF vars, Parsed, Consecutive
    <2>5. ExitZeroMeansWhole' BY <2>3, <2>4 DEF ExitZeroMeansWhole, Clean
    <2> QED BY <2>1, <2>3, <2>5 DEF MainInv
  <1>2. ASSUME StartReplay PROVE MainInv' /\ UNCHANGED vars
    <2>1. /\ phase = "options" /\ UNCHANGED <<vars, rejected>>
          /\ (phase' = "replay" \/ (phase' = "exited" /\ exit_status' # 0))
      <3>1. phase = "options" /\ UNCHANGED <<vars, rejected>> BY <1>2 DEF StartReplay
      <3>2. phase' = "replay" \/ Exit(2) \/ Exit(1) BY <1>2 DEF StartReplay
      <3> QED BY ONLY <3>1, <3>2 DEF Exit
    <2>2. CountInv BY <2>1 DEF MainInv
    <2>3. FeedInv' /\ CountInv'
      BY <1>0, <2>1, <2>2 DEF vars, FeedInv, Rising, BookGetsPrefix, CountInv
    <2>4. ExitZeroMeansWhole' BY <2>1 DEF ExitZeroMeansWhole
    <2> QED BY <2>1, <2>3, <2>4 DEF MainInv
  <1>3. ASSUME ReplayPacket PROVE MainInv' /\ Holds /\ Whole
    <2>1. phase = "replay" /\ phase' = "replay" /\ Next BY <1>3 DEF ReplayPacket
    <2>2. CountInv BY <2>1 DEF MainInv
    <2>3. FeedInv' /\ Holds /\ Whole BY <1>0, <2>1, FeedStep
    <2>4. CountInv'
      BY <1>0, <2>1, <2>2, TurnAwayCounts, RefuseCounts, AcceptCounts DEF Next
    <2>5. ExitZeroMeansWhole' BY <2>1 DEF ExitZeroMeansWhole
    <2> QED BY <2>1, <2>3, <2>4, <2>5 DEF MainInv
  <1>4. ASSUME EndOfCapture PROVE MainInv' /\ UNCHANGED vars
    <2>1. /\ phase = "replay" /\ phase' = "exited" /\ UNCHANGED <<vars, options, rejected>>
          /\ exit_status' = exit_status_of(decoder_stats, pcap_stats, rejected)
      BY <1>4 DEF EndOfCapture, Exit
    <2>2. CountInv BY <2>1 DEF MainInv
    <2>3. FeedInv' BY <1>0, <2>1 DEF vars, FeedInv, Rising, BookGetsPrefix
    <2>4. exit_status' = 0 => Clean BY <2>1 DEF exit_status_of, Clean
    <2>5. exit_status' = 0 =>
             /\ (Parsed(decoder_stats) = pcap_stats.mold_messages)'
             /\ (pcap_stats.packets = pcap_stats.skipped_packets + pcap_stats.filtered_packets
                                      + pcap_stats.mold_packets)'
             /\ (~crossed => Consecutive)' /\ decoder_stats'.malformed = 0 /\ rejected' = 0
      BY <1>0, <2>1, <2>2, <2>4, CleanIsWhole DEF vars, Parsed, Consecutive, Clean
    <2>6. ExitZeroMeansWhole' BY <2>5 DEF ExitZeroMeansWhole
    <2> QED BY <2>1, <2>3, <2>6 DEF MainInv
  <1>5. ASSUME ReplayFile PROVE MainInv' /\ Holds /\ Whole
    <2>1. /\ phase = "replay" /\ phase' = "exited" /\ format = "itch"
          /\ UNCHANGED <<tracker, sequence_valid, pcap_stats, packet, start, log, gapped, rewound,
                         crossed, options>>
          /\ exit_status' = exit_status_of(decoder_stats', pcap_stats, rejected')
      BY <1>5 DEF ReplayFile, Exit
    <2>2. CountInv BY <2>1 DEF MainInv
    <2>3. FeedInv' BY <1>0, <2>1 DEF FeedInv, Rising, BookGetsPrefix
    <2>4. exit_status' = 0 =>
             /\ decoder_stats'.malformed = 0 /\ rejected' = 0 /\ pcap_stats.malformed_packets = 0
             /\ pcap_stats.mold_errors = 0 /\ pcap_stats.sequence_gaps = 0
             /\ pcap_stats.sequence_rewinds = 0
      BY <2>1 DEF exit_status_of
    <2>5. ASSUME exit_status' = 0
          PROVE  (~crossed => Consecutive)'
                 /\ (pcap_stats.packets = pcap_stats.skipped_packets + pcap_stats.filtered_packets
                                          + pcap_stats.mold_packets)'
      <3>1. ~gapped /\ ~rewound BY <2>2, <2>4, <2>5 DEF CountInv
      <3>2. ~crossed => Consecutive BY <1>0, <3>1 DEF FeedInv, BookGetsPrefix, Consecutive
      <3>3. pcap_stats.packets = pcap_stats.skipped_packets + pcap_stats.filtered_packets
                                 + pcap_stats.mold_packets
        <4>1. /\ pcap_stats.skipped_packets \in Nat /\ pcap_stats.filtered_packets \in Nat
              /\ pcap_stats.mold_packets \in Nat
          BY <2>2 DEF CountInv, PcapStats
        <4>2. /\ pcap_stats.packets = pcap_stats.skipped_packets + pcap_stats.malformed_packets
                                      + pcap_stats.filtered_packets + pcap_stats.mold_errors
                                      + pcap_stats.mold_packets
              /\ pcap_stats.malformed_packets = 0 /\ pcap_stats.mold_errors = 0
          BY <2>2, <2>4, <2>5 DEF CountInv
        <4> QED BY ONLY <4>1, <4>2
      <3> QED BY <2>1, <3>2, <3>3 DEF Consecutive
    <2>6. format' # "pcap" BY <2>1 DEF format
    <2>7. ExitZeroMeansWhole' BY <2>4, <2>5, <2>6 DEF ExitZeroMeansWhole
    <2>8. Holds /\ Whole BY <2>1 DEF Holds, Whole
    <2> QED BY <2>1, <2>3, <2>7, <2>8 DEF MainInv
  <1>6. ASSUME ReplayThrows PROVE MainInv' /\ UNCHANGED vars
    <2>1. phase' = "exited" /\ exit_status' = 1 /\ UNCHANGED <<vars, options, rejected>>
      BY <1>6 DEF ReplayThrows, Exit
    <2>2. FeedInv' BY <1>0, <2>1 DEF vars, FeedInv, Rising, BookGetsPrefix
    <2>3. ExitZeroMeansWhole' BY <2>1 DEF ExitZeroMeansWhole
    <2> QED BY <2>1, <2>2, <2>3 DEF MainInv
  <1>7. CASE UNCHANGED mainvars
    <2>1. UNCHANGED <<vars, phase, options, rejected, exit_status>> BY <1>7 DEF mainvars
    <2>2. FeedInv' BY <1>0, <2>1 DEF vars, FeedInv, Rising, BookGetsPrefix
    <2>3. (phase # "exited" => CountInv)' BY <2>1 DEF vars, MainInv, CountInv, Parsed
    <2>4. (phase = "options" => Clean)' BY <2>1 DEF vars, MainInv, Clean
    <2>5. ExitZeroMeansWhole'
      BY <2>1 DEF vars, MainInv, ExitZeroMeansWhole, Parsed, Consecutive, format
    <2> QED BY <2>1, <2>2, <2>3, <2>4, <2>5 DEF MainInv
  <1> QED BY <1>1, <1>2, <1>3, <1>4, <1>5, <1>6, <1>7 DEF MainNext

(* Whatever datagrams are lost, repeated, reordered or malformed, and      *)
(* whatever the options, the invariant of main() holds.                    *)
THEOREM MainInvariance == MainSpec => []MainInv
  <1>1. MainInv /\ [MainNext]_mainvars => MainInv' BY MainStep
  <1> QED BY <1>1, MainStart, PTL DEF MainSpec

(* The gate of decode_capture() lets a prefix of the session through.      *)
THEOREM PrefixReachesBook == MainSpec => []BookGetsPrefix
  <1>1. MainInv => BookGetsPrefix BY DEF MainInv, FeedInv
  <1> QED BY <1>1, MainInvariance, PTL

(* observe() and the gate dispatch no message twice or out of order.       *)
THEOREM DispatchedOnce == MainSpec => []NeverTwice
  <1>1. MainInv => NeverTwice BY DEF MainInv, FeedInv, Rising, NeverTwice
  <1> QED BY <1>1, MainInvariance, PTL

(* Exit status 0 means a whole and clean replay, for every capture, every  *)
(* file and all options.                                                   *)
THEOREM ExitZeroIsReliable == MainSpec => []ExitZeroMeansWhole
  <1>1. MainInv => ExitZeroMeansWhole BY DEF MainInv
  <1> QED BY <1>1, MainInvariance, PTL

(* After a gap the book waits for the next session.                        *)
THEOREM GapIsFinal == MainSpec => GapHoldsBook
  <1>1. MainInv /\ [MainNext]_mainvars => [Holds]_vars BY MainStep
  <1>2. MainInv /\ [MainNext]_mainvars => [gapped /\ gapped' => log' = log]_vars
    BY <1>1 DEF Holds
  <1> QED BY <1>2, MainInvariance, PTL DEF MainSpec, GapHoldsBook

(* decode() lets a datagram through to the tracker and to the book as a    *)
(* whole, and one that its messages do not fill not at all.                *)
THEOREM DatagramsAreTransactions == MainSpec => Transactional
  <1>1. MainInv /\ [MainNext]_mainvars => [Whole]_vars BY MainStep
  <1>2. MainInv /\ [MainNext]_mainvars =>
          [pcap_stats'.packets # pcap_stats.packets =>
             IF packet'.kind = "mold" /\ Fills(packet')
             THEN LET new  == status(tracker, packet') \in {"initialized", "new_session"}
                      kept == IF new THEN <<>> ELSE log
                  IN  /\ tracker' = observe(tracker, packet')
                      /\ \/ log' = kept /\ UNCHANGED decoder_stats
                         \/ /\ ~control(packet') /\ log' = kept \o Sequence(packet')
                            /\ \A o \in DOMAIN decoder_stats :
                                  decoder_stats'[o] = decoder_stats[o] + count(packet', o)
             ELSE UNCHANGED <<tracker, sequence_valid, log, decoder_stats>>]_vars
    BY <1>1 DEF Whole
  <1> QED BY <1>2, MainInvariance, PTL DEF MainSpec, Transactional

(* A session starts without a loss, and no step of main() hides one. *)
LEMMA LossMain ==
    /\ MainInit => LossInv
    /\ MainInv /\ LossInv /\ [MainNext]_mainvars => LossInv'
  <1>1. ASSUME MainInit PROVE LossInv
    <2>1. ~tracker.initialized /\ log = <<>> BY <1>1 DEF MainInit, Init
    <2> QED BY <2>1 DEF LossInv, NoSilentLoss
  <1>2. ASSUME MainInv, LossInv, [MainNext]_mainvars PROVE LossInv'
    <2>1. ASSUME UNCHANGED <<tracker, start, log, gapped, rewound>> PROVE LossInv'
      BY <1>2, <2>1 DEF LossInv, NoSilentLoss, Resumes
    <2>2. CASE UNCHANGED vars BY <2>1, <2>2 DEF vars
    <2>3. CASE ReplayPacket BY <1>2, <2>3, LossStep DEF ReplayPacket, MainInv
    <2>4. CASE ReplayFile BY <2>1, <2>4 DEF ReplayFile
    <2>5. ASSUME NEW a \in Arguments, ReadOption(a) PROVE LossInv'
      BY <2>2, <2>5 DEF ReadOption
    <2>6. CASE StartReplay BY <2>2, <2>6 DEF StartReplay
    <2>7. CASE EndOfCapture BY <2>2, <2>7 DEF EndOfCapture
    <2>8. CASE ReplayThrows BY <2>2, <2>8 DEF ReplayThrows
    <2>9. CASE UNCHANGED mainvars BY <2>2, <2>9 DEF mainvars
    <2> QED BY <1>2, <2>3, <2>4, <2>5, <2>6, <2>7, <2>8, <2>9 DEF MainNext
  <1> QED BY <1>1, <1>2

(* What observe() does not report is not lost, also at the wrap of the     *)
(* sequence numbers.                                                       *)
THEOREM LossIsReported == MainSpec => []NoSilentLoss
  <1>1. LossInv => NoSilentLoss BY DEF LossInv
  <1> QED BY <1>1, LossMain, MainInvariance, PTL DEF MainSpec
=============================================================================
