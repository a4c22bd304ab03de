------------------------ MODULE FramedDecoderProofs ------------------------
(***************************************************************************)
(* The decoder, for every message size, buffer size and file.  Its buffer  *)
(* discipline, DecoderInv, is inductive as it stands.  That it computes    *)
(* what a reading of the whole file does needs the frames behind it: a     *)
(* trace of the marks between them, which more bytes never invalidate.     *)
(***************************************************************************)
EXTENDS FramedDecoder, SequenceTheorems, WellFoundedInduction, TLAPS

(* A least counterexample exists. *)
LEMMA LeastNat ==
    ASSUME NEW T \in SUBSET Nat, T # {}
    PROVE  \E n \in T : \A m \in T : n <= m
  <1> DEFINE R == OpToRel(<, Nat)
  <1>1. IsWellFoundedOn(R, Nat) BY NatLessThanWellFounded
  <1>2. \A x, y \in Nat : x < y => <<x, y>> \in R BY DEF OpToRel
  <1> HIDE DEF R
  <1>3. PICK n \in T : \A m \in T : ~(<<m, n>> \in R) BY <1>1, WFMin
  <1>4. ASSUME NEW m \in T PROVE n <= m
    <2>1. m \in Nat /\ n \in Nat OBVIOUS
    <2>2. ~(m < n) BY <1>2, <1>3, <2>1
    <2> QED BY <2>1, <2>2
  <1> QED BY <1>4

(* The rest of a sequence of bytes is one. *)
LEMMA RestOfBytes ==
    ASSUME NEW s \in Seq(Byte), NEW m \in Nat, m <= Len(s)
    PROVE  SubSeq(s, m + 1, Len(s)) \in Seq(Byte)
  <1>1. \A i \in m + 1 .. Len(s) : s[i] \in Byte
    BY SMT
  <1> QED BY <1>1, SMT

(* copy() keeps the buffer's discipline, whether it starts a message or    *)
(* goes on with one, provided that its length is the one just read.        *)
LEMMA CopyPreserves ==
    ASSUME DecoderInv, NEW from, NEW length \in 1 .. MaxMessage, NEW bytes \in Seq(Byte),
           length_buf' \in [1 .. 2 -> Byte],
           length = Base * length_buf'[1] + length_buf'[2],
           used < length, phase' # "reading",
           copy(from, length, bytes)
    PROVE  DecoderInv'
  <1> DEFINE take == IF length - used < Len(bytes) THEN length - used ELSE Len(bytes)
  <1> USE DecoderAssumption
  <1>1. /\ take \in Nat /\ take <= Len(bytes) /\ used + take \in 0 .. length
        /\ used \in 0 .. MaxMessage
    BY DEF DecoderInv
  <1>2. input' \in Seq(Byte)
    <2>1. SubSeq(bytes, take + 1, Len(bytes)) \in Seq(Byte)
      BY <1>1, RestOfBytes
    <2> QED BY <2>1 DEF copy
  <1>3. message_buf' \in [1 .. MaxMessage -> Byte]
    <2>1. copy_n(bytes, take) \in [1 .. MaxMessage -> Byte]
      BY <1>1 DEF copy_n, DecoderInv
    <2> QED BY <2>1 DEF copy
  <1>4. CASE used + take = length
    <2>1. length_bytes' = 0 /\ expected' = 0 /\ used' = 0
      BY <1>4 DEF copy, reset, whole
    <2> QED BY <2>1, <1>2, <1>3 DEF DecoderInv
  <1>5. CASE used + take # length
    <2>1. length_bytes' = 2 /\ expected' = length /\ used' = used + take
      BY <1>5 DEF copy, whole
    <2> QED BY <2>1, <1>1, <1>2, <1>3, <1>5 DEF DecoderInv
  <1> QED BY <1>4, <1>5

(* The decoder starts empty. *)
LEMMA DecoderInitially == Init => DecoderInv
  <1> SUFFICES ASSUME Init PROVE DecoderInv OBVIOUS
  <1>1. 0 \in Byte
    BY DecoderAssumption DEF Byte
  <1>2. length_buf \in [1 .. 2 -> Byte]
    BY <1>1 DEF Init
  <1> QED BY <1>1, <1>2, DecoderAssumption DEF Init, DecoderInv

(* One step per action; copy() is the one that can write too far. *)
LEMMA DecoderStep == DecoderInv /\ [Next]_vars => DecoderInv'
  <1> SUFFICES ASSUME DecoderInv, [Next]_vars PROVE DecoderInv' OBVIOUS
  <1> USE DecoderAssumption
  <1>1. ASSUME NEW chunk \in Chunks, read(chunk) PROVE DecoderInv'
    <2>1. chunk \in Seq(Byte)
      BY DEF Chunks
    <2> QED BY <1>1, <2>1 DEF DecoderInv, read, decoder
  <1>2. CASE consume_first
    <2>1. input \in Seq(Byte) /\ input # <<>>
      BY <1>2 DEF consume_first, Turn, DecoderInv
    <2>2. Head(input) \in Byte /\ Tail(input) \in Seq(Byte)
      BY <2>1
    <2>3. length_buf' \in [1 .. 2 -> Byte]
      BY <1>2, <2>2 DEF consume_first, DecoderInv
    <2>4. phase' # "reading"
      BY <1>2 DEF consume_first, Turn
    <2> QED BY <1>2, <2>2, <2>3, <2>4 DEF consume_first, DecoderInv
  <1>3. CASE consume_second
    <2> DEFINE length == big_endian(length_buf[1], Head(input))
    <2>1. input \in Seq(Byte) /\ input # <<>>
      BY <1>3 DEF consume_second, Turn, DecoderInv
    <2>2. Head(input) \in Byte /\ Tail(input) \in Seq(Byte)
      BY <2>1
    <2>3. /\ length_buf' \in [1 .. 2 -> Byte]
          /\ length_buf'[1] = length_buf[1] /\ length_buf'[2] = Head(input)
      BY <1>3, <2>2 DEF consume_second, DecoderInv
    <2>4. length_buf[1] \in Nat /\ Head(input) \in Nat
      BY <2>2 DEF DecoderInv, Byte
    <2>5. length \in Nat /\ length = Base * length_buf'[1] + length_buf'[2]
      BY <2>3, <2>4 DEF big_endian
    <2>6. CASE good_length(length)
      <3>1. length \in 1 .. MaxMessage /\ used < length
        BY <1>3, <2>5, <2>6 DEF good_length, consume_second, DecoderInv
      <3>2. copy(Append(passed, Head(input)), length, Tail(input)) /\ phase' # "reading"
        BY <1>3, <2>6 DEF consume_second, Turn
      <3> HIDE DEF length
      <3> QED BY <3>1, <3>2, <2>2, <2>3, <2>5, CopyPreserves
    <2>7. CASE ~good_length(length)
      <3>1. reset /\ phase' = "left" /\ input' = Tail(input) /\ message_buf' = message_buf
        BY <1>3, <2>7 DEF consume_second
      <3> QED BY <3>1, <2>2, <2>3 DEF DecoderInv, reset
    <2> QED BY <2>6, <2>7
  <1>4. CASE consume_message
    <2>1. /\ expected \in 1 .. MaxMessage /\ used < expected /\ input \in Seq(Byte)
          /\ length_buf' \in [1 .. 2 -> Byte]
          /\ expected = Base * length_buf'[1] + length_buf'[2]
          /\ phase' # "reading" /\ copy(passed, expected, input)
      BY <1>4 DEF consume_message, Turn, DecoderInv
    <2> QED BY <2>1, CopyPreserves
  <1>5. CASE consume_returns
    BY <1>5 DEF consume_returns, DecoderInv, decoder
  <1>6. CASE leave
    <2>1. phase' # "reading" /\ UNCHANGED <<input, length_buf, message_buf>>
      BY <1>6 DEF leave, decoder
    <2>2. \/ UNCHANGED <<length_bytes, expected, used>>
          \/ length_bytes' = 0 /\ expected' = 0 /\ used' = 0
      BY <1>6 DEF leave, decoder, reset
    <2> QED BY <2>1, <2>2 DEF DecoderInv
  <1>7. CASE UNCHANGED vars
    BY <1>7 DEF vars, decoder, DecoderInv
  <1> QED BY <1>1, <1>2, <1>3, <1>4, <1>5, <1>6, <1>7 DEF Next, consume

(* Whatever the file holds and wherever it is cut, consume() never writes  *)
(* outside message_buf or past the message's length, and a frame that is   *)
(* not complete is carried to the next buffer as length and bytes so far.  *)
THEOREM DecoderBufferSafe == Spec => []DecoderInv
  BY DecoderInitially, DecoderStep, PTL DEF Spec
-----------------------------------------------------------------------------
(* The frame at place p of the bytes b, if there is a whole and good one. *)
LengthAt(b, p) == Base * b[p] + b[p + 1]
Framed(b, p) == /\ p \in 1 .. Len(b) - 1 /\ LengthAt(b, p) \in 1 .. MaxMessage
                /\ p + 1 + LengthAt(b, p) <= Len(b)
MessageAt(b, p) == SubSeq(b, p + 2, p + 1 + LengthAt(b, p))
After(b, p) == p + 2 + LengthAt(b, p)

(* A length read from two bytes is a natural number. *)
LEMMA LengthType ==
    ASSUME NEW b \in Seq(Byte), NEW p \in 1 .. Len(b) - 1
    PROVE  LengthAt(b, p) \in Nat
  <1>1. b[p] \in Byte /\ b[p + 1] \in Byte OBVIOUS
  <1>2. b[p] \in Nat /\ b[p + 1] \in Nat /\ Base \in Nat
    BY <1>1, DecoderAssumption DEF Byte
  <1> QED BY ONLY <1>2 DEF LengthAt

(* The bytes of a frame, what they parse to and where the next frame starts. *)
LEMMA MessageFacts ==
    ASSUME NEW b \in Seq(Byte), NEW p, Framed(b, p)
    PROVE  /\ MessageAt(b, p) \in [1 .. LengthAt(b, p) -> Byte]
           /\ MessageAt(b, p) \in Seq(Byte) /\ Len(MessageAt(b, p)) = LengthAt(b, p)
           /\ \A i \in 1 .. LengthAt(b, p) : MessageAt(b, p)[i] = b[p + 1 + i]
           /\ Parse(MessageAt(b, p)) \in Outcomes
           /\ After(b, p) \in Nat /\ After(b, p) > p /\ After(b, p) <= Len(b) + 1
  <1> DEFINE n == LengthAt(b, p)
             m == MessageAt(b, p)
  <1>1. n \in 1 .. MaxMessage /\ p \in Nat /\ p >= 1 /\ p + 1 + n <= Len(b) /\ Len(b) \in Nat
    BY DecoderAssumption DEF Framed
  <1>2. m = SubSeq(b, p + 2, p + 1 + n) /\ n \in Nat BY <1>1, DecoderAssumption DEF MessageAt
  <1>3. After(b, p) = p + 2 + n BY DEF After
  <1> HIDE DEF n, m
  <1>4. Len(m) = n /\ m \in Seq(Byte) /\ \A i \in 1 .. n : m[i] = b[p + 1 + i]
    <2>1. p + 2 \in 1 .. Len(b) + 1 /\ p + 1 + n \in (p + 2) - 1 .. Len(b) BY <1>1, <1>2
    <2>2. /\ Len(SubSeq(b, p + 2, p + 1 + n)) = (p + 1 + n) - (p + 2) + 1
          /\ SubSeq(b, p + 2, p + 1 + n) \in Seq(Byte)
          /\ \A i \in 1 .. (p + 1 + n) - (p + 2) + 1 :
                SubSeq(b, p + 2, p + 1 + n)[i] = b[(p + 2) + i - 1]
      BY <2>1, SubSeqProperties
    <2>3. (p + 1 + n) - (p + 2) + 1 = n BY <1>1, <1>2
    <2>4. \A i \in 1 .. n : (p + 2) + i - 1 = p + 1 + i BY <1>1, <1>2
    <2> QED BY <1>2, <2>2, <2>3, <2>4
  <1>5. m \in [1 .. n -> Byte] BY <1>4
  <1>6. Parse(m) \in Outcomes BY <1>1, <1>5, DecoderAssumption DEF Byte
  <1>7. After(b, p) \in Nat /\ After(b, p) > p /\ After(b, p) <= Len(b) + 1
    BY ONLY <1>1, <1>2, <1>3
  <1> QED BY <1>4, <1>5, <1>6, <1>7, Zenon DEF m, n

(* The recursion of Frames, and the type of what it computes. *)
Reads == [delivered : Seq(Seq(Byte)), stats : [Outcomes -> Nat]]
FrameStep(b, g, p) ==
    IF p > Len(b) THEN Clean
    ELSE IF Framed(b, p) THEN Counted(MessageAt(b, p), g[After(b, p)]) ELSE Broken

(* The ends of the recursion and a step of it have that type. *)
LEMMA EndsAreReads == Clean \in Reads /\ Broken \in Reads
  <1>1. <<>> \in Seq(Seq(Byte)) OBVIOUS
  <1>2. [o \in Outcomes |-> 0] \in [Outcomes -> Nat] OBVIOUS
  <1>3. [o \in Outcomes |-> IF o = "malformed" THEN 1 ELSE 0] \in [Outcomes -> Nat] OBVIOUS
  <1> QED BY <1>1, <1>2, <1>3 DEF Clean, Broken, Reads

(* A frame counted in front of a reading makes a reading. *)
LEMMA CountedIsRead ==
    ASSUME NEW m \in Seq(Byte), Parse(m) \in Outcomes, NEW r \in Reads
    PROVE  Counted(m, r) \in Reads
  <1>1. r.delivered \in Seq(Seq(Byte)) /\ r.stats \in [Outcomes -> Nat] BY DEF Reads
  <1>2. <<m>> \in Seq(Seq(Byte)) OBVIOUS
  <1>3. <<m>> \o r.delivered \in Seq(Seq(Byte)) BY <1>1, <1>2, ConcatProperties
  <1>4. [r.stats EXCEPT ![Parse(m)] = @ + 1] \in [Outcomes -> Nat] BY <1>1
  <1> QED BY <1>1, <1>3, <1>4 DEF Counted, Reads

(* So does a step of the recursion. *)
LEMMA StepIsRead ==
    ASSUME NEW b \in Seq(Byte), NEW p, NEW g,
           Framed(b, p) => g[After(b, p)] \in Reads
    PROVE  FrameStep(b, g, p) \in Reads
  BY EndsAreReads, CountedIsRead, MessageFacts DEF FrameStep

(* The recursion has a solution: from the end of the bytes towards their   *)
(* start, a solution is extended by one place at a time.                   *)
LEMMA FramesExist ==
    ASSUME NEW b \in Seq(Byte)
    PROVE  \E g : g = [p \in 1 .. Len(b) + 1 |-> FrameStep(b, g, p)]
  <1> DEFINE N == Len(b)
             Has(k) == \E g : g = [p \in N + 1 - k .. N + 1 |-> FrameStep(b, g, p)]
             Bad == {k \in 0 .. N : ~Has(k)}
  <1>0. N \in Nat OBVIOUS
  <1>1. Has(0)
    <2> DEFINE g == [p \in N + 1 - 0 .. N + 1 |-> Clean]
    <2>1. \A p \in N + 1 - 0 .. N + 1 : FrameStep(b, g, p) = Clean BY DEF FrameStep
    <2>2. g = [p \in N + 1 - 0 .. N + 1 |-> FrameStep(b, g, p)] BY <2>1
    <2> QED BY <2>2
  <1>2. ASSUME NEW k \in 0 .. N - 1, Has(k) PROVE Has(k + 1)
    <2>1. PICK h : h = [p \in N + 1 - k .. N + 1 |-> FrameStep(b, h, p)] BY <1>2
    <2> DEFINE D == N + 1 - (k + 1) .. N + 1
               g == [p \in D |-> FrameStep(b, h, p)]
    <2>2. ASSUME NEW p \in D PROVE FrameStep(b, g, p) = FrameStep(b, h, p)
      <3>1. CASE Framed(b, p)
        <4>1. After(b, p) \in N + 1 - k .. N + 1 /\ After(b, p) \in D
          <5>1. After(b, p) \in Nat /\ After(b, p) > p /\ After(b, p) <= N + 1
            BY <3>1, MessageFacts
          <5>2. p \in Int /\ p >= N - k BY <1>0
          <5> QED BY <1>0, <5>1, <5>2
        <4>2. h[After(b, p)] = FrameStep(b, h, After(b, p)) BY <2>1, <4>1
        <4>3. g[After(b, p)] = h[After(b, p)] BY <4>1, <4>2
        <4> HIDE DEF g, D
        <4> QED BY <4>3 DEF FrameStep
      <3>2. CASE ~Framed(b, p) BY <3>2 DEF FrameStep
      <3> QED BY <3>1, <3>2
    <2>3. g = [p \in D |-> FrameStep(b, g, p)]
      <3>1. [p \in D |-> FrameStep(b, g, p)] = [p \in D |-> FrameStep(b, h, p)]
        <4> HIDE DEF D, g
        <4> QED BY <2>2
      <3> QED BY <3>1, Zenon
    <2> HIDE DEF g
    <2> QED BY <2>3
  <1> HIDE DEF Has
  <1>3. ASSUME NEW k \in Bad PROVE FALSE
    <2>1. Bad \in SUBSET Nat OBVIOUS
    <2>2. PICK j \in Bad : \A i \in Bad : j <= i
      <3> HIDE DEF Bad
      <3> QED BY <1>3, <2>1, LeastNat
    <2>3. j \in 0 .. N /\ ~Has(j) /\ j # 0 BY <1>1, <2>2
    <2>4. j - 1 \in 0 .. N - 1 /\ j - 1 \notin Bad BY <1>0, <2>2, <2>3
    <2>5. Has(j - 1) BY <1>0, <2>4
    <2>6. Has((j - 1) + 1) BY <1>2, <2>4, <2>5
    <2>7. (j - 1) + 1 = j BY <2>3
    <2> QED BY <2>3, <2>6, <2>7
  <1>4. Has(N) BY <1>0, <1>3
  <1>5. N + 1 - N = 1 BY <1>0
  <1> QED BY <1>4, <1>5 DEF Has

(* Frames(b) is what the solution has at the start of b. *)
LEMMA FramesSolve ==
    ASSUME NEW b \in Seq(Byte)
    PROVE  \E g : /\ Frames(b) = g[1]
                  /\ \A p \in 1 .. Len(b) + 1 : g[p] \in Reads /\ g[p] = FrameStep(b, g, p)
  <1> DEFINE N == Len(b)
             Raw(g, p) ==
                 IF p > Len(b) THEN Clean
                 ELSE LET n == Base * b[p] + b[p + 1]
                      IN  IF p = Len(b) \/ n = 0 \/ n > MaxMessage \/ p + 1 + n > Len(b)
                          THEN Broken
                          ELSE Counted(SubSeq(b, p + 2, p + 1 + n), g[p + 2 + n])
             c == CHOOSE g : g = [p \in 1 .. Len(b) + 1 |-> Raw(g, p)]
  <1>0. N \in Nat OBVIOUS
  <1>1. ASSUME NEW g, NEW p \in 1 .. Len(b) + 1 PROVE FrameStep(b, g, p) = Raw(g, p)
    <2> DEFINE n == Base * b[p] + b[p + 1]
    <2>1. p \in 1 .. Len(b) - 1 => n \in Nat /\ n = LengthAt(b, p)
      BY LengthType DEF LengthAt
    <2>2. Framed(b, p) <=> ~(p > Len(b)) /\ ~(\/ p = Len(b) \/ n = 0 \/ n > MaxMessage
                                              \/ p + 1 + n > Len(b))
      <3> HIDE DEF n
      <3> QED BY <1>0, <2>1, DecoderAssumption DEF Framed
    <2>3. Framed(b, p) => /\ MessageAt(b, p) = SubSeq(b, p + 2, p + 1 + n)
                          /\ After(b, p) = p + 2 + n
      BY DEF MessageAt, After, LengthAt
    <2>4. Raw(g, p) = IF p > Len(b) THEN Clean
                      ELSE IF \/ p = Len(b) \/ n = 0 \/ n > MaxMessage \/ p + 1 + n > Len(b)
                      THEN Broken ELSE Counted(SubSeq(b, p + 2, p + 1 + n), g[p + 2 + n])
      OBVIOUS
    <2> HIDE DEF n, Raw
    <2> QED BY <2>2, <2>3, <2>4, Zenon DEF FrameStep
  <1>2. Frames(b) = c[1] BY DEF Frames
  <1> HIDE DEF Raw
  <1>a. c = [p \in 1 .. Len(b) + 1 |-> Raw(c, p)]
    <2>1. PICK h : h = [p \in 1 .. Len(b) + 1 |-> FrameStep(b, h, p)] BY FramesExist
    <2>2. [p \in 1 .. Len(b) + 1 |-> FrameStep(b, h, p)]
            = [p \in 1 .. Len(b) + 1 |-> Raw(h, p)]
      BY <1>1
    <2>3. h = [p \in 1 .. Len(b) + 1 |-> Raw(h, p)] BY <2>1, <2>2, Zenon
    <2> QED BY <2>3
  <1> HIDE DEF c
  <1>3. \A p \in 1 .. N + 1 : c[p] = FrameStep(b, c, p) BY <1>1, <1>a
  <1> DEFINE Bad == {k \in 0 .. N : c[N + 1 - k] \notin Reads}
  <1>4. ASSUME NEW x \in Bad PROVE FALSE
    <2>1. Bad \in SUBSET Nat OBVIOUS
    <2>2. PICK k \in Bad : \A i \in Bad : k <= i
      <3> HIDE DEF Bad
      <3> QED BY <1>4, <2>1, LeastNat
    <2> DEFINE p == N + 1 - k
    <2>3. k \in 0 .. N /\ p \in 1 .. N + 1 BY <1>0, <2>2
    <2>4. Framed(b, p) => c[After(b, p)] \in Reads
      <3> SUFFICES ASSUME Framed(b, p) PROVE c[After(b, p)] \in Reads OBVIOUS
      <3> DEFINE q == After(b, p)
      <3>1. q \in Nat /\ q > p /\ q <= N + 1 BY MessageFacts
      <3> HIDE DEF q
      <3>2. N + 1 - q \in 0 .. N /\ ~(k <= N + 1 - q) BY <1>0, <2>3, <3>1
      <3>3. N + 1 - q \notin Bad BY <2>2, <3>2
      <3>4. N + 1 - (N + 1 - q) = q BY <1>0, <3>1
      <3> QED BY <3>2, <3>3, <3>4 DEF q
    <2>5. FrameStep(b, c, p) \in Reads BY <2>4, StepIsRead
    <2> QED BY <1>3, <2>2, <2>3, <2>5
  <1>5. \A p \in 1 .. N + 1 : c[p] \in Reads
    <2> TAKE p \in 1 .. N + 1
    <2>1. N + 1 - p \in 0 .. N /\ N + 1 - (N + 1 - p) = p BY <1>0
    <2> QED BY <1>4, <2>1
  <1> QED BY <1>2, <1>3, <1>5
-----------------------------------------------------------------------------
(* A mark is a place between two frames, with what the frames before it    *)
(* delivered and counted; a trace is the marks from the start of b on.     *)
Marks == [at : Nat \ {0}, delivered : Seq(Seq(Byte)), stats : [Outcomes -> Nat]]
Start == [at |-> 1, delivered |-> <<>>, stats |-> [o \in Outcomes |-> 0]]
Follows(b, x, y) ==
    LET m == MessageAt(b, x.at)
    IN  /\ Framed(b, x.at) /\ y.at = After(b, x.at)
        /\ y.delivered = IF Parse(m) = "decoded" THEN Append(x.delivered, m) ELSE x.delivered
        /\ y.stats = [x.stats EXCEPT ![Parse(m)] = @ + 1]
Trace(b, w, k) == w[0] = Start /\ \A j \in 0 .. k - 1 : Follows(b, w[j], w[j + 1])
Reaches(b, x) == \E k \in Nat : \E w \in [0 .. k -> Marks] : Trace(b, w, k) /\ w[k] = x

(* The trace of no frame ends at the start. *)
LEMMA StartIsMark == Start \in Marks
  <1>1. <<>> \in Seq(Seq(Byte)) /\ [o \in Outcomes |-> 0] \in [Outcomes -> Nat] OBVIOUS
  <1> QED BY <1>1 DEF Start, Marks

(* The start is reached in an empty file. *)
LEMMA ReachStart == Reaches(<<>>, Start)
  <1> DEFINE w == [j \in 0 .. 0 |-> Start]
  <1>1. w \in [0 .. 0 -> Marks] /\ w[0] = Start BY StartIsMark
  <1>2. Trace(<<>>, w, 0) BY <1>1 DEF Trace
  <1> HIDE DEF w
  <1> QED BY <1>1, <1>2 DEF Reaches

(* More bytes behind b leave its frames as they are. *)
Begins(b, c) == Len(b) <= Len(c) /\ \A i \in 1 .. Len(b) : c[i] = b[i]
(* A whole frame is the same frame in a longer file. *)
LEMMA FrameStays ==
    ASSUME NEW b \in Seq(Byte), NEW c \in Seq(Byte), Begins(b, c), NEW p, Framed(b, p)
    PROVE  Framed(c, p) /\ MessageAt(c, p) = MessageAt(b, p) /\ After(c, p) = After(b, p)
  <1>1. p \in 1 .. Len(b) - 1 /\ Len(b) \in Nat /\ Len(c) \in Nat /\ Len(b) <= Len(c)
    BY DEF Framed, Begins
  <1>2. c[p] = b[p] /\ c[p + 1] = b[p + 1] BY <1>1 DEF Begins
  <1>3. LengthAt(c, p) = LengthAt(b, p) BY <1>2 DEF LengthAt
  <1>4. LengthAt(b, p) \in Nat BY <1>1, LengthType
  <1>5. Framed(c, p) BY <1>1, <1>3, <1>4 DEF Framed
  <1>6. ASSUME NEW i \in 1 .. LengthAt(b, p) PROVE MessageAt(c, p)[i] = MessageAt(b, p)[i]
    <2>1. MessageAt(b, p)[i] = b[p + 1 + i] BY MessageFacts
    <2>2. MessageAt(c, p)[i] = c[p + 1 + i] BY <1>3, <1>5, MessageFacts
    <2>3. p + 1 + i \in 1 .. Len(b)
      <3>1. p + 1 + LengthAt(b, p) <= Len(b) BY DEF Framed
      <3> QED BY <1>1, <1>4, <3>1
    <2> QED BY <2>1, <2>2, <2>3 DEF Begins
  <1>7. MessageAt(c, p) = MessageAt(b, p)
    <2>1. MessageAt(b, p) \in [1 .. LengthAt(b, p) -> Byte] BY MessageFacts
    <2>2. MessageAt(c, p) \in [1 .. LengthAt(b, p) -> Byte] BY <1>3, <1>5, MessageFacts
    <2> DEFINE n == LengthAt(b, p)
               u == MessageAt(b, p)
               v == MessageAt(c, p)
    <2>3. u \in [1 .. n -> Byte] /\ v \in [1 .. n -> Byte] /\ \A i \in 1 .. n : v[i] = u[i]
      BY <1>6, <2>1, <2>2
    <2> HIDE DEF n, u, v
    <2>4. u = [i \in 1 .. n |-> u[i]] /\ v = [i \in 1 .. n |-> v[i]] BY ONLY <2>3, Zenon
    <2>5. [i \in 1 .. n |-> u[i]] = [i \in 1 .. n |-> v[i]] BY ONLY <2>3, Zenon
    <2> QED BY <2>4, <2>5, Zenon DEF u, v
  <1> QED BY <1>3, <1>5, <1>7 DEF After

(* A mark once reached stays reached when the file goes on. *)
LEMMA ReachExtends ==
    ASSUME NEW b \in Seq(Byte), NEW c \in Seq(Byte), Begins(b, c), NEW x, Reaches(b, x)
    PROVE  Reaches(c, x)
  <1>1. PICK k \in Nat : \E w \in [0 .. k -> Marks] : Trace(b, w, k) /\ w[k] = x
    BY DEF Reaches
  <1>2. PICK w \in [0 .. k -> Marks] : Trace(b, w, k) /\ w[k] = x BY <1>1
  <1>3. ASSUME NEW j \in 0 .. k - 1 PROVE Follows(c, w[j], w[j + 1])
    <2>1. Follows(b, w[j], w[j + 1]) BY <1>2 DEF Trace
    <2>2. Framed(b, w[j].at) BY <2>1 DEF Follows
    <2>3. /\ Framed(c, w[j].at) /\ MessageAt(c, w[j].at) = MessageAt(b, w[j].at)
          /\ After(c, w[j].at) = After(b, w[j].at)
      BY <2>2, FrameStays
    <2> QED BY <2>1, <2>3 DEF Follows
  <1>4. Trace(c, w, k) BY <1>2, <1>3 DEF Trace
  <1> QED BY <1>2, <1>4 DEF Reaches

(* What follows a mark is a mark. *)
LEMMA MarkFollows ==
    ASSUME NEW b \in Seq(Byte), NEW x \in Marks, NEW at, NEW d, NEW t,
           Follows(b, x, [at |-> at, delivered |-> d, stats |-> t])
    PROVE  [at |-> at, delivered |-> d, stats |-> t] \in Marks
  <1> DEFINE m == MessageAt(b, x.at)
             y == [at |-> at, delivered |-> d, stats |-> t]
  <1>1. x.delivered \in Seq(Seq(Byte)) /\ x.stats \in [Outcomes -> Nat] /\ x.at \in Nat \ {0}
    BY DEF Marks
  <1>2. /\ Framed(b, x.at) /\ at = After(b, x.at)
        /\ d = IF Parse(m) = "decoded" THEN Append(x.delivered, m) ELSE x.delivered
        /\ t = [x.stats EXCEPT ![Parse(m)] = @ + 1]
    BY DEF Follows
  <1>3. m \in Seq(Byte) /\ Parse(m) \in Outcomes /\ at \in Nat /\ at > x.at
    BY <1>2, MessageFacts
  <1> HIDE DEF m
  <1>4. d \in Seq(Seq(Byte)) BY <1>1, <1>2, <1>3, AppendProperties
  <1>5. t \in [Outcomes -> Nat] BY <1>1, <1>2, <1>3
  <1>6. at \in Nat \ {0} BY <1>1, <1>3
  <1> QED BY <1>4, <1>5, <1>6 DEF Marks

(* One more frame reaches one more mark. *)
LEMMA ReachStep ==
    ASSUME NEW b \in Seq(Byte), NEW x, NEW y \in Marks, Reaches(b, x), Follows(b, x, y)
    PROVE  Reaches(b, y)
  <1>1. PICK k \in Nat : \E w \in [0 .. k -> Marks] : Trace(b, w, k) /\ w[k] = x
    BY DEF Reaches
  <1>2. PICK w \in [0 .. k -> Marks] : Trace(b, w, k) /\ w[k] = x BY <1>1
  <1> DEFINE v == [j \in 0 .. k + 1 |-> IF j = k + 1 THEN y ELSE w[j]]
  <1>3. v \in [0 .. k + 1 -> Marks] /\ v[k + 1] = y /\ \A j \in 0 .. k : v[j] = w[j]
    OBVIOUS
  <1> HIDE DEF v
  <1>4. Trace(b, v, k + 1)
    <2>1. v[0] = Start BY <1>2, <1>3 DEF Trace
    <2>2. ASSUME NEW j \in 0 .. (k + 1) - 1 PROVE Follows(b, v[j], v[j + 1])
      <3>1. CASE j = k BY <1>2, <1>3, <3>1
      <3>2. CASE j # k
        <4>1. j \in 0 .. k - 1 /\ j \in 0 .. k /\ j + 1 \in 0 .. k BY <3>2
        <4>2. Follows(b, w[j], w[j + 1]) BY <1>2, <4>1 DEF Trace
        <4> QED BY <1>3, <4>1, <4>2
      <3> QED BY <3>1, <3>2
    <2> QED BY <2>1, <2>2 DEF Trace
  <1>5. k + 1 \in Nat OBVIOUS
  <1> QED BY <1>3, <1>4, <1>5 DEF Reaches

(* Along a trace, what is behind a mark and what is ahead of it add up to  *)
(* the whole.                                                              *)
Adds(g, x) == /\ g[1].delivered = x.delivered \o g[x.at].delivered
              /\ \A o \in Outcomes : g[1].stats[o] = x.stats[o] + g[x.at].stats[o]
Solves(g, b) == \A p \in 1 .. Len(b) + 1 : g[p] \in Reads /\ g[p] = FrameStep(b, g, p)
(* From a mark to the next, a message moves from ahead to behind. *)
LEMMA FollowsAdds ==
    ASSUME NEW b \in Seq(Byte), NEW g, Solves(g, b), NEW x \in Marks, NEW y \in Marks,
           Follows(b, x, y), Adds(g, x)
    PROVE  Adds(g, y)
  <1> DEFINE m == MessageAt(b, x.at)
             r == g[y.at]
  <1>1. /\ Framed(b, x.at) /\ y.at = After(b, x.at)
        /\ y.delivered = IF Parse(m) = "decoded" THEN Append(x.delivered, m) ELSE x.delivered
        /\ y.stats = [x.stats EXCEPT ![Parse(m)] = @ + 1]
    BY DEF Follows
  <1>2. /\ m \in Seq(Byte) /\ Parse(m) \in Outcomes
        /\ y.at \in Nat /\ y.at > x.at /\ y.at <= Len(b) + 1
    BY <1>1, MessageFacts
  <1>3. x.at \in 1 .. Len(b) /\ y.at \in 1 .. Len(b) + 1
    <2>1. x.at \in 1 .. Len(b) - 1 BY <1>1 DEF Framed
    <2> QED BY <1>2, <2>1
  <1>4. r \in Reads /\ g[x.at] = Counted(m, r)
    <2>1. r \in Reads /\ g[x.at] = FrameStep(b, g, x.at) BY <1>3 DEF Solves
    <2>2. ~(x.at > Len(b)) BY <1>3
    <2> QED BY <1>1, <2>1, <2>2 DEF FrameStep
  <1>5. /\ r.delivered \in Seq(Seq(Byte)) /\ r.stats \in [Outcomes -> Nat]
        /\ x.delivered \in Seq(Seq(Byte)) /\ x.stats \in [Outcomes -> Nat]
    BY <1>4 DEF Reads, Marks
  <1>6. /\ g[x.at].delivered = IF Parse(m) = "decoded" THEN <<m>> \o r.delivered
                               ELSE r.delivered
        /\ g[x.at].stats = [r.stats EXCEPT ![Parse(m)] = @ + 1]
    BY <1>4 DEF Counted
  <1> HIDE DEF m, r
  <1>7. g[1].delivered = y.delivered \o r.delivered
    <2>1. CASE Parse(m) = "decoded"
      <3>1. <<m>> \in Seq(Seq(Byte)) BY <1>2
      <3>2. x.delivered \o (<<m>> \o r.delivered) = (x.delivered \o <<m>>) \o r.delivered
        <4> DEFINE S == Seq(Byte)
                   s1 == x.delivered
                   s2 == <<m>>
                   s3 == r.delivered
        <4>1. s1 \in Seq(S) /\ s2 \in Seq(S) /\ s3 \in Seq(S) BY <1>5, <3>1
        <4> HIDE DEF S, s1, s2, s3
        <4>2. s1 \o (s2 \o s3) = (s1 \o s2) \o s3 BY <4>1, ConcatAssociative
        <4> QED BY <4>2 DEF s1, s2, s3
      <3>3. Append(x.delivered, m) = x.delivered \o <<m>> BY <1>2, <1>5, AppendIsConcat
      <3> QED BY <1>1, <1>6, <2>1, <3>2, <3>3 DEF Adds
    <2>2. CASE Parse(m) # "decoded" BY <1>1, <1>6, <2>2 DEF Adds
    <2> QED BY <2>1, <2>2
  <1>8. ASSUME NEW o \in Outcomes PROVE g[1].stats[o] = y.stats[o] + r.stats[o]
    <2>1. g[1].stats[o] = x.stats[o] + g[x.at].stats[o] BY DEF Adds
    <2>2. x.stats[o] \in Nat /\ r.stats[o] \in Nat BY <1>5
    <2>3. CASE o = Parse(m)
      <3>1. g[x.at].stats[o] = r.stats[o] + 1 /\ y.stats[o] = x.stats[o] + 1
        BY <1>1, <1>5, <1>6, <2>3
      <3> QED BY <2>1, <2>2, <3>1
    <2>4. CASE o # Parse(m)
      <3>1. g[x.at].stats[o] = r.stats[o] /\ y.stats[o] = x.stats[o]
        BY <1>1, <1>5, <1>6, <2>4
      <3> QED BY <2>1, <2>2, <3>1
    <2> QED BY <2>3, <2>4
  <1> QED BY <1>7, <1>8 DEF Adds, r

(* So it holds of each mark, by a first one of which it did not. *)
LEMMA ReachAdds ==
    ASSUME NEW b \in Seq(Byte), NEW g, Solves(g, b), NEW x, Reaches(b, x)
    PROVE  x \in Marks /\ Adds(g, x)
  <1>1. PICK k \in Nat : \E w \in [0 .. k -> Marks] : Trace(b, w, k) /\ w[k] = x
    BY DEF Reaches
  <1>2. PICK w \in [0 .. k -> Marks] : Trace(b, w, k) /\ w[k] = x BY <1>1
  <1>3. Adds(g, w[0])
    <2>1. g[1] \in Reads BY DEF Solves
    <2>2. g[1].delivered \in Seq(Seq(Byte)) /\ g[1].stats \in [Outcomes -> Nat]
      BY <2>1 DEF Reads
    <2>3. <<>> \o g[1].delivered = g[1].delivered BY <2>2, ConcatEmptySeq
    <2>4. w[0].at = 1 /\ w[0].delivered = <<>> /\ \A o \in Outcomes : w[0].stats[o] = 0
      BY <1>2 DEF Trace, Start
    <2> QED BY <2>2, <2>3, <2>4 DEF Adds
  <1> DEFINE Bad == {j \in 0 .. k : ~Adds(g, w[j])}
  <1>4. ASSUME NEW i \in Bad PROVE FALSE
    <2>1. Bad \in SUBSET Nat OBVIOUS
    <2>2. PICK j \in Bad : \A h \in Bad : j <= h
      <3> HIDE DEF Bad
      <3> QED BY <1>4, <2>1, LeastNat
    <2>3. j \in 0 .. k /\ ~Adds(g, w[j]) /\ j # 0 BY <1>3, <2>2
    <2>4. j - 1 \in 0 .. k - 1 /\ j - 1 \in 0 .. k /\ (j - 1) + 1 = j /\ ~(j <= j - 1) BY <2>3
    <2>5. Adds(g, w[j - 1]) BY <2>2, <2>4
    <2>6. Follows(b, w[j - 1], w[j]) BY <1>2, <2>4 DEF Trace
    <2>7. w[j - 1] \in Marks /\ w[j] \in Marks BY <2>3, <2>4
    <2> QED BY <2>3, <2>5, <2>6, <2>7, FollowsAdds
  <1>5. Adds(g, w[k]) BY <1>4
  <1> QED BY <1>2, <1>5

(* What a reading of the whole of b finds, told from any mark behind which *)
(* there is no further frame.                                              *)
LEMMA ReachReads ==
    ASSUME NEW b \in Seq(Byte), NEW x, Reaches(b, x), x.at <= Len(b) + 1, ~Framed(b, x.at)
    PROVE  /\ Frames(b).delivered = x.delivered
           /\ Frames(b).stats =
                 IF x.at = Len(b) + 1 THEN x.stats ELSE [x.stats EXCEPT !["malformed"] = @ + 1]
  <1>1. PICK g : Frames(b) = g[1] /\ Solves(g, b) BY FramesSolve DEF Solves
  <1>2. x \in Marks /\ Adds(g, x) BY <1>1, ReachAdds
  <1>3. /\ x.at \in 1 .. Len(b) + 1 /\ x.delivered \in Seq(Seq(Byte))
        /\ x.stats \in [Outcomes -> Nat]
    BY <1>2 DEF Marks
  <1>4. g[x.at] = IF x.at = Len(b) + 1 THEN Clean ELSE Broken
    <2>1. g[x.at] = FrameStep(b, g, x.at) BY <1>1, <1>3 DEF Solves
    <2>2. x.at > Len(b) <=> x.at = Len(b) + 1 BY <1>3
    <2> QED BY <2>1, <2>2 DEF FrameStep
  <1>5. g[1].delivered = x.delivered
    <2>1. g[x.at].delivered = <<>> BY <1>4 DEF Clean, Broken
    <2>2. x.delivered \o <<>> = x.delivered BY <1>3, ConcatEmptySeq
    <2> QED BY <1>2, <2>1, <2>2 DEF Adds
  <1>6. g[1].stats \in [Outcomes -> Nat] BY <1>1 DEF Solves, Reads
  <1>7. ASSUME NEW o \in Outcomes
        PROVE  g[1].stats[o] = IF x.at = Len(b) + 1 \/ o # "malformed" THEN x.stats[o]
                               ELSE x.stats[o] + 1
    <2>1. g[1].stats[o] = x.stats[o] + g[x.at].stats[o] BY <1>2 DEF Adds
    <2>2. g[x.at].stats[o] = IF x.at = Len(b) + 1 \/ o # "malformed" THEN 0 ELSE 1
      BY <1>4 DEF Clean, Broken
    <2>3. x.stats[o] \in Nat BY <1>3
    <2> QED BY <2>1, <2>2, <2>3
  <1> DEFINE t == IF x.at = Len(b) + 1 THEN x.stats
                  ELSE [x.stats EXCEPT !["malformed"] = @ + 1]
  <1>8. g[1].stats = t
    <2>1. t \in [Outcomes -> Nat]
      <3>1. "malformed" \in Outcomes BY DEF Outcomes
      <3>2. [x.stats EXCEPT !["malformed"] = @ + 1] \in [Outcomes -> Nat] BY <1>3, <3>1
      <3> QED BY <1>3, <3>2
    <2>2. ASSUME NEW o \in Outcomes
          PROVE  t[o] = IF x.at = Len(b) + 1 \/ o # "malformed" THEN x.stats[o]
                        ELSE x.stats[o] + 1
      BY <1>3
    <2> DEFINE u == g[1].stats
    <2>3. u \in [Outcomes -> Nat] BY <1>6
    <2>4. \A o \in Outcomes : u[o] = t[o] BY <1>7, <2>2
    <2> HIDE DEF t, u
    <2>5. u = t BY <2>1, <2>3, <2>4
    <2> QED BY <2>5 DEF u
  <1> QED BY <1>1, <1>5, <1>8
-----------------------------------------------------------------------------
(* The decoder holds the bytes behind the last mark, ... *)
Pending(x) ==
    /\ x.stats = stats
    /\ x.at = Len(passed) + 1 - (length_bytes + used)
    /\ length_bytes >= 1 => passed[x.at] = length_buf[1]
    /\ length_bytes = 2 => passed[x.at + 1] = length_buf[2]
    /\ \A i \in 1 .. used : passed[x.at + 1 + i] = message_buf[i]
    /\ phase = "returned" => length_bytes = 0

(* ... or it has met bytes behind it that make no frame, and counted them. *)
Stopped(x) ==
    /\ phase \in {"left", "returned", "threw"} /\ length_bytes = 0
    /\ stats = [x.stats EXCEPT !["malformed"] = @ + 1]
    /\ x.at <= Len(passed) /\ ~Framed(passed, x.at)

Marked(x) == Reaches(passed, x) /\ x.delivered = delivered /\ (Pending(x) \/ Stopped(x))
FrameInv == DecoderInv /\ passed \in Seq(Byte) /\ \E x \in Marks : Marked(x)

(* The bytes that the decoder holds are less than a frame. *)
LEMMA PendingEnds ==
    ASSUME DecoderInv, passed \in Seq(Byte), NEW x \in Marks, Pending(x)
    PROVE  /\ x.at <= Len(passed) + 1 /\ ~Framed(passed, x.at)
           /\ x.at = Len(passed) + 1 <=> length_bytes = 0
  <1>0. Len(passed) \in Nat /\ x.at \in Nat /\ x.at = Len(passed) + 1 - (length_bytes + used)
    BY DEF Marks, Pending
  <1>1. length_bytes \in 0 .. 2 /\ used \in Nat /\ (length_bytes # 2 => used = 0)
    BY DecoderAssumption DEF DecoderInv
  <1>2. CASE length_bytes = 0 BY <1>0, <1>1, <1>2 DEF Framed
  <1>3. CASE length_bytes = 1 BY <1>0, <1>1, <1>3 DEF Framed
  <1>4. CASE length_bytes = 2
    <2>1. LengthAt(passed, x.at) = expected /\ used < expected /\ expected \in Nat
      BY <1>4, DecoderAssumption DEF Pending, DecoderInv, LengthAt
    <2>2. x.at + 1 + expected > Len(passed) BY <1>0, <1>1, <1>4, <2>1
    <2>3. ~Framed(passed, x.at) BY <1>0, <2>1, <2>2 DEF Framed
    <2> QED BY <1>0, <1>1, <1>4, <2>3
  <1> QED BY <1>1, <1>2, <1>3, <1>4

(* copy() leads to the next mark, or carries the frame on. *)
LEMMA CopyMarks ==
    ASSUME DecoderInv, NEW from \in Seq(Byte), NEW length \in 1 .. MaxMessage,
           NEW bytes \in Seq(Byte), used < length, copy(from, length, bytes),
           NEW x \in Marks, Reaches(from, x), x.delivered = delivered, x.stats = stats,
           x.at = Len(from) + 1 - (2 + used), LengthAt(from, x.at) = length,
           from[x.at] = length_buf'[1], from[x.at + 1] = length_buf'[2],
           \A i \in 1 .. used : from[x.at + 1 + i] = message_buf[i],
           phase' = "consuming"
    PROVE  passed' \in Seq(Byte) /\ \E y \in Marks : Marked(y)'
  <1> DEFINE take == IF length - used < Len(bytes) THEN length - used ELSE Len(bytes)
             buf == copy_n(bytes, take)
             message == SubSeq(buf, 1, length)
             part == SubSeq(bytes, 1, take)
             c == from \o part
  <1>0. /\ MaxMessage \in Nat /\ length \in Nat /\ used \in Nat /\ used <= MaxMessage
        /\ Len(from) \in Nat /\ Len(bytes) \in Nat /\ x.at \in Nat \ {0}
        /\ message_buf \in [1 .. MaxMessage -> Byte] /\ x.at = Len(from) + 1 - (2 + used)
    BY DecoderAssumption DEF DecoderInv, Marks
  <1>1. take \in Nat /\ take <= Len(bytes) /\ used + take <= length BY <1>0
  <1>2. message_buf' = buf /\ passed' = c BY DEF copy
  <1>3. \/ /\ used + take = length /\ length_bytes' = 0 /\ used' = 0
           /\ stats' = [stats EXCEPT ![Parse(message)] = @ + 1]
           /\ delivered' = IF Parse(message) = "decoded" THEN Append(delivered, message)
                           ELSE delivered
        \/ /\ used + take # length /\ length_bytes' = 2 /\ used' = used + take
           /\ stats' = stats /\ delivered' = delivered
    BY DEF copy, whole, reset
  <1>4. /\ part \in Seq(Byte) /\ Len(part) = take /\ \A i \in 1 .. take : part[i] = bytes[i]
    <2> HIDE DEF take
    <2> QED BY <1>0, <1>1
  <1>5. /\ buf \in [1 .. MaxMessage -> Byte]
        /\ \A i \in 1 .. used : buf[i] = message_buf[i]
        /\ \A i \in used + 1 .. used + take : buf[i] = bytes[i - used]
    <2> HIDE DEF take
    <2>1. \A i \in used + 1 .. used + take : i - used \in 1 .. Len(bytes) BY <1>0, <1>1
    <2> QED BY <1>0, <1>1, <2>1 DEF copy_n
  <1> HIDE DEF take, part, buf
  <1>6. /\ c \in Seq(Byte) /\ Len(c) = Len(from) + take
        /\ \A i \in 1 .. Len(from) : c[i] = from[i]
        /\ \A i \in 1 .. take : c[Len(from) + i] = bytes[i]
    <2>1. /\ c \in Seq(Byte) /\ Len(c) = Len(from) + take
          /\ \A i \in 1 .. Len(c) : c[i] = IF i <= Len(from) THEN from[i]
                                           ELSE part[i - Len(from)]
      <3>1. part \in Seq(Byte) /\ Len(part) = take BY <1>4
      <3>2. from \in Seq(Byte) OBVIOUS
      <3>3. /\ from \o part \in Seq(Byte) /\ Len(from \o part) = Len(from) + Len(part)
            /\ \A i \in 1 .. Len(from) + Len(part) :
                  (from \o part)[i] = IF i <= Len(from) THEN from[i]
                                      ELSE part[i - Len(from)]
        BY ONLY <3>1, <3>2, ConcatProperties
      <3> QED BY <3>1, <3>3, Zenon
    <2> HIDE DEF c
    <2>2. ASSUME NEW i \in 1 .. Len(from) PROVE c[i] = from[i]
      <3>1. i \in 1 .. Len(c) /\ i <= Len(from) BY <1>0, <1>1, <2>1
      <3> QED BY ONLY <2>1, <3>1
    <2>3. ASSUME NEW i \in 1 .. take PROVE c[Len(from) + i] = bytes[i]
      <3>1. Len(from) + i \in 1 .. Len(c) /\ ~(Len(from) + i <= Len(from))
            /\ (Len(from) + i) - Len(from) = i
        BY <1>0, <1>1, <2>1
      <3> QED BY <1>4, <2>1, <3>1
    <2> QED BY <2>1, <2>2, <2>3
  <1> HIDE DEF c
  <1>7. ASSUME NEW i \in 1 .. used + take PROVE c[x.at + 1 + i] = buf[i]
    <2>1. CASE i <= used
      <3>1. i \in 1 .. used /\ x.at + 1 + i \in 1 .. Len(from) BY <1>0, <1>1, <2>1
      <3> QED BY <1>5, <1>6, <3>1
    <2>2. CASE ~(i <= used)
      <3>1. /\ i \in used + 1 .. used + take /\ i - used \in 1 .. take
            /\ x.at + 1 + i = Len(from) + (i - used)
        BY <1>0, <1>1, <2>2
      <3> QED BY <1>5, <1>6, <3>1
    <2> QED BY <2>1, <2>2
  <1>8. Begins(from, c) /\ Reaches(c, x)
    <2>1. Begins(from, c) BY <1>0, <1>1, <1>6 DEF Begins
    <2> QED BY <1>6, <2>1, ReachExtends
  <1>9. /\ x.at \in 1 .. Len(from) - 1 /\ c[x.at] = length_buf'[1]
        /\ c[x.at + 1] = length_buf'[2] /\ LengthAt(c, x.at) = length
    <2>1. x.at \in 1 .. Len(from) - 1 BY <1>0
    <2>2. c[x.at] = from[x.at] /\ c[x.at + 1] = from[x.at + 1] BY <1>0, <1>6, <2>1
    <2> QED BY <2>1, <2>2 DEF LengthAt
  <1>10. CASE used + take # length
    <2>1. /\ length_bytes' = 2 /\ used' = used + take /\ stats' = stats
          /\ delivered' = delivered
      BY <1>3, <1>10
    <2>2. x.at = Len(c) + 1 - (2 + (used + take)) BY <1>0, <1>1, <1>6
    <2>3. Pending(x)'
      BY <1>2, <1>7, <1>9, <2>1, <2>2 DEF Pending
    <2>4. Reaches(passed, x)' BY <1>2, <1>8
    <2>5. Marked(x)' BY <2>1, <2>3, <2>4 DEF Marked
    <2> QED BY <1>2, <1>6, <2>5
  <1>11. CASE used + take = length
    <2>1. /\ length_bytes' = 0 /\ used' = 0
          /\ stats' = [stats EXCEPT ![Parse(message)] = @ + 1]
          /\ delivered' = IF Parse(message) = "decoded" THEN Append(delivered, message)
                          ELSE delivered
      BY <1>0, <1>3, <1>11
    <2>2. x.at + 1 + length = Len(c)
      <3>1. Len(c) = Len(from) + take BY <1>6
      <3>2. /\ x.at = Len(from) + 1 - (2 + used) /\ Len(from) \in Nat /\ used \in Nat
            /\ take \in Nat
        BY <1>0, <1>1
      <3> QED BY ONLY <1>11, <3>1, <3>2
    <2>3. Framed(c, x.at)
      <3>1. /\ x.at \in 1 .. Len(c) - 1 /\ length \in 1 .. MaxMessage
            /\ x.at + 1 + length <= Len(c)
        <4>1. Len(c) = Len(from) + take BY <1>6
        <4>2. x.at \in 1 .. Len(from) - 1 BY <1>9
        <4> QED BY ONLY <1>0, <1>1, <2>2, <4>1, <4>2
      <3>2. LengthAt(c, x.at) = length BY <1>9
      <3> QED BY ONLY <3>1, <3>2 DEF Framed
    <2>4. MessageAt(c, x.at) = message
      <3> DEFINE u == MessageAt(c, x.at)
      <3>1. u \in [1 .. length -> Byte] /\ \A i \in 1 .. length : u[i] = c[x.at + 1 + i]
        <4>1. /\ u \in [1 .. LengthAt(c, x.at) -> Byte]
              /\ \A i \in 1 .. LengthAt(c, x.at) : u[i] = c[x.at + 1 + i]
          <5>1. c \in Seq(Byte) BY <1>6
          <5> QED BY ONLY <5>1, <2>3, MessageFacts
        <4>2. LengthAt(c, x.at) = length BY <1>9
        <4> HIDE DEF u
        <4> QED BY ONLY <4>1, <4>2, Zenon
      <3>2. message \in [1 .. length -> Byte] /\ \A i \in 1 .. length : message[i] = buf[i]
        <4>1. \A i \in 1 .. length : buf[i] \in Byte BY <1>0, <1>5
        <4>2. /\ message \in Seq(Byte)
              /\ Len(message) = IF 1 <= length THEN length - 1 + 1 ELSE 0
              /\ \A i \in 1 .. length - 1 + 1 : message[i] = buf[1 + i - 1]
          BY <1>0, <4>1, SubSeqProperties
        <4> HIDE DEF message
        <4>3. Len(message) = length /\ length - 1 + 1 = length BY <1>0, <4>2
        <4>4. \A i \in 1 .. length : 1 + i - 1 = i BY <1>0
        <4> QED BY <4>2, <4>3, <4>4
      <3> HIDE DEF u, message
      <3>3. \A i \in 1 .. length : u[i] = message[i] BY <1>7, <1>11, <3>1, <3>2
      <3>4. u = [i \in 1 .. length |-> u[i]] /\ message = [i \in 1 .. length |-> message[i]]
        BY ONLY <3>1, <3>2, Zenon
      <3>5. [i \in 1 .. length |-> u[i]] = [i \in 1 .. length |-> message[i]]
        BY ONLY <3>3, Zenon
      <3> QED BY <3>4, <3>5, Zenon DEF u
    <2> HIDE DEF message
    <2>5. PICK y : y = [at |-> Len(c) + 1, delivered |-> delivered', stats |-> stats']
      OBVIOUS
    <2>6. y.at = Len(c) + 1 /\ y.delivered = delivered' /\ y.stats = stats' BY <2>5
    <2>7. Follows(c, x, y)
      <3>1. After(c, x.at) = Len(c) + 1 BY <1>0, <1>6, <1>9, <2>2 DEF After
      <3> QED BY <2>1, <2>3, <2>4, <2>6, <3>1 DEF Follows
    <2>8. y \in Marks BY <1>6, <2>5, <2>7, MarkFollows
    <2>9. Reaches(c, y) BY <1>6, <1>8, <2>7, <2>8, ReachStep
    <2>10. Pending(y)'
      <3>1. Len(c) + 1 = Len(c) + 1 - (0 + 0) BY <1>6
      <3> QED BY <1>2, <2>1, <2>6, <3>1 DEF Pending
    <2>11. Reaches(passed, y)' BY <1>2, <2>9
    <2>12. Marked(y)' BY <2>6, <2>10, <2>11 DEF Marked
    <2> QED BY <1>2, <1>6, <2>8, <2>12
  <1> QED BY <1>10, <1>11

(* While the loop of run_file() goes on, nothing has been cut short. *)
LEMMA StillPending ==
    ASSUME FrameInv, phase \in {"reading", "consuming"}
    PROVE  \E x \in Marks : Reaches(passed, x) /\ x.delivered = delivered /\ Pending(x)
  BY DEF FrameInv, Marked, Stopped

(* No byte read, no frame begun. *)
LEMMA FrameStart == Init => FrameInv
  <1> SUFFICES ASSUME Init PROVE FrameInv OBVIOUS
  <1>1. DecoderInv BY DecoderInitially
  <1>2. /\ passed = <<>> /\ length_bytes = 0 /\ used = 0 /\ phase = "reading"
        /\ stats = [o \in Outcomes |-> 0] /\ delivered = <<>>
    BY DEF Init
  <1>3. passed \in Seq(Byte) /\ Len(passed) = 0 BY <1>2
  <1>4. Start.at = 1 /\ Start.delivered = delivered /\ Start.stats = stats BY <1>2 DEF Start
  <1>5. Pending(Start) BY <1>2, <1>3, <1>4 DEF Pending
  <1>6. Marked(Start) BY <1>2, <1>4, <1>5, ReachStart DEF Marked
  <1> QED BY <1>1, <1>3, <1>6, StartIsMark DEF FrameInv

(* The two turns that take a byte of a length. *)
LEMMA LengthMarks ==
    ASSUME FrameInv, DecoderInv', consume_first \/ consume_second
    PROVE  FrameInv'
  <1> DEFINE h == Head(input)
             c == Append(passed, h)
  <1>0. /\ DecoderInv /\ passed \in Seq(Byte) /\ phase = "consuming" /\ input \in Seq(Byte)
        /\ input # <<>> /\ length_bytes \in {0, 1} /\ used = 0
    BY DEF FrameInv, consume_first, consume_second, Turn, DecoderInv
  <1>1. PICK x \in Marks : Reaches(passed, x) /\ x.delivered = delivered /\ Pending(x)
    BY <1>0, StillPending
  <1>2. h \in Byte /\ Tail(input) \in Seq(Byte) /\ Len(passed) \in Nat BY <1>0
  <1> HIDE DEF h
  <1>3. /\ c \in Seq(Byte) /\ Len(c) = Len(passed) + 1 /\ c[Len(passed) + 1] = h
        /\ \A i \in 1 .. Len(passed) : c[i] = passed[i]
    BY <1>0, <1>2, AppendProperties
  <1> HIDE DEF c
  <1>4. Reaches(c, x)
    <2>1. Begins(passed, c) BY <1>2, <1>3 DEF Begins
    <2> QED BY <1>0, <1>1, <1>3, <2>1, ReachExtends
  <1>5. x.at = Len(passed) + 1 - length_bytes /\ x.stats = stats /\ x.at \in Nat \ {0}
    BY <1>0, <1>1, <1>2 DEF Pending, Marks
  <1>6. CASE consume_first
    <2>1. /\ length_bytes = 0 /\ length_bytes' = 1 /\ used' = used /\ stats' = stats
          /\ delivered' = delivered /\ phase' = phase /\ passed' = c
          /\ length_buf' = [length_buf EXCEPT ![1] = h]
      BY <1>6 DEF consume_first, h, c
    <2>2. length_buf'[1] = h BY <1>0, <2>1 DEF DecoderInv
    <2>3. x.at = Len(c) + 1 - (1 + 0) /\ c[x.at] = h BY <1>2, <1>3, <1>5, <2>1
    <2>4. Pending(x)' BY <1>0, <1>5, <2>1, <2>2, <2>3 DEF Pending
    <2>5. Reaches(passed, x)' BY <1>4, <2>1
    <2>6. Marked(x)' BY <1>1, <2>1, <2>4, <2>5 DEF Marked
    <2> QED BY <1>3, <2>1, <2>6 DEF FrameInv
  <1>7. CASE consume_second
    <2> DEFINE length == big_endian(length_buf[1], h)
    <2>0. length_bytes = 1 /\ length_buf' = [length_buf EXCEPT ![2] = h]
      BY <1>7 DEF consume_second, h
    <2>1. length_buf'[1] = length_buf[1] /\ length_buf'[2] = h
      BY <1>0, <2>0 DEF DecoderInv
    <2>2. x.at = Len(passed) /\ c[x.at] = length_buf[1] /\ c[x.at + 1] = h
      <3>1. x.at = Len(passed) /\ x.at \in 1 .. Len(passed) BY <1>2, <1>5, <2>0
      <3>2. passed[x.at] = length_buf[1] BY <1>1, <2>0 DEF Pending
      <3> QED BY <1>3, <3>1, <3>2
    <2>3. LengthAt(c, x.at) = length /\ length \in Nat
      <3>1. length_buf[1] \in Byte BY <1>0 DEF DecoderInv
      <3>2. length_buf[1] \in Nat /\ h \in Nat /\ Base \in Nat
        BY <1>2, <3>1, DecoderAssumption DEF Byte
      <3> QED BY <2>2, <3>2 DEF LengthAt, big_endian
    <2>4. CASE good_length(length)
      <3>1. copy(c, length, Tail(input)) /\ phase' = "consuming"
        BY <1>0, <1>7, <2>4 DEF consume_second, h, c
      <3> HIDE DEF length
      <3>2. length \in 1 .. MaxMessage /\ used < length
        BY <1>0, <2>3, <2>4, DecoderAssumption DEF good_length
      <3>3. x.at = Len(c) + 1 - (2 + used) BY <1>0, <1>2, <1>3, <2>2
      <3>4. \A i \in 1 .. used : c[x.at + 1 + i] = message_buf[i] BY <1>0
      <3>5. passed' \in Seq(Byte) /\ \E y \in Marks : Marked(y)'
        BY <1>0, <1>1, <1>2, <1>3, <1>4, <1>5, <2>1, <2>2, <2>3, <3>1, <3>2, <3>3, <3>4,
           CopyMarks
      <3> QED BY <3>5 DEF FrameInv
    <2>5. CASE ~good_length(length)
      <3>1. /\ stats' = [stats EXCEPT !["malformed"] = @ + 1] /\ length_bytes' = 0
            /\ phase' = "left" /\ passed' = c /\ delivered' = delivered
        BY <1>7, <2>5 DEF consume_second, reset, h, c
      <3> HIDE DEF length
      <3>2. ~Framed(c, x.at)
        BY <2>3, <2>5, DecoderAssumption DEF Framed, good_length
      <3>3. x.at <= Len(c) BY <1>2, <1>3, <2>2
      <3>4. Stopped(x)' BY <1>5, <3>1, <3>2, <3>3 DEF Stopped
      <3>5. Reaches(passed, x)' BY <1>4, <3>1
      <3>6. Marked(x)' BY <1>1, <3>1, <3>4, <3>5 DEF Marked
      <3> QED BY <1>3, <3>1, <3>6 DEF FrameInv
    <2> QED BY <2>4, <2>5
  <1> QED BY <1>6, <1>7

(* A message that goes on. *)
LEMMA MessageMarks ==
    ASSUME FrameInv, DecoderInv', consume_message
    PROVE  FrameInv'
  <1>0. /\ DecoderInv /\ passed \in Seq(Byte) /\ phase = "consuming" /\ input \in Seq(Byte)
        /\ length_bytes = 2 /\ copy(passed, expected, input) /\ phase' = "consuming"
        /\ length_buf' = length_buf
    BY DEF FrameInv, consume_message, Turn, DecoderInv
  <1>1. PICK x \in Marks : Reaches(passed, x) /\ x.delivered = delivered /\ Pending(x)
    BY <1>0, StillPending
  <1>2. /\ x.stats = stats /\ x.at = Len(passed) + 1 - (2 + used)
        /\ passed[x.at] = length_buf[1] /\ passed[x.at + 1] = length_buf[2]
        /\ \A i \in 1 .. used : passed[x.at + 1 + i] = message_buf[i]
    BY <1>0, <1>1 DEF Pending
  <1>3. /\ expected = Base * length_buf[1] + length_buf[2] /\ used < expected
        /\ expected \in 1 .. MaxMessage
    BY <1>0, DecoderAssumption DEF DecoderInv
  <1>4. LengthAt(passed, x.at) = expected BY <1>2, <1>3 DEF LengthAt
  <1>5. passed' \in Seq(Byte) /\ \E y \in Marks : Marked(y)'
    BY <1>0, <1>1, <1>2, <1>3, <1>4, CopyMarks
  <1> QED BY <1>5 DEF FrameInv

(* Reading and returning leave the frames alone; finish() counts what is   *)
(* left over.                                                              *)
LEMMA LoopMarks ==
    ASSUME FrameInv, DecoderInv',
           (\E chunk \in Chunks : read(chunk)) \/ consume_returns \/ leave
    PROVE  FrameInv'
  <1>0. DecoderInv /\ passed \in Seq(Byte) /\ passed' = passed /\ delivered' = delivered
    BY DEF FrameInv, read, consume_returns, leave
  <1>1. CASE (\E chunk \in Chunks : read(chunk)) \/ consume_returns
    <2>1. /\ phase \in {"reading", "consuming"} /\ phase' \in {"left", "consuming", "reading"}
          /\ length_bytes' = length_bytes /\ length_buf' = length_buf
          /\ message_buf' = message_buf /\ used' = used /\ stats' = stats
      BY <1>1 DEF read, consume_returns, decoder
    <2>2. PICK x \in Marks : Reaches(passed, x) /\ x.delivered = delivered /\ Pending(x)
      BY <2>1, StillPending
    <2>3. Pending(x)' BY <1>0, <2>1, <2>2 DEF Pending
    <2>4. Reaches(passed, x)' BY <1>0, <2>2
    <2>5. Marked(x)' BY <1>0, <2>2, <2>3, <2>4 DEF Marked
    <2> QED BY <1>0, <2>5 DEF FrameInv
  <1>2. CASE leave
    <2>1. PICK x \in Marks : Marked(x) BY DEF FrameInv
    <2>2. Reaches(passed, x)' /\ x.delivered = delivered' BY <1>0, <2>1 DEF Marked
    <2>3. phase' \in {"threw", "returned"} BY <1>2 DEF leave
    <2>4. length_bytes = 0 => used = 0 BY <1>0 DEF DecoderInv
    <2>5. CASE length_bytes = 0 \/ file = "bad"
      <3>1. /\ length_bytes' = length_bytes /\ length_buf' = length_buf /\ stats' = stats
            /\ message_buf' = message_buf /\ used' = used
            /\ phase' = "returned" => length_bytes = 0
        BY <1>2, <2>4, <2>5 DEF leave, decoder
      <3>2. Pending(x) => Pending(x)' BY <1>0, <3>1 DEF Pending
      <3>3. Stopped(x) => Stopped(x)'
        <4> SUFFICES ASSUME Stopped(x) PROVE Stopped(x)' OBVIOUS
        <4>1. ~Framed(passed', x.at) BY <1>0 DEF Stopped
        <4> QED BY <1>0, <2>3, <3>1, <4>1 DEF Stopped
      <3>4. Marked(x)' BY <2>1, <2>2, <3>2, <3>3 DEF Marked
      <3> QED BY <1>0, <3>4 DEF FrameInv
    <2>6. CASE length_bytes # 0 /\ file # "bad"
      <3>1. stats' = [stats EXCEPT !["malformed"] = @ + 1] /\ length_bytes' = 0
        BY <1>2, <2>6 DEF leave, reset
      <3>2. Pending(x) BY <2>1, <2>6 DEF Marked, Stopped
      <3>3. x.at <= Len(passed) /\ ~Framed(passed, x.at)
        <4>1. x.at <= Len(passed) + 1 /\ ~Framed(passed, x.at) /\ x.at # Len(passed) + 1
          BY <1>0, <2>6, <3>2, PendingEnds
        <4>2. x.at \in Nat /\ Len(passed) \in Nat BY <1>0 DEF Marks
        <4> QED BY <4>1, <4>2
      <3>4. x.at <= Len(passed') /\ ~Framed(passed', x.at) BY <1>0, <3>3
      <3>5. x.stats = stats BY <3>2 DEF Pending
      <3>6. Stopped(x)' BY <2>3, <3>1, <3>4, <3>5 DEF Stopped
      <3>7. Marked(x)' BY <2>2, <3>6 DEF Marked
      <3> QED BY <1>0, <3>7 DEF FrameInv
    <2> QED BY <2>5, <2>6
  <1> QED BY <1>1, <1>2

(* One step for each turn. *)
LEMMA FrameNext == FrameInv /\ [Next]_vars => FrameInv'
  <1> SUFFICES ASSUME FrameInv, [Next]_vars PROVE FrameInv' OBVIOUS
  <1>1. DecoderInv' BY DecoderStep DEF FrameInv
  <1>2. CASE UNCHANGED vars
    <2>1. /\ passed' = passed /\ delivered' = delivered /\ stats' = stats /\ phase' = phase
          /\ length_bytes' = length_bytes /\ length_buf' = length_buf
          /\ message_buf' = message_buf /\ used' = used
      BY <1>2 DEF vars, decoder
    <2>2. PICK x \in Marks : Marked(x) BY DEF FrameInv
    <2>3. Reaches(passed, x)' BY <2>1, <2>2 DEF Marked
    <2>4. ~Framed(passed, x.at) => ~Framed(passed', x.at) BY <2>1
    <2>5. Pending(x) => Pending(x)' BY <2>1 DEF Pending
    <2>6. Stopped(x) => Stopped(x)' BY <2>1, <2>4 DEF Stopped
    <2>7. Marked(x)' BY <2>1, <2>2, <2>3, <2>5, <2>6 DEF Marked
    <2> QED BY <1>1, <2>1, <2>7 DEF FrameInv
  <1>3. CASE Next
    BY <1>1, <1>3, LengthMarks, MessageMarks, LoopMarks DEF Next, consume
  <1> QED BY <1>2, <1>3

(* The invariant of the decoder against the bytes passed to it. *)
LEMMA FrameInvariance == Spec => []FrameInv
  BY FrameStart, FrameNext, PTL DEF Spec

(* run_file() throws after a read error, and only then. *)
ErrorThrows == /\ phase = "returned" => file # "bad"
               /\ phase = "threw" => file = "bad"
LEMMA ErrorsThrow == Spec => []ErrorThrows
  <1>1. Init => ErrorThrows BY DEF Init, ErrorThrows
  <1>2. ErrorThrows /\ [Next]_vars => ErrorThrows'
    <2> SUFFICES ASSUME ErrorThrows, [Next]_vars PROVE ErrorThrows' OBVIOUS
    <2>1. CASE \E chunk \in Chunks : read(chunk) BY <2>1 DEF read, ErrorThrows
    <2>2. CASE consume_first \/ consume_second \/ consume_message
      <3>1. phase = "consuming" /\ phase' \in {"consuming", "left"}
        BY <2>2 DEF consume_first, consume_second, consume_message, Turn
      <3> QED BY <3>1 DEF ErrorThrows
    <2>3. CASE consume_returns BY <2>3 DEF consume_returns, ErrorThrows
    <2>4. CASE leave BY <2>4 DEF leave, ErrorThrows
    <2>5. CASE UNCHANGED vars BY <2>5 DEF vars, ErrorThrows
    <2> QED BY <2>1, <2>2, <2>3, <2>4, <2>5 DEF Next, consume
  <1> QED BY <1>1, <1>2, PTL DEF Spec

(* What the invariant says of the whole file. *)
LEMMA FramesRead == FrameInv /\ ErrorThrows => CutsDoNotMatter /\ CountsExact
  <1> SUFFICES ASSUME FrameInv, ErrorThrows PROVE CutsDoNotMatter /\ CountsExact OBVIOUS
  <1>0. DecoderInv /\ passed \in Seq(Byte) /\ Len(passed) \in Nat BY DEF FrameInv
  <1>1. PICK x \in Marks : Marked(x) BY DEF FrameInv
  <1>2. /\ x.at \in Nat /\ Reaches(passed, x) /\ x.delivered = delivered
        /\ Pending(x) \/ Stopped(x)
    BY <1>1 DEF Marked, Marks
  <1>3. x.at <= Len(passed) + 1 /\ ~Framed(passed, x.at)
    <2>1. CASE Pending(x) BY <1>0, <2>1, PendingEnds
    <2>2. CASE Stopped(x) BY <1>0, <1>2, <2>2 DEF Stopped
    <2> QED BY <1>2, <2>1, <2>2
  <1>4. /\ Frames(passed).delivered = x.delivered
        /\ Frames(passed).stats = IF x.at = Len(passed) + 1 THEN x.stats
                                  ELSE [x.stats EXCEPT !["malformed"] = @ + 1]
    BY <1>0, <1>2, <1>3, ReachReads
  <1>5. CutsDoNotMatter BY <1>2, <1>4 DEF CutsDoNotMatter
  <1>6. ASSUME phase = "returned" PROVE stats = Frames(passed).stats
    <2>1. CASE Pending(x)
      <3>1. length_bytes = 0 /\ x.stats = stats BY <1>6, <2>1 DEF Pending
      <3>2. x.at = Len(passed) + 1 BY <1>0, <2>1, <3>1, PendingEnds
      <3> QED BY <1>4, <3>1, <3>2
    <2>2. CASE Stopped(x)
      <3>1. x.at # Len(passed) + 1 BY <1>0, <1>2, <2>2 DEF Stopped
      <3> QED BY <1>4, <2>2, <3>1 DEF Stopped
    <2> QED BY <1>2, <2>1, <2>2
  <1> QED BY <1>5, <1>6 DEF CountsExact, ErrorThrows

(* FramedDecoder gives the callback, after every turn of consume(), what a *)
(* reading of all the bytes at once would: for every file, however it is   *)
(* cut into buffers, and for every parse_message().                        *)
THEOREM CutsNeverMatter == Spec => []CutsDoNotMatter
  BY FrameInvariance, ErrorsThrow, FramesRead, PTL

(* When run_file() returns, its counters are those of the whole file, and  *)
(* finish() has counted an incomplete last frame exactly once; when a read *)
(* fails it throws.                                                        *)
THEOREM CountsAlwaysExact == Spec => []CountsExact
  BY FrameInvariance, ErrorsThrow, FramesRead, PTL
=============================================================================
