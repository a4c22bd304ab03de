----------------------------- MODULE PcapProofs -----------------------------
(***************************************************************************)
(* For files of any items, whatever lengths and fields are written in      *)
(* them: the reader stays within block_, and what it delivers is what was  *)
(* captured.  And for packets of every size, with every number of VLAN     *)
(* tags and every value of their length fields, what extract_udp_payload() *)
(* promises.                                                               *)
(***************************************************************************)
EXTENDS CaptureReader, PacketExtract, FiniteSetTheorems, SequenceTheorems, WellFoundedInduction,
        TLAPS

Interface == [link_type : LinkTypes, snap_length : SnapLengths]

(* Between two items: the reader reads in the byte order of the section it *)
(* is in and knows the interfaces of that section and of no other.         *)
ReaderInv ==
    /\ interfaces \in Seq(Interface)
    /\ filled <= maximum_block_size /\ used <= filled
    /\ status = "reading" =>
          /\ little = order
          /\ format = "pcapng" => declared = interfaces
          /\ format = "pcap" => declared # <<>> /\ declared[1].link_type = classic_link_type

Bounded == filled' <= maximum_block_size /\ used' <= filled'
Exact ==
    status' # "end" =>
        IF Sound(item')
        THEN status' = "reading" /\ packet' = Content(item') /\ taken' = Size(item')
        ELSE status' = "threw"
-----------------------------------------------------------------------------
(* What is written in an item. *)
LEMMA ItemFields ==
    ASSUME NEW type \in DOMAIN Bodies, NEW orders, NEW totals \in SUBSET Nat,
           NEW trailers, NEW i \in Items(type, orders, totals, trailers)
    PROVE  /\ i.type = type /\ i.order \in orders /\ i.total \in totals /\ i.total \in Nat
           /\ i.trailer \in trailers /\ i.left \in Nat /\ i.body \in Bodies[type]
  BY CaptureAssumption DEF Items

(* A field in the reader's own byte order. *)
LEMMA OwnOrder ==
    ASSUME NEW v, NEW w PROVE read32(v, w, w) = v /\ read16(v, w, w) = v
  BY DEF read32, read16

(* The least of three. *)
LEMMA LeastOfThree ==
    ASSUME NEW x \in Nat, NEW y \in Nat, NEW z \in Int
    PROVE  LET m == Min({x, y, z})
           IN  m \in {x, y, z} /\ m <= x /\ m <= y /\ m <= z
  <1> DEFINE S == {x, y, z}
  <1>1. \E m \in S : \A u \in S : m <= u
    <2>1. CASE x <= y /\ x <= z BY <2>1
    <2>2. CASE y <= x /\ y <= z BY <2>2
    <2>3. CASE z <= x /\ z <= y BY <2>3
    <2> QED BY <2>1, <2>2, <2>3
  <1>2. Min(S) \in S /\ \A u \in S : Min(S) <= u BY <1>1 DEF Min
  <1> QED BY <1>2

(* A length and its padding fit into a block of whole words together. *)
LEMMA Padded ==
    ASSUME NEW n \in Nat, NEW t \in Nat, t % 4 = 0
    PROVE  n <= padded(n) /\ padded(n) \in Nat /\ (padded(n) <= t <=> n <= t)
  BY DEF padded

(* The limits are numbers. *)
MaxIsWhole == maximum_block_size \in Nat /\ MaxPacket \in Nat

(* The limits are whole numbers, from the assumption on the constants. *)
LEMMA Maximum == MaxIsWhole
  BY CaptureAssumption DEF MaxIsWhole, maximum_block_size
-----------------------------------------------------------------------------
(* consume_section(). *)
LEMMA SectionStep ==
    ASSUME ReaderInv, NEW i \in Sections, consume_section(i), format' = "pcapng"
    PROVE  ReaderInv' /\ Bounded /\ Exact
  <1>1. /\ i.type = "section" /\ i.total \in Nat /\ i.trailer \in {0, 4} /\ i.left \in Nat
        /\ i.body.magic \in BOOLEAN /\ i.body.version \in {1, 2}
    <2>1. "section" \in DOMAIN Bodies /\ Totals \in SUBSET Nat BY CaptureAssumption DEF Bodies
    <2>2. /\ i.type = "section" /\ i.total \in Nat /\ i.trailer \in {0, 4} /\ i.left \in Nat
          /\ i.body \in Bodies["section"]
      BY <2>1, ItemFields DEF Sections
    <2>3. Bodies["section"] = [magic : BOOLEAN, version : {1, 2}] BY DEF Bodies
    <2> QED BY <2>2, <2>3
  <1> DEFINE total  == i.total
             stored == /\ i.left >= 12 /\ i.body.magic /\ total >= 28 /\ total % 4 = 0
                       /\ total - 12 <= maximum_block_size /\ i.left >= total
             good   == stored /\ i.body.version = 1 /\ total + i.trailer = total
  <1>2. /\ order' = i.order /\ declared' = <<>>
        /\ little' = IF i.left >= 12 /\ i.body.magic THEN i.order ELSE little
        /\ interfaces' = IF good THEN <<>> ELSE interfaces
        /\ \/ good /\ Read(i, 4 + 8 + (total - 12), total - 12, total - 12, NoPacket)
           \/ stored /\ ~good /\ Throw(i, total - 12, total - 12)
           \/ ~stored /\ Throw(i, 0, 0)
    BY OwnOrder DEF consume_section, validate_block_size, cleared
  <1>3. Sound(i) <=> good
    <2>1. Sound(i) <=> /\ total % 4 = 0 /\ i.trailer = 0 /\ i.left >= total
                       /\ total \in 28 .. maximum_block_size + 12
                       /\ i.body.magic /\ i.body.version = 1
      BY <1>1 DEF Sound, Whole
    <2>2. total + i.trailer = total <=> i.trailer = 0 BY <1>1
    <2>3. total \in 28 .. maximum_block_size + 12 <=>
             total >= 28 /\ total - 12 <= maximum_block_size
      BY <1>1, Maximum DEF MaxIsWhole
    <2>4. total >= 28 /\ i.left >= total => i.left >= 12 BY <1>1
    <2> QED BY <2>1, <2>2, <2>3, <2>4
  <1>4. Content(i) = NoPacket /\ Size(i) = total BY <1>1 DEF Content, Size
  <1>5. interfaces' \in Seq(Interface) BY <1>2 DEF ReaderInv
  <1> HIDE DEF stored, good
  <1>6. CASE good
    <2>1. /\ status' = "reading" /\ item' = i /\ taken' = total /\ filled' = total - 12
          /\ used' = total - 12 /\ packet' = NoPacket
      BY <1>1, <1>2, <1>6 DEF Read, good
    <2>2. filled' <= maximum_block_size /\ used' <= filled' BY <1>1, <1>6, <2>1 DEF good, stored
    <2>3. little' = order' /\ declared' = interfaces' BY <1>2, <1>6 DEF good, stored
    <2>4. ReaderInv' BY <1>5, <2>2, <2>3 DEF ReaderInv
    <2> QED BY <1>3, <1>4, <1>6, <2>1, <2>2, <2>4 DEF Bounded, Exact
  <1>7. CASE ~good
    <2>1. /\ status' = "threw" /\ item' = i
          /\ \/ stored /\ filled' = total - 12 /\ used' = total - 12
             \/ filled' = 0 /\ used' = 0
      BY <1>2, <1>7 DEF Throw
    <2>2. filled' <= maximum_block_size /\ used' <= filled'
      BY <1>1, <2>1, Maximum DEF stored, MaxIsWhole
    <2>3. ReaderInv' BY <1>5, <2>1, <2>2 DEF ReaderInv
    <2> QED BY <1>3, <1>7, <2>1, <2>2, <2>3 DEF Bounded, Exact
  <1> QED BY <1>6, <1>7

(* The constructor, for a PCAP file. *)
LEMMA HeaderStep ==
    ASSUME ReaderInv, NEW i \in Headers, OpenClassic(i)
    PROVE  ReaderInv' /\ Bounded /\ Exact
  <1>1. /\ i.type = "header" /\ i.total = 24 /\ i.left \in Nat
        /\ i.body.magic \in BOOLEAN /\ i.body.version \in {2, 3}
    <2>1. "header" \in DOMAIN Bodies /\ {24} \in SUBSET Nat BY DEF Bodies
    <2>2. i.type = "header" /\ i.total \in {24} /\ i.left \in Nat /\ i.body \in Bodies["header"]
      BY <2>1, ItemFields DEF Headers
    <2>3. Bodies["header"] = [magic : BOOLEAN, version : {2, 3}, link_type : LinkTypes]
      BY DEF Bodies
    <2> QED BY <2>2, <2>3
  <1> DEFINE good == i.left >= 24 /\ i.body.magic /\ i.body.version = 2
  <1>2. /\ format' = "pcap" /\ little' = i.order /\ order' = i.order
        /\ classic_link_type' = i.body.link_type
        /\ declared' = <<[link_type |-> i.body.link_type, snap_length |-> 0]>>
        /\ IF good THEN Read(i, 24, 0, 0, NoPacket) ELSE Throw(i, 0, 0)
        /\ interfaces' = interfaces
    BY OwnOrder DEF OpenClassic
  <1>3. Sound(i) <=> good BY <1>1 DEF Sound
  <1>4. Content(i) = NoPacket /\ Size(i) = 24 BY <1>1 DEF Content, Size
  <1>5. declared' # <<>> /\ declared'[1].link_type = classic_link_type' BY <1>2
  <1> HIDE DEF good
  <1>6. /\ item' = i /\ filled' = 0 /\ used' = 0
        /\ good => status' = "reading" /\ taken' = 24 /\ packet' = NoPacket
        /\ ~good => status' = "threw"
    BY <1>2 DEF Read, Throw
  <1>7. Bounded BY <1>6, Maximum DEF Bounded, MaxIsWhole
  <1>8. ReaderInv' BY <1>2, <1>5, <1>7 DEF ReaderInv, Bounded
  <1> QED BY <1>3, <1>4, <1>6, <1>7, <1>8 DEF Exact

(* next_classic(). *)
LEMMA RecordStep ==
    ASSUME ReaderInv, NEW i \in Records, NextRecord(i)
    PROVE  ReaderInv' /\ Bounded /\ Exact
  <1>0. /\ status = "reading" /\ format = "pcap" /\ little = order
        /\ declared # <<>> /\ declared[1].link_type = classic_link_type
    BY DEF NextRecord, ReaderInv
  <1>1. /\ i.type = "record" /\ i.order = little /\ i.left \in Nat
        /\ i.body.captured \in Nat /\ i.body.original \in Nat
    <2>1. "record" \in DOMAIN Bodies /\ {0} \in SUBSET Nat BY DEF Bodies
    <2>2. i.type = "record" /\ i.order \in {order} /\ i.left \in Nat /\ i.body \in Bodies["record"]
      BY <2>1, ItemFields DEF Records
    <2>3. Bodies["record"] = [captured : PacketLengths, original : PacketLengths] BY DEF Bodies
    <2> QED BY <1>0, <2>2, <2>3, CaptureAssumption
  <1> DEFINE n == i.body.captured
             good == i.left >= 16 /\ n <= MaxPacket /\ n <= i.body.original /\ i.left >= 16 + n
             p == [link_type |-> classic_link_type, first |-> 16, length |-> n]
  <1>2. /\ IF good THEN Read(i, 16 + n, n, n, p) ELSE Throw(i, 0, 0)
        /\ UNCHANGED <<format, little, classic_link_type, interfaces, order, declared>>
    BY <1>1, OwnOrder DEF NextRecord
  <1>3. Sound(i) <=> good
    <2>1. Sound(i) <=> i.left >= 16 + n /\ n <= Min({i.body.original, MaxPacket})
      BY <1>1 DEF Sound
    <2>2. /\ Min({i.body.original, MaxPacket}) <= i.body.original
          /\ Min({i.body.original, MaxPacket}) <= MaxPacket
          /\ Min({i.body.original, MaxPacket}) \in {i.body.original, MaxPacket}
      <3>1. {i.body.original, MaxPacket} = {i.body.original, MaxPacket, MaxPacket} OBVIOUS
      <3> QED BY <1>1, <3>1, Maximum, LeastOfThree DEF MaxIsWhole
    <2> QED BY <1>1, <2>1, <2>2, Maximum DEF MaxIsWhole
  <1>4. Content(i) = p /\ Size(i) = 16 + n BY <1>0, <1>1 DEF Content, Size
  <1> HIDE DEF p
  <1>5. /\ item' = i
        /\ good => status' = "reading" /\ taken' = 16 + n /\ filled' = n /\ used' = n /\ packet' = p
        /\ ~good => status' = "threw" /\ filled' = 0 /\ used' = 0
    BY <1>2 DEF Read, Throw
  <1>6. Bounded
    <2>1. good => n <= maximum_block_size BY <1>1, Maximum DEF MaxIsWhole, maximum_block_size
    <2> QED BY <1>1, <1>5, <2>1, Maximum DEF Bounded, MaxIsWhole
  <1> HIDE DEF good, n
  <1>7. ReaderInv' BY <1>0, <1>2, <1>6 DEF ReaderInv, Bounded
  <1> QED BY <1>3, <1>4, <1>5, <1>6, <1>7 DEF Exact
-----------------------------------------------------------------------------
(* A block, as it is read within its section. *)
LEMMA BlockFields ==
    ASSUME ReaderInv, status = "reading", NEW i \in Blocks
    PROVE  /\ i.type \in {"interface", "enhanced", "simple", "other"} /\ i.order = little
           /\ i.total \in Nat /\ i.trailer \in {0, 4} /\ i.left \in Nat
           /\ i.body \in Bodies[i.type] /\ total_of(i) = i.total /\ type_of(i) = i.type
  <1>1. PICK type \in {"interface", "enhanced", "simple", "other"} :
           i \in Items(type, {order}, Totals, {0, 4})
    BY DEF Blocks
  <1>2. type \in DOMAIN Bodies /\ Totals \in SUBSET Nat BY CaptureAssumption DEF Bodies
  <1>3. /\ i.type = type /\ i.order \in {order} /\ i.total \in Nat /\ i.trailer \in {0, 4}
        /\ i.left \in Nat /\ i.body \in Bodies[type]
    BY <1>1, <1>2, ItemFields
  <1>4. i.order = little BY <1>3 DEF ReaderInv
  <1>5. total_of(i) = i.total /\ type_of(i) = i.type BY <1>4, OwnOrder DEF total_of, type_of
  <1> QED BY <1>1, <1>3, <1>4, <1>5

(* Whether a block is taken into block_. *)
Stored(i, minimum) ==
    /\ i.total >= minimum /\ i.total % 4 = 0 /\ i.total <= maximum_block_size
    /\ i.left >= i.total /\ i.trailer = 0

(* read_block_body(), in the section's byte order. *)
LEMMA BodyStored ==
    ASSUME NEW i, i.order = little, i.total \in Nat, i.trailer \in {0, 4}, NEW minimum
    PROVE  validate_block_size(i.total, minimum) /\ read_block_body(i, i.total)
              <=> Stored(i, minimum)
  <1>1. read_block_body(i, i.total) <=>
           i.total <= maximum_block_size /\ i.left >= i.total /\ i.total + i.trailer = i.total
    BY OwnOrder DEF read_block_body
  <1>2. i.total + i.trailer = i.total <=> i.trailer = 0 OBVIOUS
  <1> QED BY <1>1, <1>2 DEF Stored, validate_block_size

(* A block of its section that is at fault is an exception. *)
LEMMA ThrowStep ==
    ASSUME ReaderInv, NEW i, NEW fill \in Nat, NEW use \in Nat, fill <= maximum_block_size,
           use <= fill, Throw(i, fill, use), interfaces' = interfaces
    PROVE  ReaderInv' /\ Bounded /\ (~Sound(i) => Exact)
  <1>1. status' = "threw" /\ item' = i /\ filled' = fill /\ used' = use BY DEF Throw
  <1> QED BY <1>1 DEF ReaderInv, Bounded, Exact

(* One that is taken leaves the reader in its section. *)
LEMMA ReadStep ==
    ASSUME ReaderInv, status = "reading", format = "pcapng", NEW i, NEW n, NEW fill \in Nat,
           NEW use \in Nat, NEW p, fill <= maximum_block_size, use <= fill,
           Read(i, n, fill, use, p), UNCHANGED <<format, little, classic_link_type, order>>,
           interfaces' \in Seq(Interface), declared' = interfaces'
    PROVE  ReaderInv' /\ Bounded /\ (Sound(i) /\ p = Content(i) /\ n = Size(i) => Exact)
  <1>1. /\ status' = "reading" /\ item' = i /\ taken' = n /\ filled' = fill /\ used' = use
        /\ packet' = p
    BY DEF Read
  <1>2. little' = order' /\ format' = "pcapng" BY DEF ReaderInv
  <1>3. ReaderInv' BY <1>1, <1>2 DEF ReaderInv
  <1> QED BY <1>1, <1>3 DEF Bounded, Exact

(* Too short for its prefix, or of no whole number of words. *)
LEMMA PrefixStep ==
    ASSUME ReaderInv, status = "reading", format = "pcapng", NEW i \in Blocks, BadPrefix(i)
    PROVE  ReaderInv' /\ Bounded /\ Exact
  <1>1. /\ i.type \in {"interface", "enhanced", "simple", "other"} /\ i.total \in Nat
        /\ i.left \in Nat /\ total_of(i) = i.total /\ i.body \in Bodies[i.type]
    BY BlockFields
  <1>2. ~(i.left >= 8 /\ i.total >= 12 /\ i.total % 4 = 0)
    BY <1>1 DEF BadPrefix, prefix, validate_block_size
  <1>3. ~Sound(i)
    <2> SUFFICES ASSUME Sound(i) PROVE FALSE OBVIOUS
    <2>1. Whole(i) BY <1>1 DEF Sound
    <2>2. i.total >= 12
      <3>1. CASE i.type = "enhanced"
        <4>1. Bodies["enhanced"] = [interface_id : 0 .. MaxInterfaces, captured : PacketLengths,
                                    original : PacketLengths]
          BY DEF Bodies
        <4>2. i.body.captured \in Nat BY <1>1, <3>1, <4>1, CaptureAssumption
        <4>3. i.total \in 32 + i.body.captured .. maximum_block_size BY <3>1 DEF Sound
        <4> QED BY <4>2, <4>3, Maximum DEF MaxIsWhole
      <3>2. CASE i.type # "enhanced"
        <4>1. \/ i.total \in 20 .. maximum_block_size \/ i.total \in 16 .. maximum_block_size
              \/ i.total >= 12
          BY <1>1, <3>2 DEF Sound
        <4> QED BY <1>1, <4>1, Maximum DEF MaxIsWhole
      <3> QED BY <3>1, <3>2
    <2> QED BY <1>1, <1>2, <2>1, <2>2 DEF Whole
  <1>4. Throw(i, 0, 0) /\ interfaces' = interfaces /\ 0 <= maximum_block_size
    BY Maximum DEF BadPrefix, MaxIsWhole
  <1> QED BY <1>3, <1>4, ThrowStep

(* An interface description. *)
LEMMA InterfaceStep ==
    ASSUME ReaderInv, status = "reading", format = "pcapng", NEW i \in Blocks, NextInterface(i),
           UNCHANGED <<format, little, classic_link_type, order>>
    PROVE  ReaderInv' /\ Bounded /\ Exact
  <1>1. /\ i.order = little /\ i.total \in Nat /\ i.trailer \in {0, 4} /\ i.left \in Nat
        /\ i.body \in Bodies[i.type] /\ total_of(i) = i.total /\ type_of(i) = i.type
    BY BlockFields
  <1>2. i.type = "interface" BY <1>1 DEF NextInterface
  <1>3. i.body \in Interface
    <2>1. Bodies["interface"] = Interface BY DEF Bodies, Interface
    <2> QED BY <1>1, <1>2, <2>1
  <1>4. Sound(i) <=> Stored(i, 20)
    <2>1. Sound(i) <=> Whole(i) /\ i.total \in 20 .. maximum_block_size BY <1>2 DEF Sound
    <2> QED BY <1>1, <2>1, Maximum DEF Whole, Stored, MaxIsWhole
  <1>5. Content(i) = NoPacket /\ Size(i) = i.total BY <1>2 DEF Content, Size
  <1>6. validate_block_size(i.total, 20) /\ read_block_body(i, i.total) <=> Stored(i, 20)
    BY <1>1, BodyStored
  <1>7. CASE Stored(i, 20)
    <2>1. [link_type   |-> read16(i.body.link_type, i.order, little),
           snap_length |-> read32(i.body.snap_length, i.order, little)] = i.body
      BY <1>1, <1>3, OwnOrder DEF Interface
    <2>2. /\ interfaces' = Append(interfaces, i.body) /\ declared' = Append(declared, i.body)
          /\ Read(i, i.total, i.total - 8, 8, NoPacket)
      BY <1>1, <1>6, <1>7, <2>1 DEF NextInterface
    <2>3. interfaces' \in Seq(Interface) /\ declared' = interfaces'
      BY <1>3, <2>2 DEF ReaderInv
    <2>4. i.total - 8 \in Nat /\ i.total - 8 <= maximum_block_size /\ 8 <= i.total - 8
      BY <1>1, <1>7, Maximum DEF Stored, MaxIsWhole
    <2> QED BY <1>4, <1>5, <1>7, <2>2, <2>3, <2>4, ReadStep
  <1>8. CASE ~Stored(i, 20)
    <2>1. Throw(i, 0, 0) /\ interfaces' = interfaces /\ 0 <= maximum_block_size
      BY <1>1, <1>6, <1>8, Maximum DEF NextInterface, MaxIsWhole
    <2> QED BY <1>4, <1>8, <2>1, ThrowStep
  <1> QED BY <1>7, <1>8

(* skip_block(). *)
LEMMA SkipStep ==
    ASSUME ReaderInv, status = "reading", format = "pcapng", NEW i \in Blocks, SkipBlock(i),
           UNCHANGED <<format, little, classic_link_type, order>>
    PROVE  ReaderInv' /\ Bounded /\ Exact
  <1>1. /\ i.order = little /\ i.total \in Nat /\ i.trailer \in {0, 4} /\ i.left \in Nat
        /\ total_of(i) = i.total /\ type_of(i) = i.type
    BY BlockFields
  <1>2. i.type = "other" BY <1>1 DEF SkipBlock
  <1>3. i.total >= 12 /\ i.total % 4 = 0
    BY <1>1 DEF SkipBlock, prefix, validate_block_size
  <1> DEFINE good == i.left >= i.total /\ i.trailer = 0
  <1>4. Sound(i) <=> good BY <1>2, <1>3 DEF Sound, Whole
  <1>5. Content(i) = NoPacket /\ Size(i) = i.total BY <1>2 DEF Content, Size
  <1>6. /\ IF good THEN Read(i, i.total, 0, 0, NoPacket) ELSE Throw(i, 0, 0)
        /\ UNCHANGED <<interfaces, declared>>
    <2>1. read32(i.total + i.trailer, i.order, little) = i.total <=> i.trailer = 0
      BY <1>1, OwnOrder
    <2>2. 4 + 4 + (i.total - 12) + 4 = i.total BY <1>1
    <2> QED BY <1>1, <2>1, <2>2 DEF SkipBlock
  <1>7. 0 <= maximum_block_size /\ interfaces' \in Seq(Interface) /\ declared' = interfaces'
    BY <1>6, Maximum DEF MaxIsWhole, ReaderInv
  <1> HIDE DEF good
  <1>8. CASE good BY <1>4, <1>5, <1>6, <1>7, <1>8, ReadStep
  <1>9. CASE ~good BY <1>4, <1>6, <1>7, <1>9, ThrowStep
  <1> QED BY <1>8, <1>9

(* An enhanced packet block. *)
LEMMA EnhancedStep ==
    ASSUME ReaderInv, status = "reading", format = "pcapng", NEW i \in Blocks, NextEnhanced(i),
           UNCHANGED <<format, little, classic_link_type, order>>
    PROVE  ReaderInv' /\ Bounded /\ Exact
  <1>1. /\ i.order = little /\ i.total \in Nat /\ i.trailer \in {0, 4} /\ i.left \in Nat
        /\ i.body \in Bodies[i.type] /\ total_of(i) = i.total /\ type_of(i) = i.type
    BY BlockFields
  <1>2. i.type = "enhanced" BY <1>1 DEF NextEnhanced
  <1> DEFINE n  == i.body.captured
             id == i.body.interface_id
             fits == /\ id < Len(interfaces) /\ n <= MaxPacket /\ n <= i.body.original
                     /\ 20 + padded(n) + 4 <= i.total - 8
             p == [link_type |-> interfaces[id + 1].link_type, first |-> 28, length |-> n]
  <1>3. n \in Nat /\ i.body.original \in Nat /\ id \in Nat
    <2>1. Bodies["enhanced"] = [interface_id : 0 .. MaxInterfaces, captured : PacketLengths,
                                original : PacketLengths]
      BY DEF Bodies
    <2> QED BY <1>1, <1>2, <2>1, CaptureAssumption
  <1>4. /\ \/ Stored(i, 32) /\ fits /\ Read(i, i.total, i.total - 8, 20 + n, p)
           \/ Stored(i, 32) /\ ~fits /\ Throw(i, i.total - 8, 20)
           \/ ~Stored(i, 32) /\ Throw(i, 0, 0)
        /\ UNCHANGED <<interfaces, declared>>
    <2>1. validate_block_size(i.total, 32) /\ read_block_body(i, i.total) <=> Stored(i, 32)
      BY <1>1, BodyStored
    <2>2. /\ read32(i.body.captured, i.order, little) = n
          /\ read32(i.body.interface_id, i.order, little) = id
          /\ read32(i.body.original, i.order, little) = i.body.original
      BY <1>1, OwnOrder
    <2>3. 8 + 20 = 28 OBVIOUS
    <2> QED BY <1>1, <2>1, <2>2, <2>3 DEF NextEnhanced, NextPacket
  <1>5. declared = interfaces /\ interfaces \in Seq(Interface) BY DEF ReaderInv
  <1>6. Sound(i) <=> Stored(i, 32) /\ fits
    <2>1. Sound(i) <=> /\ Whole(i) /\ i.total \in 32 + n .. maximum_block_size
                       /\ n <= i.body.original /\ id < Len(interfaces)
      BY <1>2, <1>5 DEF Sound
    <2>2. Sound(i) <=> /\ i.total % 4 = 0 /\ i.trailer = 0 /\ i.left >= i.total
                       /\ i.total >= 32 + n /\ i.total <= maximum_block_size
                       /\ n <= i.body.original /\ id < Len(interfaces)
      BY <1>1, <1>3, <2>1, Maximum DEF Whole, MaxIsWhole
    <2>3. ASSUME i.total >= 32, i.total % 4 = 0
          PROVE  20 + padded(n) + 4 <= i.total - 8 <=> i.total >= 32 + n
      <3>1. i.total - 32 \in Nat /\ (i.total - 32) % 4 = 0 BY <1>1, <2>3
      <3>2. padded(n) \in Nat /\ (padded(n) <= i.total - 32 <=> n <= i.total - 32)
        BY <1>3, <3>1, Padded
      <3> QED BY <1>1, <1>3, <3>2
    <2>4. i.total >= 32 + n => i.total >= 32 BY <1>1, <1>3
    <2>5. i.total >= 32 + n /\ i.total <= maximum_block_size => n <= MaxPacket
      BY <1>1, <1>3, Maximum DEF MaxIsWhole, maximum_block_size
    <2> QED BY <2>2, <2>3, <2>4, <2>5 DEF Stored
  <1>7. Content(i) = p /\ Size(i) = i.total BY <1>2, <1>5 DEF Content, Size
  <1>8. Stored(i, 32) =>
           i.total - 8 \in Nat /\ i.total - 8 <= maximum_block_size /\ 20 <= i.total - 8
    BY <1>1, Maximum DEF Stored, MaxIsWhole
  <1>9. fits => 20 + n \in Nat /\ 20 + n <= i.total - 8
    <2>1. n <= padded(n) /\ padded(n) \in Nat
      <3>1. 0 \in Nat /\ 0 % 4 = 0 OBVIOUS
      <3> QED BY <1>3, <3>1, Padded
    <2>2. i.total \in Nat /\ n \in Nat BY <1>1, <1>3
    <2>3. fits => 20 + padded(n) + 4 <= i.total - 8 OBVIOUS
    <2> HIDE DEF fits, n
    <2> QED BY ONLY <2>1, <2>2, <2>3
  <1>10. 0 <= maximum_block_size BY Maximum DEF MaxIsWhole
  <1> HIDE DEF fits, p, n
  <1>11. CASE Stored(i, 32) /\ fits
    <2>1. Read(i, i.total, i.total - 8, 20 + n, p) /\ interfaces' \in Seq(Interface)
          /\ declared' = interfaces'
      BY <1>4, <1>5, <1>11
    <2> QED BY <1>6, <1>7, <1>8, <1>9, <1>11, <2>1, ReadStep
  <1>12. CASE Stored(i, 32) /\ ~fits
    <2>1. Throw(i, i.total - 8, 20) /\ interfaces' = interfaces BY <1>4, <1>12
    <2> QED BY <1>6, <1>8, <1>12, <2>1, ThrowStep
  <1>13. CASE ~Stored(i, 32)
    <2>1. Throw(i, 0, 0) /\ interfaces' = interfaces BY <1>4, <1>13
    <2> QED BY <1>6, <1>10, <1>13, <2>1, ThrowStep
  <1> QED BY <1>11, <1>12, <1>13

(* A simple packet block; the interface has to declare a limit. *)
LEMMA SimpleStep ==
    ASSUME ReaderInv, status = "reading", format = "pcapng", NEW i \in Blocks, NextSimple(i),
           UNCHANGED <<format, little, classic_link_type, order>>
    PROVE  ReaderInv' /\ Bounded /\ (0 \notin SnapLengths => Exact)
  <1>1. /\ i.order = little /\ i.total \in Nat /\ i.trailer \in {0, 4} /\ i.left \in Nat
        /\ i.body \in Bodies[i.type] /\ total_of(i) = i.total /\ type_of(i) = i.type
    BY BlockFields
  <1>2. i.type = "simple" BY <1>1 DEF NextSimple
  <1> DEFINE o == i.body.original
             s == interfaces[1].snap_length
             n == Min({o, s, i.total - 16})
             fits == interfaces # <<>> /\ n <= MaxPacket
             p == [link_type |-> interfaces[1].link_type, first |-> 12, length |-> n]
  <1>3. o \in Nat
    <2>1. Bodies["simple"] = [original : PacketLengths] BY DEF Bodies
    <2> QED BY <1>1, <1>2, <2>1, CaptureAssumption
  <1>4. /\ \/ Stored(i, 16) /\ fits /\ Read(i, i.total, i.total - 8, 4 + n, p)
           \/ Stored(i, 16) /\ ~fits /\ Throw(i, i.total - 8, 4)
           \/ ~Stored(i, 16) /\ Throw(i, 0, 0)
        /\ UNCHANGED <<interfaces, declared>>
    <2>1. validate_block_size(i.total, 16) /\ read_block_body(i, i.total) <=> Stored(i, 16)
      BY <1>1, BodyStored
    <2>2. read32(i.body.original, i.order, little) = o BY <1>1, OwnOrder
    <2>3. 8 + 4 = 12 /\ (i.total - 8) - 8 = i.total - 16 BY <1>1
    <2> QED BY <1>1, <2>1, <2>2, <2>3 DEF NextSimple, NextPacket
  <1>5. declared = interfaces /\ interfaces \in Seq(Interface) BY DEF ReaderInv
  <1>6. interfaces # <<>> => s \in SnapLengths /\ s \in Nat
    <2> SUFFICES ASSUME interfaces # <<>> PROVE s \in SnapLengths
      BY CaptureAssumption
    <2>1. interfaces[1] \in Interface BY <1>5
    <2> QED BY <2>1 DEF Interface
  <1>7. interfaces # <<>> => n \in {o, s, i.total - 16} /\ n <= i.total - 16
    <2> SUFFICES ASSUME interfaces # <<>>
                 PROVE  n \in {o, s, i.total - 16} /\ n <= i.total - 16
      OBVIOUS
    <2>1. s \in Nat /\ i.total - 16 \in Int BY <1>1, <1>6
    <2> HIDE DEF o, s
    <2> QED BY <1>3, <2>1, LeastOfThree
  <1> HIDE DEF s, n, o
  <1>8. 0 \notin SnapLengths => (Sound(i) <=> Stored(i, 16) /\ fits) /\ (fits => Content(i) = p)
    <2> SUFFICES ASSUME 0 \notin SnapLengths
                 PROVE  (Sound(i) <=> Stored(i, 16) /\ fits) /\ (fits => Content(i) = p)
      OBVIOUS
    <2>1. interfaces # <<>> => SimpleData(i) = n
      <3> SUFFICES ASSUME interfaces # <<>> PROVE SimpleData(i) = n OBVIOUS
      <3>1. Limits = {s}
        <4>1. s # 0 BY <1>6
        <4> QED BY <1>5, <4>1 DEF Limits, s
      <3>2. {o, i.total - 16} \cup {s} = {o, s, i.total - 16} OBVIOUS
      <3> QED BY <3>1, <3>2 DEF SimpleData, Room, n, o
    <2>2. Sound(i) <=> /\ Whole(i) /\ i.total \in 16 .. maximum_block_size
                       /\ interfaces # <<>> /\ SimpleData(i) <= MaxPacket
      BY <1>2, <1>5 DEF Sound
    <2>3. i.total \in 16 .. maximum_block_size <=> i.total >= 16 /\ i.total <= maximum_block_size
      BY <1>1, Maximum DEF MaxIsWhole
    <2>4. Sound(i) <=> Stored(i, 16) /\ fits BY <2>1, <2>2, <2>3 DEF Whole, Stored
    <2>5. fits => Content(i) = p BY <1>2, <1>5, <2>1 DEF Content
    <2> QED BY <2>4, <2>5
  <1>9. Size(i) = i.total BY <1>2 DEF Size
  <1>10. Stored(i, 16) =>
            i.total - 8 \in Nat /\ i.total - 8 <= maximum_block_size /\ 4 <= i.total - 8
    BY <1>1, Maximum DEF Stored, MaxIsWhole
  <1>11. Stored(i, 16) /\ fits => 4 + n \in Nat /\ 4 + n <= i.total - 8
    BY <1>1, <1>3, <1>6, <1>7 DEF Stored
  <1>12. 0 <= maximum_block_size BY Maximum DEF MaxIsWhole
  <1> HIDE DEF fits, p
  <1>13. CASE Stored(i, 16) /\ fits
    <2>1. Read(i, i.total, i.total - 8, 4 + n, p) /\ interfaces' \in Seq(Interface)
          /\ declared' = interfaces'
      BY <1>4, <1>5, <1>13
    <2> QED BY <1>8, <1>9, <1>10, <1>11, <1>13, <2>1, ReadStep
  <1>14. CASE Stored(i, 16) /\ ~fits
    <2>1. Throw(i, i.total - 8, 4) /\ interfaces' = interfaces BY <1>4, <1>14
    <2> QED BY <1>8, <1>10, <1>14, <2>1, ThrowStep
  <1>15. CASE ~Stored(i, 16)
    <2>1. Throw(i, 0, 0) /\ interfaces' = interfaces BY <1>4, <1>15
    <2> QED BY <1>8, <1>12, <1>15, <2>1, ThrowStep
  <1> QED BY <1>13, <1>14, <1>15
-----------------------------------------------------------------------------
(* Every item: the bounds always, the packets with limits declared. *)
LEMMA ReaderStep ==
    ASSUME ReaderInv, Next
    PROVE  ReaderInv' /\ Bounded /\ (0 \notin SnapLengths => Exact)
  <1>1. ASSUME NEW i \in Headers, OpenClassic(i) PROVE ReaderInv' /\ Bounded /\ Exact
    BY <1>1, HeaderStep
  <1>2. ASSUME NEW i \in Sections, OpenSection(i) \/ NextSection(i)
        PROVE  ReaderInv' /\ Bounded /\ Exact
    <2>1. consume_section(i) /\ format' = "pcapng" BY <1>2 DEF OpenSection, NextSection
    <2> QED BY <2>1, SectionStep
  <1>3. ASSUME NEW i \in Blocks, NextBlock(i)
        PROVE  ReaderInv' /\ Bounded /\ (0 \notin SnapLengths => Exact)
    <2>1. /\ status = "reading" /\ format = "pcapng"
          /\ UNCHANGED <<format, little, classic_link_type, order>>
          /\ BadPrefix(i) \/ NextInterface(i) \/ NextEnhanced(i) \/ NextSimple(i) \/ SkipBlock(i)
      BY <1>3 DEF NextBlock
    <2> QED BY <2>1, PrefixStep, InterfaceStep, EnhancedStep, SimpleStep, SkipStep
  <1>4. ASSUME NEW i \in Records, NextRecord(i) PROVE ReaderInv' /\ Bounded /\ Exact
    BY <1>4, RecordStep
  <1>5. ASSUME EndOfFile PROVE ReaderInv' /\ Bounded /\ Exact
    BY <1>5 DEF EndOfFile, ReaderInv, Bounded, Exact
  <1> QED BY <1>1, <1>2, <1>3, <1>4, <1>5 DEF Next

(* Between two items the reader is in its section. *)
THEOREM ReaderInvariance == Spec => []ReaderInv
  <1>1. Init => ReaderInv BY Maximum DEF Init, ReaderInv, MaxIsWhole
  <1>2. ReaderInv /\ [Next]_vars => ReaderInv'
    <2>1. CASE UNCHANGED vars BY <2>1 DEF vars, state, ReaderInv
    <2> QED BY <2>1, ReaderStep
  <1> QED BY <1>1, <1>2, PTL DEF Spec

(* block_ is never filled beyond its size, and nothing is used of it but   *)
(* what was read into it, whatever lengths the file claims.                *)
THEOREM BlockNeverOverrun == Spec => BlockBounds
  <1>1. ReaderInv /\ [Next]_vars => [filled' <= maximum_block_size /\ used' <= filled']_vars
    BY ReaderStep DEF Bounded
  <1> QED BY <1>1, ReaderInvariance, PTL DEF Spec, BlockBounds

(* With a snap length other than 0 on every interface, next() delivers the *)
(* packets of the well-formed items, each whole and with the link type of  *)
(* its own section's interface, and throws at anything else.               *)
THEOREM CaptureAlwaysExact == 0 \notin SnapLengths => (Spec => CaptureExact)
  <1> SUFFICES ASSUME 0 \notin SnapLengths PROVE Spec => CaptureExact OBVIOUS
  <1>1. ReaderInv /\ [Next]_vars => [Exact]_vars BY ReaderStep
  <1> QED BY <1>1, ReaderInvariance, PTL DEF Spec, CaptureExact, Exact
-----------------------------------------------------------------------------
(* A least counterexample exists. *)
LEMMA LeastNat ==
    ASSUME NEW T \in SUBSET Nat, T # {}
    PROVE  \E n \in T : \A m \in T : n <= m
  <1> DEFINE R == OpToRel(<, Nat)
  <1>1. IsWellFoundedOn(R, Nat) BY NatLessThanWellFounded
  <1>2. \A x, y \in Nat : x < y => <<x, y>> \in R BY DEF OpToRel
  <1> HIDE DEF R
  <1>3. PICK n \in T : \A m \in T : ~(<<m, n>> \in R) BY <1>1, WFMin
  <1>4. ASSUME NEW m \in T PROVE n <= m
    <2>1. m \in Nat /\ n \in Nat OBVIOUS
    <2>2. ~(m < n) BY <1>2, <1>3, <2>1
    <2> QED BY <2>1, <2>2
  <1> QED BY <1>4

(* A field by field reading of Packets. *)
LEMMA PacketFields ==
    ASSUME NEW p \in Packets
    PROVE  /\ SizeRange \in Nat \ {0} /\ p.size \in 0 .. SizeRange - 1 /\ p.size \in Nat
           /\ p.tags \in Nat /\ p.words \in Nat /\ p.total_length \in Nat
           /\ p.udp_length \in Nat /\ p.link_type \in {1, 101, 113}
           /\ p.fragment \in Fragments
  <1>1. /\ p.size \in Sizes /\ p.tags \in 0 .. MaxTags /\ p.words \in HeaderWords
        /\ p.total_length \in TotalLengths /\ p.udp_length \in UdpLengths
        /\ p.link_type \in {1, 101, 113} /\ p.fragment \in Fragments
    BY DEF Packets
  <1>2. p.size \in 0 .. SizeRange - 1 /\ SizeRange \in Nat \ {0} /\ MaxTags \in Nat
    BY <1>1, PacketAssumption
  <1>3. p.words \in Nat /\ p.total_length \in Nat /\ p.udp_length \in Nat
    BY <1>1, PacketAssumption
  <1> QED BY <1>1, <1>2, <1>3

(* No wrap: the rest of a packet behind a place in it. *)
LEMMA RestIs ==
    ASSUME NEW p \in Packets, NEW a \in Nat, a <= p.size
    PROVE  rest(p, a) = p.size - a /\ rest(p, a) \in Nat
  <1> DEFINE x == p.size - a
             n == SizeRange
  <1>1. p.size \in 0 .. n - 1 /\ n \in Nat \ {0} BY PacketFields
  <1>2. x \in 0 .. n - 1 /\ rest(p, a) = x % n BY <1>1 DEF rest
  <1> HIDE DEF x, n
  <1>3. x % n = x BY ONLY <1>1, <1>2
  <1> QED BY <1>2, <1>3, <1>1 DEF x

(* The tags in front of place k were read, so the packet reaches that far. *)
LEMMA TagsFit ==
    ASSUME NEW p \in Packets, p.size >= 14, NEW k \in Nat,
           \A i \in 1 .. k : rest(p, 14 + 4 * (i - 1)) >= 4
    PROVE  14 + 4 * k <= p.size
  <1> DEFINE Bad == {j \in 0 .. k : 14 + 4 * j > p.size}
  <1>0. p.size \in Nat BY PacketFields
  <1>1. SUFFICES ASSUME Bad # {} PROVE FALSE
    <2>1. ASSUME Bad = {} PROVE 14 + 4 * k <= p.size BY ONLY <1>0, <2>1, k \in Nat
    <2> QED BY <2>1
  <1>2. PICK j \in Bad : \A i \in Bad : j <= i
    <2>1. Bad \in SUBSET Nat OBVIOUS
    <2> HIDE DEF Bad
    <2> QED BY <1>1, <2>1, LeastNat
  <1>3. j \in 1 .. k /\ j - 1 \in 0 .. k BY <1>0, <1>2
  <1>4. 14 + 4 * (j - 1) <= p.size BY <1>0, <1>2, <1>3
  <1>5. 14 + 4 * (j - 1) \in Nat BY <1>3
  <1>6. rest(p, 14 + 4 * (j - 1)) = p.size - (14 + 4 * (j - 1)) BY <1>4, <1>5, RestIs
  <1>7. rest(p, 14 + 4 * (j - 1)) >= 4 BY <1>3
  <1> QED BY <1>0, <1>2, <1>3, <1>6, <1>7

(* The tag that ends the walk is the first that is short. *)
LEMMA FirstShort ==
    ASSUME NEW p \in Packets, p.size >= 14, short_tags(p) # {}
    PROVE  /\ 14 + 4 * (Min(short_tags(p)) - 1) \in Nat
           /\ 14 + 4 * (Min(short_tags(p)) - 1) <= p.size
           /\ 14 + 4 * p.tags > p.size
  <1> DEFINE S == short_tags(p)
             m == Min(S)
  <1>0. p.size \in Nat /\ p.tags \in Nat BY PacketFields
  <1>1. S \in SUBSET Nat /\ S \in SUBSET (1 .. p.tags) BY <1>0 DEF short_tags
  <1>2. m \in S /\ \A i \in S : m <= i
    <2>1. \E x \in S : \A y \in S : x <= y
      <3>1. S # {} OBVIOUS
      <3> HIDE DEF S
      <3> QED BY <3>1, <1>1, LeastNat
    <2> HIDE DEF S
    <2> QED BY <2>1 DEF Min
  <1>3. m \in 1 .. p.tags /\ rest(p, 14 + 4 * (m - 1)) < 4 BY <1>1, <1>2 DEF short_tags
  <1>4. ASSUME NEW i \in 1 .. (m - 1) PROVE rest(p, 14 + 4 * (i - 1)) >= 4
    <2> DEFINE q == 14 + 4 * (i - 1)
    <2>1. i \in 1 .. p.tags /\ i < m BY <1>0, <1>3
    <2>2. ~(rest(p, q) < 4) BY <1>2, <1>3, <2>1 DEF short_tags
    <2>3. rest(p, q) \in Int
      <3>1. q \in Int BY <2>1
      <3> HIDE DEF q
      <3> QED BY <3>1, <1>0, PacketAssumption DEF rest
    <2> QED BY <2>2, <2>3
  <1> HIDE DEF m, S
  <1>5. 14 + 4 * (m - 1) <= p.size
    <2>1. m - 1 \in Nat BY <1>3
    <2> QED BY <1>4, <2>1, TagsFit
  <1>6. rest(p, 14 + 4 * (m - 1)) = p.size - (14 + 4 * (m - 1))
    <2>1. 14 + 4 * (m - 1) \in Nat BY <1>3
    <2> QED BY <2>1, <1>5, RestIs
  <1>7. 14 + 4 * p.tags > p.size BY <1>0, <1>3, <1>6
  <1> QED BY <1>0, <1>3, <1>5, <1>7 DEF m, S

(* The link layer ends where the sender ended it, or the packet is short   *)
(* of it or not IPv4; nothing behind the packet is looked at.              *)
Ipv4Link(p) == p.link_type \in {1, 101} /\ (p.link_type = 1 => p.ether_type = 2048)
(* What link_layer() finds out. *)
LEMMA LinkFacts ==
    ASSUME NEW p \in Packets
    PROVE  LET r == link_layer(p) IN
           /\ r.error = "none" <=> Ipv4Link(p) /\ LinkHeader(p) <= p.size
           /\ r.error = "none" => r.position = LinkHeader(p)
           /\ r.error # "none" => r.position = 0
           /\ r.error # "non_udp"
           /\ r.error = "unsupported_network_protocol" => ~Ipv4Link(p)
           /\ r.reach \in Nat /\ r.reach <= p.size
  <1>0. p.size \in Nat /\ p.tags \in Nat /\ p.link_type \in {1, 101, 113} BY PacketFields
  <1>1. CASE p.link_type # 1
    BY <1>0, <1>1 DEF link_layer, Error, Reached, Ipv4Link, LinkHeader
  <1>2. CASE p.link_type = 1
    <2>0. link_layer(p) = ethernet(p) /\ LinkHeader(p) = 14 + 4 * p.tags
      BY <1>2 DEF link_layer, LinkHeader
    <2>1. CASE p.size < 14
      BY <1>0, <2>0, <2>1 DEF ethernet, Error
    <2>2. CASE ~(p.size < 14) /\ short_tags(p) # {}
      <3> DEFINE q == 14 + 4 * (Min(short_tags(p)) - 1)
      <3>1. q \in Nat /\ q <= p.size /\ 14 + 4 * p.tags > p.size
        <4>1. p.size >= 14 BY <1>0, <2>2
        <4> QED BY <4>1, <2>2, FirstShort
      <3>2. ethernet(p) = Error("truncated_ethernet", q) BY <2>2 DEF ethernet
      <3> HIDE DEF q
      <3> QED BY <1>0, <2>0, <3>1, <3>2 DEF Error
    <2>3. CASE ~(p.size < 14) /\ short_tags(p) = {}
      <3>1. 14 + 4 * p.tags <= p.size
        <4>1. \A i \in 1 .. p.tags : rest(p, 14 + 4 * (i - 1)) >= 4
          <5> TAKE i \in 1 .. p.tags
          <5>1. ~(rest(p, 14 + 4 * (i - 1)) < 4) BY <2>3 DEF short_tags
          <5>2. rest(p, 14 + 4 * (i - 1)) \in Int BY <1>0, PacketAssumption DEF rest
          <5> QED BY <5>1, <5>2
        <4>2. p.size >= 14 BY <1>0, <2>3
        <4> QED BY <1>0, <4>1, <4>2, TagsFit
      <3>2. ethernet(p) = IF p.ether_type # 2048
                THEN Error("unsupported_network_protocol", 14 + 4 * p.tags)
                ELSE Reached(14 + 4 * p.tags, 14 + 4 * p.tags)
        BY <2>3 DEF ethernet
      <3> QED BY <1>0, <1>2, <2>0, <3>1, <3>2 DEF Error, Reached, Ipv4Link
    <2> QED BY <2>1, <2>2, <2>3
  <1> QED BY <1>1, <1>2

(* The IPv4 layer: what of a packet is a whole UDP datagram. *)
Ipv4Whole(p, a) == /\ p.version = 4 /\ IpHeader(p) >= 20
                   /\ IpHeader(p) + 8 <= p.total_length /\ a + p.total_length <= p.size
(* What ipv4() finds out of a header that starts within the packet. *)
LEMMA Ipv4Facts ==
    ASSUME NEW p \in Packets, NEW a \in Nat, a <= p.size
    PROVE  LET r == ipv4(p, a) IN
           /\ r.error = "none" <=>
                 Ipv4Whole(p, a) /\ p.fragment \in {0, 16384} /\ p.protocol = 17
           /\ r.error = "none" => r.position = a + IpHeader(p)
           /\ r.error # "none" => r.position = 0
           /\ r.error = "non_udp" => p.protocol # 17
           /\ r.error = "unsupported_network_protocol" => p.version # 4
           /\ r.reach \in Nat /\ r.reach <= p.size
  <1>0. /\ p.size \in Nat /\ p.words \in Nat /\ p.total_length \in Nat
        /\ p.fragment \in Fragments
    BY PacketFields
  <1>1. rest(p, a) = p.size - a BY RestIs
  <1>2. is_fragment(p) <=> p.fragment \notin {0, 16384}
    BY <1>0 DEF is_fragment, Fragments
  <1>3. CASE rest(p, a) < 20
    BY <1>0, <1>1, <1>3 DEF ipv4, Error, Ipv4Whole, IpHeader
  <1>4. CASE ~(rest(p, a) < 20)
    <2>1. a + 20 <= p.size BY <1>0, <1>1, <1>4
    <2> QED BY <1>0, <1>1, <1>2, <1>4, <2>1 DEF ipv4, Error, Reached, Ipv4Whole, IpHeader
  <1> QED BY <1>3, <1>4

(* The UDP layer behind a whole IPv4 header. *)
LEMMA DatagramFacts ==
    ASSUME NEW p \in Packets, NEW a \in Nat, Ipv4Whole(p, a)
    PROVE  LET r == datagram(p, a + IpHeader(p)) IN
           /\ r.error = "none" <=>
                 p.udp_length >= 8 /\ IpHeader(p) + p.udp_length <= p.total_length
           /\ r.error = "none" => r.position = a + IpHeader(p) + 8
           /\ r.error # "none" => r.position = 0
           /\ r.error \in {"none", "truncated_udp"}
           /\ r.reach \in Nat /\ r.reach <= p.size
  <1>0. /\ p.size \in Nat /\ p.words \in Nat /\ p.total_length \in Nat /\ p.udp_length \in Nat
    BY PacketFields
  <1> DEFINE q == a + IpHeader(p)
  <1>1. q \in Nat /\ q + 8 <= p.size /\ q + p.total_length - IpHeader(p) <= p.size
        /\ IpHeader(p) = 4 * p.words /\ IpHeader(p) \in Nat
    BY <1>0 DEF Ipv4Whole, IpHeader
  <1>2. rest(p, q) = p.size - q
    <2> HIDE DEF q
    <2>1. q <= p.size BY <1>0, <1>1
    <2> QED BY <1>1, <2>1, RestIs
  <1>3. q = a + IpHeader(p) OBVIOUS
  <1> HIDE DEF q
  <1>4. LET r == datagram(p, q) IN
           /\ r.error = "none" <=>
                 p.udp_length >= 8 /\ IpHeader(p) + p.udp_length <= p.total_length
           /\ r.error = "none" => r.position = q + 8
           /\ r.error # "none" => r.position = 0
           /\ r.error \in {"none", "truncated_udp"}
           /\ r.reach \in Nat /\ r.reach <= p.size
    BY <1>0, <1>1, <1>2 DEF datagram, Error, Reached
  <1> QED BY <1>3, <1>4

(* What the three layers make of a packet, in one statement. *)
Captured(p) == IsIpv4(p) /\ p.fragment \in {0, 16384} /\ p.protocol = 17 /\ Nested(p)
(* The layers put together. *)
LEMMA ExtractFacts ==
    ASSUME NEW p \in Packets
    PROVE  LET r == extract_udp_payload(p) IN
           /\ r.error = "none" <=> Captured(p)
           /\ r.error = "none" => r.position = LinkHeader(p) + IpHeader(p) + 8
           /\ r.error # "none" => r.position = 0
           /\ r.error \in {"non_udp", "unsupported_network_protocol"} =>
                 ~IsIpv4(p) \/ p.protocol # 17
           /\ r.reach \in Nat /\ r.reach <= p.size
  <1>0. /\ p.size \in Nat /\ p.words \in Nat /\ p.total_length \in Nat /\ p.udp_length \in Nat
        /\ p.tags \in Nat /\ p.link_type \in {1, 101, 113}
    BY PacketFields
  <1> DEFINE link == link_layer(p)
             a == LinkHeader(p)
             ip == ipv4(p, a)
  <1>1. a \in Nat /\ IpHeader(p) \in Nat /\ IpEnd(p) = a + p.total_length
    BY <1>0 DEF LinkHeader, IpHeader, IpEnd
  <1>2. IsIpv4(p) <=> Ipv4Link(p) /\ p.version = 4 BY DEF IsIpv4, Ipv4Link
  <1>3. Nested(p) <=> /\ IpHeader(p) >= 20 /\ p.udp_length >= 8
                      /\ a + IpHeader(p) + p.udp_length <= a + p.total_length
                      /\ a + p.total_length <= p.size
    BY <1>1 DEF Nested
  <1>4. CASE link.error # "none"
    <2>1. extract_udp_payload(p) = link BY <1>4 DEF extract_udp_payload
    <2>2. ~Ipv4Link(p) \/ ~(a <= p.size) BY <1>4, LinkFacts
    <2>3. ~Captured(p) BY <1>0, <1>1, <1>2, <1>3, <2>2 DEF Captured
    <2>4. /\ link.error # "non_udp" /\ link.position = 0
          /\ link.error = "unsupported_network_protocol" => ~Ipv4Link(p)
          /\ link.reach \in Nat /\ link.reach <= p.size
      BY <1>4, LinkFacts
    <2> HIDE DEF link
    <2> QED BY <1>2, <1>4, <2>1, <2>3, <2>4
  <1>5. CASE link.error = "none"
    <2>1. Ipv4Link(p) /\ a <= p.size /\ link.position = a BY <1>5, LinkFacts
    <2>2. extract_udp_payload(p) =
              IF ip.error # "none" THEN ip ELSE datagram(p, ip.position)
      BY <1>5, <2>1 DEF extract_udp_payload
    <2>3. /\ ip.error = "none" <=>
                Ipv4Whole(p, a) /\ p.fragment \in {0, 16384} /\ p.protocol = 17
          /\ ip.error = "none" => ip.position = a + IpHeader(p)
          /\ ip.error # "none" => ip.position = 0
          /\ ip.error = "non_udp" => p.protocol # 17
          /\ ip.error = "unsupported_network_protocol" => p.version # 4
          /\ ip.reach \in Nat /\ ip.reach <= p.size
      <3> HIDE DEF a
      <3> QED BY <1>1, <2>1, Ipv4Facts
    <2>4. Captured(p) <=> /\ Ipv4Whole(p, a) /\ p.fragment \in {0, 16384} /\ p.protocol = 17
                          /\ p.udp_length >= 8 /\ IpHeader(p) + p.udp_length <= p.total_length
      <3>1. Nested(p) /\ p.version = 4 <=>
                Ipv4Whole(p, a) /\ p.udp_length >= 8
                /\ IpHeader(p) + p.udp_length <= p.total_length
        <4> HIDE DEF a
        <4> QED BY <1>0, <1>1, <1>3 DEF Ipv4Whole
      <3> QED BY <1>2, <2>1, <3>1 DEF Captured
    <2> HIDE DEF link, ip
    <2>5. CASE ip.error # "none" BY <1>2, <2>2, <2>3, <2>4, <2>5
    <2>6. CASE ip.error = "none"
      <3>1. LET r == datagram(p, a + IpHeader(p)) IN
            /\ r.error = "none" <=>
                  p.udp_length >= 8 /\ IpHeader(p) + p.udp_length <= p.total_length
            /\ r.error = "none" => r.position = a + IpHeader(p) + 8
            /\ r.error # "none" => r.position = 0
            /\ r.error \in {"none", "truncated_udp"}
            /\ r.reach \in Nat /\ r.reach <= p.size
        <4> HIDE DEF a
        <4> QED BY <1>1, <2>3, <2>6, DatagramFacts
      <3>2. extract_udp_payload(p) = datagram(p, a + IpHeader(p)) BY <2>2, <2>3, <2>6
      <3> QED BY <2>3, <2>4, <2>6, <3>1, <3>2
    <2> QED BY <2>5, <2>6
  <1> QED BY <1>4, <1>5
-----------------------------------------------------------------------------
(* Before the packet is read nothing is known of it but its shape. *)
PacketInv ==
    /\ frame \in Packets
    /\ kind = "unread" => udp = [error |-> "none", first |-> 0, length |-> 0] /\ reach = 0
    /\ PayloadExact /\ ReadsInPacket

(* One packet is read into what its sender put there. *)
LEMMA DecodeKeeps ==
    ASSUME frame \in Packets, decode(frame)
    PROVE  PacketInv'
  <1> DEFINE r == extract_udp_payload(frame)
  <1>0. /\ frame.size \in Nat /\ frame.words \in Nat /\ frame.total_length \in Nat
        /\ frame.udp_length \in Nat /\ frame.tags \in Nat
    BY PacketFields
  <1>1. /\ r.error = "none" <=> Captured(frame)
        /\ r.error = "none" => r.position = LinkHeader(frame) + IpHeader(frame) + 8
        /\ r.error # "none" => r.position = 0
        /\ r.error \in {"non_udp", "unsupported_network_protocol"} =>
              ~IsIpv4(frame) \/ frame.protocol # 17
        /\ r.reach \in Nat /\ r.reach <= frame.size
    BY ExtractFacts
  <1>2. /\ udp' = [error |-> r.error, first |-> r.position,
                   length |-> IF r.error = "none" THEN frame.udp_length - 8 ELSE 0]
        /\ reach' = r.reach /\ frame' = frame
        /\ kind' = CASE r.error \in {"non_udp", "unsupported_network_protocol"} -> "skipped"
                     [] r.error = "none" -> IF matches(filter, frame) THEN "mold" ELSE "filtered"
                     [] OTHER            -> "malformed"
    BY DEF decode
  <1> HIDE DEF r
  <1>3. /\ kind' # "unread"
        /\ kind' = "skipped" => r.error \in {"non_udp", "unsupported_network_protocol"}
    BY <1>2
  <1>4. /\ udp'.error = r.error /\ udp'.first = r.position
        /\ udp'.length = IF r.error = "none" THEN frame.udp_length - 8 ELSE 0
    BY <1>2
  <1>5. ASSUME r.error = "none"
        PROVE  /\ udp'.first = LinkHeader(frame) + IpHeader(frame) + 8
               /\ udp'.length = frame.udp_length - 8
               /\ udp'.first + udp'.length <= IpEnd(frame)
               /\ udp'.first + udp'.length <= frame.size
    <2>1. Nested(frame) BY <1>1, <1>5 DEF Captured
    <2>2. LinkHeader(frame) \in Nat /\ IpHeader(frame) \in Nat /\ IpEnd(frame) \in Nat
      BY <1>0 DEF LinkHeader, IpHeader, IpEnd
    <2>3. /\ udp'.first = LinkHeader(frame) + IpHeader(frame) + 8
          /\ udp'.length = frame.udp_length - 8
      BY <1>1, <1>4, <1>5
    <2> QED BY <1>0, <2>1, <2>2, <2>3 DEF Nested
  <1>6. PayloadExact'
    <2>1. /\ udp'.error = "none" <=> Captured(frame)
          /\ udp'.error = "none" => /\ udp'.first = LinkHeader(frame) + IpHeader(frame) + 8
                                    /\ udp'.length = frame.udp_length - 8
                                    /\ udp'.first + udp'.length <= IpEnd(frame)
          /\ kind' = "skipped" => ~IsIpv4(frame) \/ frame.protocol # 17
      BY <1>1, <1>3, <1>4, <1>5
    <2>2. /\ LinkHeader(frame)' = LinkHeader(frame) /\ IpHeader(frame)' = IpHeader(frame)
          /\ IpEnd(frame)' = IpEnd(frame) /\ IsIpv4(frame)' <=> IsIpv4(frame)
          /\ Nested(frame)' <=> Nested(frame)
      BY <1>2 DEF LinkHeader, IpHeader, IpEnd, IsIpv4, Nested
    <2> QED BY <1>2, <2>1, <2>2 DEF PayloadExact, Captured
  <1>7. ReadsInPacket'
    <2>1. CASE r.error = "none" BY <1>1, <1>2, <1>5, <2>1 DEF ReadsInPacket
    <2>2. CASE r.error # "none" BY <1>0, <1>1, <1>2, <1>4, <2>2 DEF ReadsInPacket
    <2> QED BY <2>1, <2>2
  <1> QED BY <1>2, <1>3, <1>6, <1>7 DEF PacketInv

(* The invariant holds before the packet is read and after. *)
LEMMA PacketInvariance == ExtractSpec => []PacketInv
  <1>1. ExtractInit => PacketInv
    <2> SUFFICES ASSUME ExtractInit PROVE PacketInv OBVIOUS
    <2>1. frame \in Packets /\ kind = "unread" /\ reach = 0
          /\ udp = [error |-> "none", first |-> 0, length |-> 0]
      BY DEF ExtractInit
    <2>2. frame.size \in Nat BY <2>1, PacketFields
    <2> QED BY <2>1, <2>2 DEF PacketInv, PayloadExact, ReadsInPacket
  <1>2. PacketInv /\ [ExtractNext]_extractvars => PacketInv'
    <2> SUFFICES ASSUME PacketInv, [ExtractNext]_extractvars PROVE PacketInv' OBVIOUS
    <2>1. CASE ExtractNext BY <2>1, DecodeKeeps DEF ExtractNext, PacketInv
    <2>2. CASE UNCHANGED extractvars
      BY <2>2 DEF PacketInv, extractvars, PayloadExact, ReadsInPacket, LinkHeader, IpHeader, IpEnd,
                  IsIpv4, Nested
    <2> QED BY <2>1, <2>2
  <1> QED BY <1>1, <1>2, PTL DEF ExtractSpec

(* extract_udp_payload() takes a datagram out of a packet exactly if its   *)
(* sender's layers nest and were captured whole, and then takes exactly    *)
(* the sender's payload: for every number of VLAN tags, every header       *)
(* length and every claimed length, against any size of the packet.        *)
THEOREM PayloadAlwaysExact == ExtractSpec => []PayloadExact
  <1>1. PacketInv => PayloadExact BY DEF PacketInv
  <1> QED BY <1>1, PacketInvariance, PTL

(* extract_udp_payload() never reads a field, nor returns a byte, that is  *)
(* behind the end of the packet; its unsigned subtractions never wrap.     *)
THEOREM ReadsStayInPacket == ExtractSpec => []ReadsInPacket
  <1>1. PacketInv => ReadsInPacket BY DEF PacketInv
  <1> QED BY <1>1, PacketInvariance, PTL
=============================================================================
