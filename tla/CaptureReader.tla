--------------------------- MODULE CaptureReader ----------------------------
(***************************************************************************)
(* CaptureReader: a PCAP or PCAP-NG file turned into packets.              *)
(*                                                                         *)
(* The file is any sequence of items: the PCAP header and its records, or  *)
(* PCAP-NG blocks.  An item is what is written in it: its type, byte order *)
(* and length, the trailing length (as its difference to the first one),   *)
(* left, the bytes the file has from its start on, and the fields of its   *)
(* body.                                                                   *)
(***************************************************************************)
EXTENDS Integers, Sequences, FiniteSetsExt

CONSTANTS LinkTypes, SnapLengths,  \* of the file and of its interfaces
          PacketLengths,           \* captured and original lengths
          Totals, Lefts,           \* lengths of blocks, and of the rest of the file
          MaxPacket,               \* maximum_packet_size
          MaxInterfaces            \* bound on the interfaces of a section

ASSUME CaptureAssumption ==
    /\ LinkTypes \cup SnapLengths \cup PacketLengths \cup Totals \cup Lefts \subseteq Nat
    /\ MaxPacket \in Nat /\ MaxPacket % 4 = 0 /\ MaxInterfaces \in Nat

VARIABLES format, little, classic_link_type, interfaces,
          status,    \* "closed", "reading", "end" (next() returned false) or "threw"
          order,     \* whether the writer of the file, or of its section, is little-endian
          declared,  \* the interfaces written in the section
          item,      \* the item read last
          taken,     \* the bytes of the file it took
          filled,    \* the bytes of block_ it filled
          used,      \* how far into block_ its fields and its packet reach
          packet     \* the packet delivered: link type, place in the item, length
state == <<format, little, classic_link_type, interfaces, status, order, declared>>
vars == <<state, item, taken, filled, used, packet>>

maximum_block_size == MaxPacket + 32
NoPacket == [link_type |-> 0, first |-> 0, length |-> 0]

Bodies == [section   |-> [magic : BOOLEAN, version : {1, 2}],
           interface |-> [link_type : LinkTypes, snap_length : SnapLengths],
           enhanced  |-> [interface_id : 0 .. MaxInterfaces, captured : PacketLengths,
                          original : PacketLengths],
           simple    |-> [original : PacketLengths],
           other     |-> [options : {0}],
           header    |-> [magic : BOOLEAN, version : {2, 3}, link_type : LinkTypes],
           record    |-> [captured : PacketLengths, original : PacketLengths]]
Items(type, orders, totals, trailers) ==
    [type : {type}, order : orders, total : totals, trailer : trailers, left : Lefts,
     body : Bodies[type]]
Sections == Items("section", BOOLEAN, Totals, {0, 4})
Headers  == Items("header", BOOLEAN, {24}, {0})
Blocks   == UNION {Items(type, {order}, Totals, {0, 4}) :
                   type \in {"interface", "enhanced", "simple", "other"}}
Records  == Items("record", {order}, {0}, {0})
-----------------------------------------------------------------------------
(* Read in the wrong byte order, a value has its bytes swapped. *)
read16(value, written, lit) ==
    IF written = lit THEN value ELSE (value % 256) * 256 + value \div 256
read32(value, written, lit) ==
    IF written = lit THEN value
    ELSE read16(value % 65536, written, lit) * 65536 + read16(value \div 65536, written, lit)
padded(n) == ((n + 3) \div 4) * 4

validate_block_size_weak(total, minimum) == total >= 12 /\ total % 4 = 0
validate_block_size(total, minimum) == total >= minimum /\ total % 4 = 0

(* read_block_body() returns: the block fits block_, the file has all of   *)
(* it and its lengths agree.                                               *)
read_block_body(i, total) ==
    /\ total <= maximum_block_size
    /\ i.left >= total
    /\ read32(i.total + i.trailer, i.order, little) = total

(* How the reading of item i ends: with an exception, or after n bytes and *)
(* possibly a packet.                                                      *)
Throw(i, fill, use) ==
    /\ status' = "threw" /\ item' = i /\ taken' = 0 /\ filled' = fill /\ used' = use
    /\ packet' = NoPacket
Read(i, n, fill, use, p) ==
    /\ status' = "reading" /\ item' = i /\ taken' = n /\ filled' = fill /\ used' = use
    /\ packet' = p
-----------------------------------------------------------------------------
(* consume_section(), called by the constructor and by next_pcapng().      *)
cleared_never == interfaces
cleared == <<>>

consume_section(i) ==
    LET total  == read32(i.total, i.order, i.order)  \* little_ follows the magic by now
        stored == /\ i.left >= 12 /\ i.body.magic
                  /\ validate_block_size(total, 28) /\ total - 12 <= maximum_block_size
                  /\ i.left >= total
        good   == /\ stored /\ read16(i.body.version, i.order, i.order) = 1
                  /\ read32(i.total + i.trailer, i.order, i.order) = total
    IN  /\ order' = i.order /\ declared' = <<>>
        /\ little' = IF i.left >= 12 /\ i.body.magic THEN i.order ELSE little
        /\ interfaces' = IF good THEN cleared ELSE interfaces
        /\ \/ good /\ Read(i, 4 + 8 + (total - 12), total - 12, total - 12, NoPacket)
           \/ stored /\ ~good /\ Throw(i, total - 12, total - 12)
           \/ ~stored /\ Throw(i, 0, 0)

(* The constructor; four bytes that are no magic at all are ~magic. *)
OpenClassic(i) ==
    /\ status = "closed"
    /\ format' = "pcap" /\ little' = i.order /\ order' = i.order
    /\ classic_link_type' = read32(i.body.link_type, i.order, i.order)
    /\ declared' = <<[link_type |-> i.body.link_type, snap_length |-> 0]>>
    /\ IF i.left >= 4 + 20 /\ i.body.magic /\ read16(i.body.version, i.order, i.order) = 2
       THEN Read(i, 4 + 20, 0, 0, NoPacket) ELSE Throw(i, 0, 0)
    /\ UNCHANGED interfaces

OpenSection(i) ==
    /\ status = "closed" /\ format' = "pcapng"
    /\ consume_section(i)
    /\ UNCHANGED classic_link_type

NextSection(i) ==
    /\ status = "reading" /\ format = "pcapng"
    /\ consume_section(i)
    /\ UNCHANGED <<format, classic_link_type>>
-----------------------------------------------------------------------------
(* next_pcapng(), for a block that is no section header *)
total_of(i) == read32(i.total, i.order, little)
type_of(i)  == IF i.order = little THEN i.type ELSE "other"
prefix(i)   == i.left >= 8 /\ validate_block_size(total_of(i), 12)

BadPrefix(i) == ~prefix(i) /\ Throw(i, 0, 0) /\ UNCHANGED <<interfaces, declared>>

NextInterface(i) ==
    LET total == total_of(i)
    IN  /\ prefix(i) /\ type_of(i) = "interface"
        /\ IF validate_block_size(total, 20) /\ read_block_body(i, total)
           THEN /\ interfaces' = Append(interfaces,
                      [link_type   |-> read16(i.body.link_type, i.order, little),
                       snap_length |-> read32(i.body.snap_length, i.order, little)])
                /\ declared' = Append(declared, i.body)
                /\ Read(i, total, total - 8, 8, NoPacket)
           ELSE Throw(i, 0, 0) /\ UNCHANGED <<interfaces, declared>>

(* A block with a packet: it is read, and then its packet accepted or not. *)
NextPacket(i, minimum, fields, accepted, link_type, length) ==
    LET total  == total_of(i)
        stored == validate_block_size(total, minimum) /\ read_block_body(i, total)
    IN  /\ prefix(i)
        /\ \/ /\ stored /\ accepted
              /\ Read(i, total, total - 8, fields + length,
                      [link_type |-> link_type, first |-> 8 + fields, length |-> length])
           \/ stored /\ ~accepted /\ Throw(i, total - 8, fields)
           \/ ~stored /\ Throw(i, 0, 0)
        /\ UNCHANGED <<interfaces, declared>>

NextEnhanced(i) ==
    LET captured == read32(i.body.captured, i.order, little)
        id       == read32(i.body.interface_id, i.order, little)
    IN  /\ type_of(i) = "enhanced"
        /\ NextPacket(i, 32, 20,
              /\ id < Len(interfaces)
              /\ captured <= MaxPacket /\ captured <= read32(i.body.original, i.order, little)
              /\ 20 + padded(captured) + 4 <= total_of(i) - 8,
              interfaces[id + 1].link_type, captured)

NextSimple(i) ==
    LET length == Min({read32(i.body.original, i.order, little), interfaces[1].snap_length,
                       (total_of(i) - 8) - 8})
    IN  /\ type_of(i) = "simple"
        /\ NextPacket(i, 16, 4, interfaces # <<>> /\ length <= MaxPacket,
                      interfaces[1].link_type, length)

(* skip_block().  Seeking beyond the end of the file succeeds, the read of *)
(* the trailing length after it does not.                                  *)
SkipBlock(i) ==
    LET total == total_of(i)
    IN  /\ prefix(i) /\ type_of(i) = "other"
        /\ IF i.left >= total /\ read32(i.total + i.trailer, i.order, little) = total
           THEN Read(i, 4 + 4 + (total - 12) + 4, 0, 0, NoPacket) ELSE Throw(i, 0, 0)
        /\ UNCHANGED <<interfaces, declared>>

(* The bound on interfaces is the file's, not the reader's. *)
NextBlock(i) ==
    /\ status = "reading" /\ format = "pcapng"
    /\ i.type = "interface" => Len(declared) < MaxInterfaces
    /\ BadPrefix(i) \/ NextInterface(i) \/ NextEnhanced(i) \/ NextSimple(i) \/ SkipBlock(i)
    /\ UNCHANGED <<format, little, classic_link_type, order>>
-----------------------------------------------------------------------------
NextRecord(i) ==
    LET captured == read32(i.body.captured, i.order, little)
        accepted == /\ i.left >= 16 /\ captured <= MaxPacket
                    /\ captured <= read32(i.body.original, i.order, little)
    IN  /\ status = "reading" /\ format = "pcap"
        /\ IF accepted /\ i.left >= 16 + captured
           THEN Read(i, 16 + captured, captured, captured,
                     [link_type |-> classic_link_type, first |-> 16, length |-> captured])
           ELSE Throw(i, 0, 0)
        /\ UNCHANGED <<format, little, classic_link_type, interfaces, order, declared>>

EndOfFile ==
    /\ status = "reading" /\ status' = "end"
    /\ UNCHANGED <<format, little, classic_link_type, interfaces, order, declared,
                   item, taken, filled, used, packet>>

Init ==
    /\ format = "pcap" /\ little = FALSE /\ classic_link_type = 0 /\ interfaces = <<>>
    /\ status = "closed" /\ order = FALSE /\ declared = <<>>
    /\ item = [type |-> "none"] /\ taken = 0 /\ filled = 0 /\ used = 0 /\ packet = NoPacket

Next == \/ \E i \in Headers : OpenClassic(i)
        \/ \E i \in Sections : OpenSection(i) \/ NextSection(i)
        \/ \E i \in Blocks : NextBlock(i)
        \/ \E i \in Records : NextRecord(i)
        \/ EndOfFile
Spec == Init /\ [][Next]_vars
-----------------------------------------------------------------------------
(* The file formats: which items are well formed, as the file was written, *)
(* and what a reader has to make of them.                                  *)
Whole(i) == i.total % 4 = 0 /\ i.trailer = 0 /\ i.left >= i.total
Room(i)  == i.total - 16
Limits   == IF declared = <<>> THEN {} ELSE {declared[1].snap_length} \ {0}  \* 0 is no limit
SimpleData(i) == Min({i.body.original, Room(i)} \cup Limits)

Sound(i) ==
    CASE i.type = "section"   -> /\ Whole(i) /\ i.total \in 28 .. maximum_block_size + 12
                                 /\ i.body.magic /\ i.body.version = 1
      [] i.type = "interface" -> Whole(i) /\ i.total \in 20 .. maximum_block_size
      [] i.type = "enhanced"  -> /\ Whole(i)
                                 /\ i.total \in 32 + i.body.captured .. maximum_block_size
                                 /\ i.body.captured <= i.body.original
                                 /\ i.body.interface_id < Len(declared)
      [] i.type = "simple"    -> /\ Whole(i) /\ i.total \in 16 .. maximum_block_size
                                 /\ declared # <<>> /\ SimpleData(i) <= MaxPacket
      [] i.type = "other"     -> Whole(i) /\ i.total >= 12
      [] i.type = "header"    -> i.left >= 24 /\ i.body.magic /\ i.body.version = 2
      [] i.type = "record"    -> /\ i.left >= 16 + i.body.captured
                                 /\ i.body.captured <= Min({i.body.original, MaxPacket})

Size(i) == IF i.type = "record" THEN 16 + i.body.captured ELSE i.total
Content(i) ==
    CASE i.type = "enhanced" -> [link_type |-> declared[i.body.interface_id + 1].link_type,
                                 first |-> 28, length |-> i.body.captured]
      [] i.type = "simple"   -> [link_type |-> declared[1].link_type, first |-> 12,
                                 length |-> SimpleData(i)]
      [] i.type = "record"   -> [link_type |-> declared[1].link_type, first |-> 16,
                                 length |-> i.body.captured]
      [] OTHER               -> NoPacket

(* next() delivers exactly the packets that were captured: each well-formed *)
(* item, in whichever byte order its section is written, is taken from the *)
(* file to its last byte, and its packet comes with its own bytes and the  *)
(* link type of its own section's interface; anything else throws.         *)
CaptureExact ==
    [][status' # "end" =>
          IF Sound(item')
          THEN status' = "reading" /\ packet' = Content(item') /\ taken' = Size(item')
          ELSE status' = "threw"]_vars

(* Whatever lengths the file claims, block_ is never filled beyond its     *)
(* size, and neither a field nor a packet is taken from beyond the bytes   *)
(* that were read into it.                                                 *)
BlockBounds == [][filled' <= maximum_block_size /\ used' <= filled']_vars

(* A simple packet block is delivered with the bytes it holds, up to its   *)
(* original length and the snap length if the interface has one.           *)
SimplePacketsRead ==
    [][item'.type = "simple" /\ status' = "reading" => packet'.length = SimpleData(item')]_vars
=============================================================================
