----------------------------- MODULE ItchParser -----------------------------
(***************************************************************************)
(* parse_message(): the table of lengths, and the Reader that takes a      *)
(* message apart field by field; and the messages generate_feed writes.    *)
(*                                                                         *)
(* A message is its type, its length in bytes and the byte that stands     *)
(* where the type has a side.  Fields are known by their widths, those of  *)
(* the messages that change the book by their members as well.             *)
(***************************************************************************)
EXTENDS Integers, Sequences, SequencesExt

CONSTANTS OtherTypes,  \* type bytes that parse_message() does not know
          MaxLength    \* bound on the length of a message
ASSUME ParserAssumption == MaxLength \in Nat

VARIABLES b,      \* the message
          pos,    \* Reader::pos_
          left,   \* the fields still to be read
          read,   \* the fields read: member, first byte, width
          error   \* "unread" and "reading" until parse_message() returns
vars == <<b, pos, left, read, error>>

expected_message_length(t) ==
    LET length == [S |-> 12, R |-> 39, H |-> 25, Y |-> 20, L |-> 26, V |-> 35, W |-> 12, K |-> 28,
                   J |-> 35, h |-> 21, A |-> 36, F |-> 40, E |-> 31, C |-> 36, X |-> 23, D |-> 19,
                   U |-> 35, P |-> 44, Q |-> 40, B |-> 19, I |-> 50, N |-> 20]
    IN  IF t \in DOMAIN length THEN length[t] ELSE 0
Types == {"S", "R", "H", "Y", "L", "V", "W", "K", "J", "h", "A", "F", "E", "C", "X", "D", "U", "P",
          "Q", "B", "I", "N"} \cup OtherTypes
-----------------------------------------------------------------------------
field(member, width) == [member |-> member, width |-> width]
plain(widths) == [i \in DOMAIN widths |-> field("", widths[i])]

header_u64 == plain(<<2, 2, 8>>)
header   == plain(<<2, 2, 6>>)
order_id == field("order_id", 8)
side     == field("side", 1)
quantity == field("quantity", 4)
stock    == field("stock", 8)
price    == field("price", 4)

(* The reads of the messages that the book leaves alone ... *)
administrative ==
    [S |-> plain(<<1>>),
     R |-> plain(<<8, 1, 1, 4, 1, 1, 2, 1, 1, 1, 1, 1, 4, 1>>),
     H |-> plain(<<8, 1, 1, 4>>),
     Y |-> plain(<<8, 1>>),
     L |-> plain(<<4, 8, 1, 1, 1>>),
     V |-> plain(<<8, 8, 8>>),
     W |-> plain(<<1>>),
     K |-> plain(<<8, 4, 1, 4>>),
     J |-> plain(<<8, 4, 4, 4, 4>>),
     h |-> plain(<<8, 1>>)]
replace_reads_price_first == <<order_id, field("new_order_id", 8), price, quantity>>
replace_reads == <<order_id, field("new_order_id", 8), quantity, price>>
(* ... and of those about orders and trades. *)
trading ==
    [A |-> <<order_id, side, quantity, stock, price>>,
     F |-> <<order_id, side, quantity, stock, price>> \o plain(<<4>>),
     E |-> <<order_id, quantity>> \o plain(<<8>>),
     C |-> <<order_id, quantity>> \o plain(<<8, 1, 4>>),
     X |-> <<order_id, quantity>>,
     D |-> <<order_id>>,
     U |-> replace_reads,
     P |-> <<order_id, side, quantity, stock, price>> \o plain(<<8>>),
     Q |-> plain(<<8, 8, 4, 8, 1>>),
     B |-> plain(<<8>>),
     I |-> plain(<<8, 8, 1, 8, 4, 4, 4, 1, 1>>),
     N |-> plain(<<8, 1>>)]
reads(t) == header \o (IF t \in DOMAIN administrative THEN administrative[t] ELSE trading[t])

(* The tests before the Reader starts, behind the type byte. *)
parse_message ==
    LET length == expected_message_length(b.type)
    IN  /\ error = "unread"
        /\ error' = IF b.size = 0 THEN "empty"
                    ELSE IF length = 0 THEN "unsupported_type"
                    ELSE IF b.size # length THEN "wrong_length" ELSE "reading"
        /\ pos' = 1
        /\ left' = IF error' = "reading" THEN reads(b.type) ELSE <<>>
        /\ UNCHANGED <<b, read>>

(* u8(), u16(), u32(), u48(), u64(), chars() and read_side() *)
Reader ==
    /\ error = "reading" /\ left # <<>>
    /\ read' = Append(read, [member |-> Head(left).member, first |-> pos, width |-> Head(left).width])
    /\ pos' = pos + Head(left).width
    /\ left' = Tail(left)
    /\ error' = IF Head(left).member = "side" /\ b.side \notin {"B", "S"} THEN "invalid_side"
                ELSE error
    /\ UNCHANGED b

Returns ==
    /\ error = "reading" /\ left = <<>>
    /\ error' = "none"
    /\ UNCHANGED <<b, pos, left, read>>

Init ==
    /\ b \in [type : Types, size : 0 .. MaxLength, side : {"B", "S", "?"}]
    /\ pos = 0 /\ left = <<>> /\ read = <<>> /\ error = "unread"
Next == parse_message \/ Reader \/ Returns
Spec == Init /\ [][Next]_vars
-----------------------------------------------------------------------------
(* generate_feed: the fields that add(), execute(), cancel(),              *)
(* delete_order() and replace() write behind the type byte.                *)
writes ==
    [A |-> header \o <<order_id, side, quantity, stock, price>>,
     E |-> header \o <<order_id, quantity>> \o plain(<<8>>),
     X |-> header \o <<order_id, quantity>>,
     D |-> header \o <<order_id>>,
     U |-> header \o <<order_id, field("new_order_id", 8), quantity, price>>]

(* Writer: each field goes where the one before it ended. *)
first_byte(fields, i) == 1 + FoldLeft(LAMBDA n, f : n + f.width, 0, SubSeq(fields, 1, i - 1))
placed(fields) == [i \in DOMAIN fields |-> [member |-> fields[i].member,
                                            first  |-> first_byte(fields, i),
                                            width  |-> fields[i].width]]
-----------------------------------------------------------------------------
(* The Reader, which checks no bounds itself, never reads past the end of  *)
(* the message, and an accepted message was read to its last byte, so that *)
(* no field is missing or read from its neighbour's place.  The exception  *)
(* is the operational halt, see HaltReadToItsEnd.                          *)
ReadsExact == /\ error \in {"reading", "none", "invalid_side"} => pos <= b.size
              /\ error = "none" /\ b.type # "h" => pos = b.size

(* The operational halt is decoded from all of its bytes, too. *)
HaltReadToItsEnd == error = "none" /\ b.type = "h" => pos = b.size

(* Every message generate_feed writes is accepted, and each member is read *)
(* from the bytes that were written for it.                                *)
GeneratedMessagesParse ==
    /\ b.type \in DOMAIN writes /\ b.size = first_byte(writes[b.type], Len(writes[b.type]) + 1)
    /\ b.side \in {"B", "S"}
    /\ error \notin {"unread", "reading"}
    => error = "none" /\ read = placed(writes[b.type])
=============================================================================
