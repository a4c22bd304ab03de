--------------------------- MODULE PacketExtract ----------------------------
(***************************************************************************)
(* extract_udp_payload() and PcapFilter, for one packet of a capture: what *)
(* decode_capture() makes of it before MoldUDP64.                          *)
(*                                                                         *)
(* A packet is the values of the fields that the code reads, at the places *)
(* where it reads them, and its size in bytes, which need not agree.       *)
(***************************************************************************)
EXTENDS Integers, FiniteSetsExt

CONSTANTS MaxTags,              \* VLAN tags in front of the ether type
          HeaderWords,          \* header lengths of IPv4, in 32-bit words
          TotalLengths, UdpLengths, Sizes,
          Ports, FilterPorts,   \* of packets and of the filter, 0 being no filter
          SizeRange             \* the range of size_t: 2^64 in the code

ASSUME PacketAssumption ==
    /\ MaxTags \in Nat
    /\ HeaderWords \cup TotalLengths \cup UdpLengths \cup Ports \cup FilterPorts \subseteq Nat
    /\ SizeRange \in Nat \ {0} /\ Sizes \subseteq 0 .. SizeRange - 1

VARIABLES frame,  \* the packet, as the capture has it
          filter,
          udp,   \* UdpPayload: error, first byte and length of the payload
          reach, \* how far into the packet the code looked
          kind   \* the counter of decode_capture() that the packet goes to, or "mold"
extractvars == <<frame, filter, udp, reach, kind>>

Fragments == {0, 16384, 8192, 1}   \* whole, don't fragment, more fragments, an offset
Packets == [link_type : {1, 101, 113}, tags : 0 .. MaxTags, ether_type : {2048, 34525},
            version : {4, 6}, words : HeaderWords, total_length : TotalLengths,
            fragment : Fragments, protocol : {17, 6}, udp_length : UdpLengths,
            source_port : Ports, destination_port : Ports, size : Sizes]

rest(p, position) == (p.size - position) % SizeRange

Error(e, r)      == [error |-> e, position |-> 0, reach |-> r]
Reached(at, r)   == [error |-> "none", position |-> at, reach |-> r]
-----------------------------------------------------------------------------
(* The link layer: where the IP header starts. *)
short_tags(p) == {i \in 1 .. p.tags : rest(p, 14 + 4 * (i - 1)) < 4}
ethernet(p) ==
    IF p.size < 14 THEN Error("truncated_ethernet", 0)
    ELSE IF short_tags(p) # {}
         THEN Error("truncated_ethernet", 14 + 4 * (Min(short_tags(p)) - 1))
    ELSE IF p.ether_type # 2048
         THEN Error("unsupported_network_protocol", 14 + 4 * p.tags)
    ELSE Reached(14 + 4 * p.tags, 14 + 4 * p.tags)
link_layer(p) ==
    IF p.link_type = 1 THEN ethernet(p)
    ELSE IF p.link_type = 101 THEN Reached(0, 0) ELSE Error("unsupported_link_type", 0)

is_fragment(p) == p.fragment % 16384 # 0   \* fragment & 0x3fff

(* The IPv4 header that starts at a: where the UDP header starts. *)
ipv4_lengths_unchecked(p, a) ==
    IF rest(p, a) < 20 THEN Error("truncated_ip", a)
    ELSE IF p.version # 4 THEN Error("unsupported_network_protocol", a + 1)
    ELSE IF is_fragment(p) \/ p.protocol # 17 THEN Error("non_udp", a + 10)
    ELSE Reached(a + 4 * p.words, a + 10)
ipv4(p, a) ==
    LET length == 4 * p.words IN
    IF rest(p, a) < 20 THEN Error("truncated_ip", a)
    ELSE IF p.version # 4 THEN Error("unsupported_network_protocol", a + 1)
    ELSE IF length < 20 \/ rest(p, a) < length THEN Error("truncated_ip", a + 1)
    ELSE IF p.total_length < length + 8 \/ rest(p, a) < p.total_length
         THEN Error("truncated_ip", a + 4)
    ELSE IF is_fragment(p) THEN Error("fragmented_ip", a + 8)
    ELSE IF p.protocol # 17 THEN Error("non_udp", a + 10)
    ELSE Reached(a + length, a + 10)

(* The UDP header that starts at a: where the payload starts. *)
datagram_within_packet(p, a) ==
    IF p.udp_length < 8 \/ rest(p, a) < p.udp_length
    THEN Error("truncated_udp", a + 6) ELSE Reached(a + 8, a + 6)
datagram(p, a) ==
    IF \/ p.udp_length < 8 \/ p.udp_length > p.total_length - 4 * p.words
       \/ rest(p, a) < p.udp_length
    THEN Error("truncated_udp", a + 6) ELSE Reached(a + 8, a + 6)

extract_udp_payload(p) ==
    LET link == link_layer(p)
        ip   == IF link.error # "none" THEN link ELSE ipv4(p, link.position)
    IN  IF ip.error # "none" THEN ip ELSE datagram(p, ip.position)

matches(f, p) == /\ f.source_port \in {0, p.source_port}
                 /\ f.destination_port \in {0, p.destination_port}

decode(p) ==
    LET r == extract_udp_payload(p)
    IN  /\ udp' = [error |-> r.error, first |-> r.position,
                   length |-> IF r.error = "none" THEN p.udp_length - 8 ELSE 0]
        /\ reach' = r.reach
        /\ kind' = CASE r.error \in {"non_udp", "unsupported_network_protocol"} -> "skipped"
                     [] r.error = "none" -> IF matches(filter, p) THEN "mold" ELSE "filtered"
                     [] OTHER            -> "malformed"
        /\ UNCHANGED <<frame, filter>>

ExtractInit == /\ frame \in Packets
        /\ filter \in [source_port : FilterPorts, destination_port : FilterPorts]
        /\ udp = [error |-> "none", first |-> 0, length |-> 0] /\ reach = 0 /\ kind = "unread"
ExtractNext == kind = "unread" /\ decode(frame)
ExtractSpec == ExtractInit /\ [][ExtractNext]_extractvars
-----------------------------------------------------------------------------
(* The layers of a packet as its sender nests them. *)
LinkHeader(p) == IF p.link_type = 1 THEN 14 + 4 * p.tags ELSE 0
IpHeader(p)   == 4 * p.words
IpEnd(p)      == LinkHeader(p) + p.total_length
IsIpv4(p)     == p.link_type \in {1, 101} /\ (p.link_type = 1 => p.ether_type = 2048)
                 /\ p.version = 4
Nested(p)     == /\ IpHeader(p) >= 20 /\ p.udp_length >= 8
                 /\ LinkHeader(p) + IpHeader(p) + p.udp_length <= IpEnd(p)
                 /\ IpEnd(p) <= p.size

(* A UDP datagram comes out exactly if all of it was captured, in one      *)
(* fragment, under any number of VLAN tags and IP options and with any     *)
(* padding behind it; its payload is then exactly the bytes its sender put *)
(* there, and never bytes of the padding.                                  *)
PayloadExact ==
    kind # "unread" =>
        /\ udp.error = "none" <=>
              IsIpv4(frame) /\ frame.fragment \in {0, 16384} /\ frame.protocol = 17
              /\ Nested(frame)
        /\ udp.error = "none" =>
              /\ udp.first = LinkHeader(frame) + IpHeader(frame) + 8
              /\ udp.length = frame.udp_length - 8
              /\ udp.first + udp.length <= IpEnd(frame)
        /\ kind = "skipped" => ~IsIpv4(frame) \/ frame.protocol # 17

(* No field is read beyond the end of the packet, and no subtraction of    *)
(* positions wraps, whatever the lengths in the packet claim.              *)
ReadsInPacket == reach <= frame.size /\ udp.first + udp.length <= frame.size
=============================================================================
