------------------------------ MODULE MoldFeed ------------------------------
(***************************************************************************)
(* decode_capture(): the packets of a capture, MoldDecoder::decode() with  *)
(* its gate, and SequenceTracker::observe().  A capture may lack, repeat   *)
(* and reorder datagrams, and change session.                              *)
(*                                                                         *)
(* A datagram that passes the filter is its MoldUDP64 header, the lengths  *)
(* read at the places where the header's count puts messages, and body,    *)
(* the number of bytes after the header.  What parse_message() makes of a  *)
(* message depends on its length alone here.  Sequence numbers wrap at     *)
(* Wrap, which stands for 2^64.                                            *)
(***************************************************************************)
EXTENDS Integers, Sequences, FiniteSets

CONSTANTS Sessions, Sequences_,  \* values of the header's fields
          Lengths, MaxCount,     \* message lengths, and how many messages a datagram has
          MaxBody,               \* bytes after the header
          Wrap,                  \* the range of sequence numbers
          MaxLog,                \* bound on the messages dispatched in one session
          Parse(_)               \* "ok", "unsupported" or "malformed", for a length

ASSUME FeedAssumption == /\ Wrap \in Nat \ {0} /\ Sequences_ \subseteq 0 .. Wrap - 1
                         /\ Lengths \subseteq Nat
                         /\ MaxCount \in Nat /\ MaxBody \in Nat /\ MaxLog \in Nat
                         /\ \A n \in Lengths : Parse(n) \in {"ok", "unsupported", "malformed"}

VARIABLES tracker,         \* SequenceTracker: session_, expected_, initialized_
          sequence_valid,
          pcap_stats, decoder_stats,
          packet,          \* the packet read last
          start, log,      \* the sequence numbers given to parse_message() since the
                           \* session (re)started, and the one it started with
          gapped, rewound, \* what was reported since then
          crossed          \* whether a datagram accepted since then ran into the wrap
vars == <<tracker, sequence_valid, pcap_stats, decoder_stats, packet, start, log, gapped, rewound,
          crossed>>

EndOfSession == 65535
Datagrams ==
    [kind : {"mold"}, session : Sessions, sequence : Sequences_,
     message_count : {0, EndOfSession}, lengths : {<<>>}, body : {0, 1}]
    \cup UNION {[kind : {"mold"}, session : Sessions, sequence : Sequences_,
                 message_count : {n}, lengths : [1 .. n -> Lengths], body : 0 .. MaxBody] :
                n \in 1 .. MaxCount}
(* What extract_udp_payload() and the filter turn away, and UDP payloads   *)
(* shorter than the header.                                                *)
Others == [kind : {"skipped", "malformed", "filtered", "header_too_short"}]

control(d) == d.message_count \in {0, EndOfSession}
-----------------------------------------------------------------------------
(* The validation loop of decode(): where message i starts. *)
position(d, i) ==
    LET upto[k \in 1 .. MaxCount + 1] == IF k = 1 THEN 0 ELSE upto[k - 1] + 2 + d.lengths[k - 1]
    IN  upto[i]

validate(d) ==
    IF control(d) THEN IF d.body # 0 THEN "invalid_control_packet" ELSE "none"
    ELSE IF \E i \in 1 .. d.message_count :
               /\ d.body - position(d, i) < 2 + d.lengths[i]
               /\ \A k \in 1 .. i - 1 : d.body - position(d, k) >= 2 + d.lengths[k]
         THEN "truncated"   \* its length or its bytes
    ELSE IF position(d, d.message_count + 1) # d.body THEN "trailing_bytes"
    ELSE "none"

(* observe() *)
advances(d) == IF d.message_count = EndOfSession THEN 0 ELSE d.message_count

status_overlap_in_order(t, d) ==
    IF ~t.initialized THEN "initialized"
    ELSE IF d.session # t.session THEN "new_session"
    ELSE IF d.sequence > t.expected THEN "gap"
    ELSE IF d.sequence + advances(d) < t.expected THEN "rewind"
    ELSE "in_order"
status_gap_of_two(t, d) ==
    IF ~t.initialized THEN "initialized"
    ELSE IF d.session # t.session THEN "new_session"
    ELSE IF d.sequence > t.expected + 1 THEN "gap"
    ELSE IF d.sequence < t.expected THEN "rewind"
    ELSE "in_order"
status(t, d) ==
    IF ~t.initialized THEN "initialized"
    ELSE IF d.session # t.session THEN "new_session"
    ELSE IF d.sequence > t.expected THEN "gap"
    ELSE IF d.sequence < t.expected THEN "rewind"
    ELSE "in_order"

observe_steps_back(t, d) ==
    [session |-> d.session, initialized |-> TRUE, expected |-> (d.sequence + advances(d)) % Wrap]
observe(t, d) ==
    LET packet_end == (d.sequence + advances(d)) % Wrap
    IN  [session |-> d.session, initialized |-> TRUE,
         expected |-> IF status(t, d) \in {"initialized", "new_session"} \/ packet_end > t.expected
                      THEN packet_end ELSE t.expected]

missing(t, d) == d.sequence - t.expected

(* The gate: whether the messages are dispatched, and sequence_valid after it. *)
gate_forgets_gap(valid, st) ==
    [pass |-> st \notin {"gap", "rewind"}, valid |-> TRUE]
gate(valid, st) ==
    CASE st = "gap"         -> [pass |-> FALSE, valid |-> FALSE]
      [] st = "rewind"      -> [pass |-> FALSE, valid |-> valid]
      [] st = "new_session" -> [pass |-> TRUE, valid |-> TRUE]
      [] OTHER              -> [pass |-> valid, valid |-> valid]
-----------------------------------------------------------------------------
(* What the second loop of decode() gives to its callback. *)
Sequence(d) == [i \in 1 .. d.message_count |-> (d.sequence + i - 1) % Wrap]
count(d, outcome) == Cardinality({i \in DOMAIN d.lengths : Parse(d.lengths[i]) = outcome})
one(condition) == IF condition THEN 1 ELSE 0

(* A packet without a MoldUDP64 header. *)
Turn_away(p) ==
    /\ packet' = p
    /\ pcap_stats' = [pcap_stats EXCEPT
          !.packets = @ + 1,
          !.skipped_packets = @ + one(p.kind = "skipped"),
          !.malformed_packets = @ + one(p.kind = "malformed"),
          !.udp_packets = @ + one(p.kind \in {"filtered", "header_too_short"}),
          !.filtered_packets = @ + one(p.kind = "filtered"),
          !.mold_errors = @ + one(p.kind = "header_too_short")]
    /\ UNCHANGED <<tracker, sequence_valid, decoder_stats, start, log, gapped, rewound, crossed>>

Refuse_after_gate(d) ==
    /\ validate(d) # "none"
    /\ packet' = d
    /\ tracker' = observe(tracker, d)
    /\ pcap_stats' = [pcap_stats EXCEPT !.packets = @ + 1, !.udp_packets = @ + 1,
                                        !.mold_errors = @ + 1]
    /\ UNCHANGED <<sequence_valid, decoder_stats, start, log, gapped, rewound, crossed>>
Refuse(d) ==
    /\ validate(d) # "none"
    /\ packet' = d
    /\ pcap_stats' = [pcap_stats EXCEPT !.packets = @ + 1, !.udp_packets = @ + 1,
                                        !.mold_errors = @ + 1]
    /\ UNCHANGED <<tracker, sequence_valid, decoder_stats, start, log, gapped, rewound, crossed>>

Accept(d) ==
    LET st  == status(tracker, d)
        g   == gate(sequence_valid, st)
        new == st \in {"initialized", "new_session"}
        dispatched == g.pass /\ ~control(d)
        n   == d.message_count
    IN  /\ validate(d) = "none"
        /\ dispatched => Len(log) + n <= MaxLog
        /\ packet' = d
        /\ tracker' = observe(tracker, d)
        /\ sequence_valid' = g.valid
        /\ pcap_stats' = [pcap_stats EXCEPT
              !.packets = @ + 1, !.udp_packets = @ + 1, !.mold_packets = @ + 1,
              !.sequence_gaps = @ + one(st = "gap"),
              !.missing_messages = IF st = "gap" THEN @ + missing(tracker, d) ELSE @,
              !.sequence_rewinds = @ + one(st = "rewind"),
              !.mold_messages = @ + advances(d),
              !.heartbeats = @ + one(n = 0),
              !.end_of_session = @ + one(n = EndOfSession)]
        /\ decoder_stats' = IF dispatched
                            THEN [o \in DOMAIN decoder_stats |-> decoder_stats[o] + count(d, o)]
                            ELSE decoder_stats
        /\ start' = IF new THEN d.sequence ELSE start
        /\ log' = (IF new THEN <<>> ELSE log)
                  \o (IF dispatched THEN Sequence(d) ELSE <<>>)
        /\ gapped'  = ((~new /\ gapped) \/ st = "gap")
        /\ rewound' = ((~new /\ rewound) \/ st = "rewind")
        /\ crossed' = ((~new /\ crossed) \/ d.sequence + advances(d) >= Wrap)

Init ==
    /\ tracker = [session |-> "none", expected |-> 0, initialized |-> FALSE]
    /\ sequence_valid = TRUE
    /\ pcap_stats = [packets |-> 0, udp_packets |-> 0, filtered_packets |-> 0,
                     skipped_packets |-> 0, malformed_packets |-> 0, mold_packets |-> 0,
                     mold_messages |-> 0, mold_errors |-> 0, heartbeats |-> 0,
                     end_of_session |-> 0, sequence_gaps |-> 0, missing_messages |-> 0,
                     sequence_rewinds |-> 0]
    /\ decoder_stats = [ok |-> 0, unsupported |-> 0, malformed |-> 0]
    /\ packet = [kind |-> "skipped"]
    /\ start = 0 /\ log = <<>> /\ gapped = FALSE /\ rewound = FALSE /\ crossed = FALSE

Next == \/ \E p \in Others : Turn_away(p)
        \/ \E d \in Datagrams : Refuse(d) \/ Accept(d)
Spec == Init /\ [][Next]_vars
-----------------------------------------------------------------------------
(* What reaches the book is a prefix of the session: as long as no rewind  *)
(* was reported, the messages dispatched are consecutive from the first    *)
(* one, also after a gap, when a late or lost datagram never lets a later  *)
(* one through; and if no gap was reported either, none is missing.  All   *)
(* of it for sequence numbers that stay below the wrap.                    *)
BookGetsPrefix ==
    /\ ~rewound /\ ~crossed => \A i \in DOMAIN log : log[i] = start + i - 1
    /\ ~rewound /\ ~crossed /\ ~gapped /\ tracker.initialized =>
          Len(log) = tracker.expected - start

(* No message of a session is dispatched twice or after a later one,       *)
(* whatever datagrams are repeated, reordered or overlap, below the wrap.  *)
NeverTwice == ~crossed => \A i \in 1 .. Len(log) - 1 : log[i] < log[i + 1]

(* Nothing is dispatched between a gap and the next session. *)
GapHoldsBook == [][gapped /\ gapped' => log' = log]_vars

(* No message is lost without a report, also at the wrap, where expected_  *)
(* may stay behind: as long as neither a gap nor a rewind was reported,    *)
(* each message dispatched, and the one expected next, follows the last    *)
(* one modulo Wrap or repeats one that was dispatched before.              *)
Resumes(x, n) == x = (log[n] + 1) % Wrap \/ \E j \in 1 .. n : log[j] = x
NoSilentLoss ==
    ~gapped /\ ~rewound /\ log # <<>> =>
        /\ log[1] = start
        /\ \A i \in 1 .. Len(log) - 1 : Resumes(log[i + 1], i)
        /\ Resumes(tracker.expected, Len(log))

(* The messages of a datagram take up its body to the last byte. *)
Fills(d) == d.body = IF control(d) THEN 0 ELSE position(d, d.message_count + 1)

(* A datagram is taken as a whole or not at all.  One whose messages do    *)
(* not fill it changes neither the tracker nor the gate, and none of its   *)
(* messages reaches the parser.  Any other is observed, and then all of    *)
(* its messages are dispatched, behind those of the session, or none is.   *)
Transactional ==
    [][pcap_stats'.packets # pcap_stats.packets =>
          IF packet'.kind = "mold" /\ Fills(packet')
          THEN LET new  == status(tracker, packet') \in {"initialized", "new_session"}
                   kept == IF new THEN <<>> ELSE log
               IN  /\ tracker' = observe(tracker, packet')
                   /\ \/ log' = kept /\ UNCHANGED decoder_stats
                      \/ /\ ~control(packet') /\ log' = kept \o Sequence(packet')
                         /\ \A o \in DOMAIN decoder_stats :
                               decoder_stats'[o] = decoder_stats[o] + count(packet', o)
          ELSE UNCHANGED <<tracker, sequence_valid, log, decoder_stats>>]_vars
=============================================================================
