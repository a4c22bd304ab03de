---------------------------- MODULE CommandLine -----------------------------
(***************************************************************************)
(* main(): the options, the replay they ask for, and the exit status.  The *)
(* replay of a capture is module MoldFeed, packet by packet.  Of the       *)
(* replay of an ITCH file, which module FramedDecoder models, only its     *)
(* counters enter, with any value; so do the book's refusals.              *)
(***************************************************************************)
EXTENDS MoldFeed, TLC

VARIABLES phase,        \* "options", "replay" or "exited"
          options,      \* config, input, format, threaded and pcap_filter
          rejected,     \* result.book.rejected
          exit_status
mainvars == <<vars, phase, options, rejected, exit_status>>

(* A number is one that std::stoull() refuses, or one it returns: zero, in *)
(* or out of the range of the option's use.                                *)
Numbers == {"no number", "zero", "in range", "beyond"}
Ports == {"source_port", "destination_port"}
Capacities == {"max_orders", "max_levels", "latency_samples"}
Arguments ==
    LET values == [input |-> {"", "file"}, symbol |-> {"", "symbol", "nine characters"},
                   format |-> {"itch", "pcap", "pcapng", "else"},
                   sample_every |-> Numbers, threaded |-> {"yes"}, benchmark |-> {"yes"},
                   help |-> {"yes"}, unknown |-> {"yes"}]
                  @@ [o \in Ports \cup Capacities |-> Numbers]
    IN  UNION {[option : {o}, value : values[o] \cup {"missing"}] : o \in DOMAIN values}

flags == {"threaded", "benchmark", "help", "unknown"}
refused(a) == \/ a.option = "unknown"
              \/ a.option \notin flags /\ a.value \in {"missing", "no number"}
              \/ a.option \in Ports /\ a.value \in {"zero", "beyond"}

Exit(status_) == phase' = "exited" /\ exit_status' = status_

(* One turn of the loop over argv. *)
ReadOption(a) ==
    /\ phase = "options"
    /\ \/ refused(a) /\ Exit(1) /\ UNCHANGED options
       \/ a.option = "help" /\ Exit(0) /\ UNCHANGED options
       \/ /\ ~refused(a) /\ a.option # "help"
          /\ options' = IF a.option \in DOMAIN options THEN [options EXCEPT ![a.option] = a.value]
                        ELSE options   \* benchmark, sample_every
          /\ UNCHANGED <<phase, exit_status>>
    /\ UNCHANGED <<vars, rejected>>

filtering == \E p \in Ports : options[p] # "zero"
format == IF options.format = "pcapng" THEN "pcap" ELSE options.format

(* What the constructors of the book and of its samples accept. *)
constructs == /\ options.max_orders = "in range" /\ options.max_levels = "in range"
              /\ options.latency_samples # "beyond"
              /\ options.symbol # "nine characters"

(* The checks after the last argument. *)
StartReplay ==
    /\ phase = "options"
    /\ \/ options.input = "" /\ Exit(2)
       \/ /\ options.input # ""
          /\ \/ options.symbol = "" \/ format \notin {"itch", "pcap"}
             \/ format = "itch" /\ filtering
          /\ Exit(1)
       \/ /\ options.input # "" /\ options.symbol # "" /\ format \in {"itch", "pcap"}
          /\ format = "itch" => ~filtering
          /\ phase' = "replay" /\ UNCHANGED exit_status
    /\ UNCHANGED <<vars, options, rejected>>
-----------------------------------------------------------------------------
exit_status_of_ignores_rewinds(decoder, pcap, refusals) ==
    IF \/ decoder.malformed # 0 \/ refusals # 0 \/ pcap.malformed_packets # 0
       \/ pcap.mold_errors # 0 \/ pcap.sequence_gaps # 0
    THEN 1 ELSE 0
exit_status_of(decoder, pcap, refusals) ==
    IF \/ decoder.malformed # 0 \/ refusals # 0 \/ pcap.malformed_packets # 0
       \/ pcap.mold_errors # 0 \/ pcap.sequence_gaps # 0 \/ pcap.sequence_rewinds # 0
    THEN 1 ELSE 0

(* run_pcap(), run_pcap_threaded(): a packet, with what the book makes of  *)
(* its messages ...                                                        *)
ReplayPacket ==
    /\ phase = "replay" /\ format = "pcap" /\ constructs
    /\ Next
    /\ packet'.kind = "filtered" => filtering
    /\ rejected' \in rejected .. rejected + (decoder_stats'.ok - decoder_stats.ok)
    /\ UNCHANGED <<phase, options, exit_status>>
(* ... and the end of the capture. *)
EndOfCapture ==
    /\ phase = "replay" /\ format = "pcap" /\ constructs
    /\ Exit(exit_status_of(decoder_stats, pcap_stats, rejected))
    /\ UNCHANGED <<vars, options, rejected>>

(* run_file(), run_file_threaded() *)
ReplayFile ==
    /\ phase = "replay" /\ format = "itch" /\ constructs
    /\ \E ok, unsupported, malformed \in 0 .. 1 :
          decoder_stats' = [ok |-> ok, unsupported |-> unsupported, malformed |-> malformed]
    /\ rejected' \in 0 .. decoder_stats'.ok
    /\ Exit(exit_status_of(decoder_stats', pcap_stats, rejected'))
    /\ UNCHANGED <<tracker, sequence_valid, pcap_stats, packet, start, log, gapped, rewound,
                   crossed, options>>

(* The catch clause: the file cannot be opened or read, is no capture, or  *)
(* the book cannot be constructed.                                         *)
ReplayThrows ==
    /\ phase = "replay" /\ Exit(1)
    /\ UNCHANGED <<vars, options, rejected>>

MainInit ==
    /\ Init
    /\ phase = "options" /\ rejected = 0 /\ exit_status = 0
    /\ options = [input |-> "", symbol |-> "", format |-> "itch", threaded |-> "no"]
                 @@ [p \in Ports |-> "zero"] @@ [c \in Capacities |-> "in range"]

MainNext == \/ \E a \in Arguments : ReadOption(a)
            \/ StartReplay \/ ReplayPacket \/ EndOfCapture \/ ReplayFile \/ ReplayThrows
MainSpec == MainInit /\ [][MainNext]_mainvars
-----------------------------------------------------------------------------
Parsed(s) == s.ok + s.unsupported + s.malformed
Consecutive == \A i \in DOMAIN log : log[i] = start + i - 1

(* Exit status 0 can be relied on: a replay that ends with it applied all  *)
(* that it parsed; and of a capture it parsed every message that the       *)
(* datagrams announced, in sequence (below the wrap), and lost no packet   *)
(* but those that are not UDP over IPv4 or not selected.                   *)
ExitZeroMeansWhole ==
    phase = "exited" /\ exit_status = 0 =>
        /\ decoder_stats.malformed = 0 /\ rejected = 0
        /\ format = "pcap" => Parsed(decoder_stats) = pcap_stats.mold_messages
        /\ pcap_stats.packets = pcap_stats.skipped_packets + pcap_stats.filtered_packets
                                + pcap_stats.mold_packets
        /\ ~crossed => Consecutive
=============================================================================
