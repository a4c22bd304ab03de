--------------------------- MODULE MCCommandLine ----------------------------
(* Model-checking instance of CommandLine. *)
EXTENDS CommandLine

MCParse(n) == CASE n = 0 -> "malformed" [] n = 1 -> "ok" [] n = 2 -> "unsupported"

(* During the replay the options matter only through filtering, and the    *)
(* counters only through the facts that the exit status and its property   *)
(* are about.                                                              *)
MainView ==
    <<phase, exit_status, IF phase = "options" THEN options ELSE <<format, filtering, constructs>>,
      tracker, sequence_valid, start, log, gapped, rewound, crossed, rejected > 0,
      exit_status_of(decoder_stats, pcap_stats, 0), decoder_stats.malformed > 0,
      Parsed(decoder_stats) = pcap_stats.mold_messages,
      pcap_stats.packets = pcap_stats.skipped_packets + pcap_stats.filtered_packets
                           + pcap_stats.mold_packets>>
=============================================================================
