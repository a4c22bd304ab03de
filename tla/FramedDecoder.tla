--------------------------- MODULE FramedDecoder ---------------------------
(***************************************************************************)
(* FramedDecoder and the reading loop of run_file(): a file of frames (a   *)
(* two-byte big-endian length, then that many bytes) read buffer by        *)
(* buffer, so that a frame may be cut at any byte.  A step is one reading  *)
(* of the file, one turn of consume()'s loop, or what follows the loop.    *)
(* The file is not known in advance: a reading returns any bytes, up to    *)
(* MaxBytes in all.                                                        *)
(***************************************************************************)
EXTENDS Integers, Sequences

CONSTANTS Base,         \* a byte is a number below Base
          MaxMessage,   \* max_message_size
          BufferSizes,  \* sizes of run_file()'s buffer
          MaxBytes,     \* bound: length of the file
          Parse(_)      \* parse_message(): one of Outcomes

Outcomes == {"decoded", "unsupported", "malformed"}
ASSUME DecoderAssumption ==
    /\ Base \in Nat \ {0} /\ MaxMessage \in Nat \ {0} /\ MaxBytes \in Nat
    /\ BufferSizes \subseteq Nat \ {0}
    /\ \A n \in 1 .. MaxMessage : \A m \in [1 .. n -> 0 .. Base - 1] : Parse(m) \in Outcomes

VARIABLES buffer,                                            \* the size of the buffer
          input, file, phase,                                \* run_file()
          length_bytes, length_buf, message_buf, expected, used, stats, \* the decoder
          passed, delivered       \* bytes consumed, and messages given to the callback
decoder == <<length_bytes, length_buf, message_buf, expected, used>>
vars == <<buffer, input, file, phase, decoder, stats, passed, delivered>>

Byte == 0 .. Base - 1
Chunks == UNION {[1 .. n -> Byte] : n \in 0 .. buffer}
big_endian(hi, lo) == hi * Base + lo
-----------------------------------------------------------------------------
Init ==
    /\ buffer \in BufferSizes
    /\ input = <<>> /\ file = "good" /\ phase = "reading"
    /\ length_bytes = 0 /\ expected = 0 /\ used = 0
    /\ length_buf = <<0, 0>> /\ message_buf = [i \in 1 .. MaxMessage |-> 0]
    /\ stats = [o \in Outcomes |-> 0]
    /\ passed = <<>> /\ delivered = <<>>

(* input.read() and gcount(): a full buffer, or fewer bytes and the end of *)
(* the file or an error.                                                   *)
read(chunk) ==
    /\ phase = "reading" /\ file = "good"
    /\ Len(passed) + Len(chunk) <= MaxBytes
    /\ file' \in IF Len(chunk) = buffer THEN {"good"} ELSE {"eof", "bad"}
    /\ input' = chunk
    /\ phase' = IF chunk = <<>> THEN "left" ELSE "consuming"
    /\ UNCHANGED <<buffer, decoder, stats, passed, delivered>>

reset == length_bytes' = 0 /\ expected' = 0 /\ used' = 0

(* message_buf after copying the first take bytes to where it is used up to. *)
copy_n_to_start(bytes, take) ==
    [i \in DOMAIN message_buf |-> IF i \in 1 .. take THEN bytes[i] ELSE message_buf[i]]
copy_n(bytes, take) ==
    [i \in DOMAIN message_buf |->
        IF i \in used + 1 .. used + take THEN bytes[i - used] ELSE message_buf[i]]

whole_when_passed(bytes, length) == bytes > length
whole(bytes, length) == bytes = length

(* The part of a turn after the length is known: the bytes that are there  *)
(* are copied, and a message that is whole is parsed.                      *)
copy(from, length, bytes) ==
    LET take    == IF length - used < Len(bytes) THEN length - used ELSE Len(bytes)
        message == SubSeq(copy_n(bytes, take), 1, length)
        result  == Parse(message)
    IN  /\ message_buf' = copy_n(bytes, take)
        /\ input' = SubSeq(bytes, take + 1, Len(bytes))
        /\ passed' = from \o SubSeq(bytes, 1, take)
        /\ IF whole(used + take, length)
           THEN /\ stats' = [stats EXCEPT ![result] = @ + 1]
                /\ delivered' = IF result = "decoded" THEN Append(delivered, message) ELSE delivered
                /\ reset
           ELSE /\ used' = used + take /\ length_bytes' = 2 /\ expected' = length
                /\ UNCHANGED <<stats, delivered>>

Turn == phase = "consuming" /\ input # <<>> /\ UNCHANGED <<buffer, file>>

(* The first byte of a length. *)
consume_first ==
    /\ Turn /\ length_bytes = 0
    /\ length_buf' = [length_buf EXCEPT ![1] = Head(input)]
    /\ length_bytes' = 1
    /\ input' = Tail(input) /\ passed' = Append(passed, Head(input))
    /\ UNCHANGED <<phase, message_buf, expected, used, stats, delivered>>

(* Its second byte: the length is refused, or the copy starts at once. *)
good_length_too_long(length) == length # 0 /\ length <= MaxMessage + 1
good_length(length) == length # 0 /\ length <= MaxMessage

consume_second ==
    LET length == big_endian(length_buf[1], Head(input))
    IN  /\ Turn /\ length_bytes = 1
        /\ length_buf' = [length_buf EXCEPT ![2] = Head(input)]
        /\ IF good_length(length)
           THEN copy(Append(passed, Head(input)), length, Tail(input)) /\ UNCHANGED phase
           ELSE /\ stats' = [stats EXCEPT !["malformed"] = @ + 1]
                /\ reset
                /\ phase' = "left"     \* consume() returns false
                /\ passed' = Append(passed, Head(input)) /\ input' = Tail(input)
                /\ UNCHANGED <<message_buf, delivered>>

(* A message that a former buffer began. *)
consume_message ==
    /\ Turn /\ length_bytes = 2
    /\ copy(passed, expected, input)
    /\ UNCHANGED <<phase, length_buf>>

(* consume() returns true, and the loop goes on while the file is good. *)
consume_returns ==
    /\ phase = "consuming" /\ input = <<>>
    /\ phase' = IF file = "good" THEN "reading" ELSE "left"
    /\ UNCHANGED <<buffer, input, file, decoder, stats, passed, delivered>>

leave_silently ==
    /\ phase = "left"
    /\ phase' = IF file = "bad" THEN "threw" ELSE "returned"
    /\ UNCHANGED <<buffer, input, file, decoder, stats, passed, delivered>>

(* After the loop: run_file() throws, or calls finish() and returns. *)
leave ==
    /\ phase = "left"
    /\ IF file = "bad" THEN phase' = "threw" /\ UNCHANGED <<decoder, stats>>
       ELSE /\ phase' = "returned"
            /\ IF length_bytes = 0 /\ used = 0 THEN UNCHANGED <<decoder, stats>>
               ELSE /\ stats' = [stats EXCEPT !["malformed"] = @ + 1]
                    /\ reset /\ UNCHANGED <<length_buf, message_buf>>
    /\ UNCHANGED <<buffer, input, file, passed, delivered>>

consume == consume_first \/ consume_second \/ consume_message \/ consume_returns
Next == (\E chunk \in Chunks : read(chunk)) \/ consume \/ leave
Spec == Init /\ [][Next]_vars
FairSpec == Spec /\ WF_vars(Next)
-----------------------------------------------------------------------------
(* The copy stays within message_buf and never past the message, and a     *)
(* length that is still incomplete has no bytes of a message with it.      *)
DecoderInv ==
    /\ input \in Seq(Byte) /\ length_bytes \in 0 .. 2 /\ length_buf \in [1 .. 2 -> Byte]
    /\ message_buf \in [1 .. MaxMessage -> Byte]
    /\ used \in 0 .. MaxMessage /\ expected \in 0 .. MaxMessage
    /\ IF length_bytes = 2
       THEN used < expected /\ expected = Base * length_buf[1] + length_buf[2]
       ELSE used = 0 /\ expected = 0
    /\ phase = "reading" => input = <<>>

(* The frames of a sequence of bytes, read as a whole: the messages that   *)
(* go to the callback, and the count of each outcome, up to the first bad  *)
(* length or up to bytes that make no frame, either being malformed.       *)
Clean  == [delivered |-> <<>>, stats |-> [o \in Outcomes |-> 0]]
Broken == [delivered |-> <<>>, stats |-> [o \in Outcomes |-> IF o = "malformed" THEN 1 ELSE 0]]
Counted(m, more) ==
    [delivered |-> IF Parse(m) = "decoded" THEN <<m>> \o more.delivered ELSE more.delivered,
     stats     |-> [more.stats EXCEPT ![Parse(m)] = @ + 1]]
Frames(b) ==
    LET f[p \in 1 .. Len(b) + 1] ==
          IF p > Len(b) THEN Clean
          ELSE LET n == Base * b[p] + b[p + 1]
               IN  IF p = Len(b) \/ n = 0 \/ n > MaxMessage \/ p + 1 + n > Len(b) THEN Broken
                   ELSE Counted(SubSeq(b, p + 2, p + 1 + n), f[p + 2 + n])
    IN  f[1]

(* Where the file is cut into buffers makes no difference: after every     *)
(* turn, the callback has had exactly the messages that the bytes so far   *)
(* hold, in order, with none of an earlier message's bytes in them.        *)
CutsDoNotMatter == delivered = Frames(passed).delivered

(* The counters of a run that returns: one for each frame, and one more    *)
(* malformed when the file ends within a frame or has a bad length.  After *)
(* a read error the run does not return, so the place of the error is      *)
(* never taken for the end of the file; for nothing else does it throw.    *)
CountsExact ==
    /\ phase = "returned" => file # "bad" /\ stats = Frames(passed).stats
    /\ phase = "threw" => file = "bad"

(* run_file() ends, by returning or by throwing: every turn of consume()   *)
(* takes at least one byte.                                                *)
RunEnds == <>(phase \in {"returned", "threw"})
=============================================================================
