--------------------------- MODULE ThreadedReplay ---------------------------
(***************************************************************************)
(* run_file_threaded() and the threaded branch of run_pcap_impl(): a       *)
(* producer thread decodes the feed and pushes every message, spinning     *)
(* while the ring is full; the calling thread pops and processes until the *)
(* producer is done and the ring is empty, joins it, and reports its error.*)
(*                                                                         *)
(* Feed(0), ..., Feed(MaxItems - 1) are the messages the decoder would     *)
(* hand over if nothing failed; applied is what the book has processed.    *)
(***************************************************************************)
EXTENDS SpscRing, Sequences

VARIABLES producer,        \* "decode", "push" (inside the callback), "finish" or "exited"
          producer_done,   \* the atomic flag
          producer_error,  \* producer_error of pcap.cpp, input_error of replay.cpp
          consumer,        \* where the calling thread is
          done_seen,       \* whether its load of producer_done returned true
          applied          \* the messages given to process_message(), in order
replayVars == <<producer, producer_done, producer_error, consumer, done_seen, applied>>
vars == <<ringVars, replayVars>>

Where == {"test_done", "test_empty", "pop", "process", "join", "returned", "threw"}
-----------------------------------------------------------------------------
(* The producer thread. *)
Decode ==
    /\ producer = "decode" /\ pushed < MaxItems
    /\ producer' = "push"
    /\ UNCHANGED <<ringVars, producer_done, producer_error, consumer, done_seen, applied>>

(* while (!try_push(message)) yield: the load decides, a full ring repeats *)
(* it, and the callback returns once the message is published.             *)
PushLoad(t) ==
    /\ producer = "push" /\ try_push_load(t)
    /\ UNCHANGED replayVars
PushStore ==
    /\ producer = "push"
    /\ \/ try_push_write /\ UNCHANGED producer
       \/ try_push_publish /\ producer' = "decode"
    /\ UNCHANGED <<producer_done, producer_error, consumer, done_seen, applied>>

(* An exception out of decode_capture(), or a stream that goes bad. *)
Fail_unflagged ==
    /\ producer = "decode"
    /\ producer_error' = TRUE
    /\ producer' = "exited"
    /\ UNCHANGED <<ringVars, producer_done, consumer, done_seen, applied>>
Fail_swallowed ==
    /\ producer = "decode"
    /\ producer' = "finish"
    /\ UNCHANGED <<ringVars, producer_done, producer_error, consumer, done_seen, applied>>
Fail ==
    /\ producer = "decode"
    /\ producer_error' = TRUE
    /\ producer' = "finish"
    /\ UNCHANGED <<ringVars, producer_done, consumer, done_seen, applied>>

EndOfFeed ==
    /\ producer = "decode" /\ pushed = MaxItems
    /\ producer' = "finish"
    /\ UNCHANGED <<ringVars, producer_done, producer_error, consumer, done_seen, applied>>

StoreDone ==
    /\ producer = "finish"
    /\ producer_done' = TRUE
    /\ producer' = "exited"
    /\ UNCHANGED <<ringVars, producer_error, consumer, done_seen, applied>>

(* The calling thread: the two conditions of the loop, in their order.     *)
(* Loading true synchronizes with the store, so every push is visible.     *)
LoadDone_relaxed(seen) ==
    /\ consumer = "test_done"
    /\ done_seen' = seen
    /\ consumer' = IF seen THEN "test_empty" ELSE "pop"
    /\ UNCHANGED <<ringVars, producer, producer_done, producer_error, applied>>
LoadDone(seen) ==
    /\ consumer = "test_done"
    /\ done_seen' = seen
    /\ IF seen THEN empty_load(pushed) ELSE UNCHANGED ringVars
    /\ consumer' = IF seen THEN "test_empty" ELSE "pop"
    /\ UNCHANGED <<producer, producer_done, producer_error, applied>>

TestEmpty ==
    /\ consumer = "test_empty"
    /\ \E h \in head_acquired .. pushed :
          /\ empty_load(h)
          /\ consumer' = IF consumer_tail_ = h % Wrap THEN "join" ELSE "pop"
    /\ UNCHANGED <<producer, producer_done, producer_error, done_seen, applied>>

(* try_pop(): back to the loop condition if it finds nothing. *)
PopLoad(h) ==
    /\ consumer = "pop" /\ try_pop_load(h)
    /\ consumer' = IF c_pc' = "idle" THEN "test_done" ELSE "pop"
    /\ UNCHANGED <<producer, producer_done, producer_error, done_seen, applied>>
PopTake_without_move ==
    /\ consumer = "pop" /\ c_pc = "read"
    /\ consumer_tail_' = (consumer_tail_ + 1) % Wrap /\ popped' = popped + 1
    /\ c_pc' = "idle" /\ consumer' = "process"
    /\ UNCHANGED <<storage_, producer_head_, p_pc, tail_acquired, head_acquired, output, pushed,
                   producer, producer_done, producer_error, done_seen, applied>>
PopTake ==
    /\ consumer = "pop"
    /\ \/ try_pop_read /\ UNCHANGED consumer
       \/ try_pop_publish /\ consumer' = "process"
    /\ UNCHANGED <<producer, producer_done, producer_error, done_seen, applied>>

Process ==
    /\ consumer = "process"
    /\ applied' = Append(applied, output)
    /\ consumer' = "test_done"
    /\ UNCHANGED <<ringVars, producer, producer_done, producer_error, done_seen>>

Join ==
    /\ consumer = "join" /\ producer = "exited"
    /\ consumer' = IF producer_error THEN "threw" ELSE "returned"
    /\ UNCHANGED <<ringVars, producer, producer_done, producer_error, done_seen, applied>>

Init ==
    /\ RingInit
    /\ producer = "decode" /\ producer_done = FALSE /\ producer_error = FALSE
    /\ consumer = "test_done" /\ done_seen = FALSE /\ applied = <<>>

ProducerStep ==
    \/ Decode \/ Fail \/ EndOfFeed \/ StoreDone \/ PushStore
    \/ \E t \in tail_acquired .. popped : PushLoad(t)
ConsumerStep ==
    \/ \E seen \in {done_seen, producer_done} : LoadDone(seen)
    \/ \E h \in head_acquired .. pushed : PopLoad(h)
    \/ TestEmpty \/ PopTake \/ Process \/ Join

Next == ProducerStep \/ ConsumerStep
Spec == Init /\ [][Next]_vars

(* Both threads are scheduled, and out of infinitely many loads one        *)
(* returns the newest value.  Nothing forces a failure.                    *)
Fairness ==
    /\ WF_vars(Decode \/ EndOfFeed) /\ WF_vars(StoreDone)
    /\ WF_vars(PushStore) /\ SF_vars(PushLoad(popped))
    /\ WF_vars(ConsumerStep)
    /\ SF_vars(LoadDone(producer_done)) /\ SF_vars(PopLoad(pushed))
FairSpec == Spec /\ Fairness
-----------------------------------------------------------------------------
(* Where the two threads are, and what the book got: messages of the feed. *)
TypeOK ==
    /\ producer \in {"decode", "push", "finish", "exited"} /\ consumer \in Where
    /\ producer_done \in BOOLEAN /\ producer_error \in BOOLEAN /\ done_seen \in BOOLEAN
    /\ applied \in Seq({Feed(n) : n \in 0 .. MaxItems - 1})

(* The book gets the messages in the order of the feed, none twice, none   *)
(* left out: at any time what single-threaded replay would have given it.  *)
InFeedOrder == \A i \in 1 .. Len(applied) : applied[i] = Feed(i - 1)

(* The loop ends only when everything the producer pushed is processed:    *)
(* the last messages are not lost between the load of producer_done and    *)
(* the test for an empty ring, and not when the producer failed either.    *)
NothingLost ==
    consumer \in {"join", "returned", "threw"} => /\ producer = "exited"
                                                 /\ Len(applied) = pushed

(* A result is reported exactly for a feed that was replayed to its end; a *)
(* failure in the producer thread reaches the caller.                      *)
ErrorsReachCaller ==
    /\ consumer = "returned" => ~producer_error /\ Len(applied) = MaxItems
    /\ consumer = "threw" => producer_error

(* Behind these: the consumer has processed what it popped, true in        *)
(* producer_done means no more pushes, and a consumer that has loaded it   *)
(* sees them all.                                                          *)
ReplayInv ==
    /\ RingInv /\ TypeOK /\ InFeedOrder
    /\ Len(applied) = IF consumer = "process" THEN popped - 1 ELSE popped
    /\ consumer = "process" => popped >= 1 /\ output = Feed(popped - 1)
    /\ c_pc # "idle" => consumer = "pop"
    /\ p_pc # "idle" => producer = "push"
    /\ producer_done <=> producer = "exited"
    /\ done_seen => producer_done
    /\ consumer = "test_empty" => done_seen /\ head_acquired = pushed
    /\ consumer \in {"join", "returned", "threw"} => producer = "exited" /\ popped = pushed
    /\ producer \in {"finish", "exited"} => producer_error \/ pushed = MaxItems
    /\ producer \in {"decode", "push"} => ~producer_error
    /\ ErrorsReachCaller

(* The call ends, by returning or by throwing, whatever the producer met:  *)
(* neither thread waits for the other for good.                            *)
CallEnds == <>(consumer \in {"returned", "threw"})
=============================================================================
