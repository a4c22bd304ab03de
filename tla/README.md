# Stock-Data-Engine: TLA+ models, model checking and proofs

The program replays NASDAQ TotalView-ITCH feeds into a single-symbol order book. Input is a framed
file or a packet capture (Ethernet / IPv4 / UDP / MoldUDP64); decoding and book run in one thread,
or in two threads with a lock-free single-producer single-consumer ring between them. This directory
holds TLA+ modules translated from the C++ source, TLC configurations that check them on small
instances, and TLAPS proofs of the results that hold for every size.

Run a model with `tlc -config MCx.cfg MCx`, check a proof with `tlapm xProofs.tla`.

## Inventory

| Component (source) | State | Operations | What is hard | What makes it correct |
|---|---|---|---|---|
| Order book (`src/order_book.cpp`, `order_book.hpp`) | order pool, level pool, free lists, per-level queues, statistics | `add`, `execute`, `cancel`, `erase`, `replace`, `process` | long sequences of legal calls at full pools; a later step of several failing; slots reused | no slot leaks; lookup, index, queues and totals agree; an error changes nothing; time priority |
| Id lookup (same file) | open-addressing table | `lookup_find`, `lookup_insert`, `lookup_erase` | backward-shift deletion over chains that wrap; a loop that ends only at an empty slot | answers like a dictionary; never full; loops end |
| Price level trees (same file) | two AVL trees over one pool | `level_find`, `level_get_or_add`, `level_remove`, `extreme`, `depth`, `best_bid`, `best_ask` | deletion with two children, double rotations, walks by parent links; loops that follow links while the tree changes | search order, balance, no level moves slots, `depth` in price order, loops end |
| SPSC ring (`queue/spsc_ring.hpp`) | slots and two atomic counters | `try_push`, `try_pop`, `empty`, `size` | stale loads, release/acquire, counters that wrap | no data race, FIFO, capacity, delivery |
| Threaded replay (`src/replay.cpp`, `src/pcap.cpp`) | ring, `producer_done`, producer's error | two threads | end of feed against a ring not yet empty; producer failing; both spinning | nothing lost, errors reach the caller, the call ends |
| MoldUDP64 (`moldudp64.hpp`, `.cpp`, `decode_capture`) | session, expected sequence, validity, counters | `decode`, `observe`, the gate | datagrams lost, repeated, reordered, overlapping, malformed | a prefix of the session reaches the book, nothing twice, datagrams whole or not at all |
| File framing (`itch/parser.hpp`, `run_file`) | partial length and message | `consume`, `finish`, the read loop | frames cut at any byte; a bad length; I/O error against end of file | independent of where the file is cut; buffer bounds; exact counters |
| ITCH parsing (`src/parser.cpp`) | the Reader's position | `expected_message_length`, `parse_message` | 22 layouts, read without bounds checks behind one length check | no read outside the message, every byte used |
| Capture reader (`src/pcap.cpp`) | stream, byte order, interfaces, `block_` | constructor, `next` | lengths claimed by the file, padding, sections, byte order | exactly the captured packets, `block_` never overrun |
| UDP extraction and filter (`src/pcap.cpp`, `pcap.hpp`) | none | `extract_udp_payload`, `matches` | VLAN tags, options, padding, unsigned subtractions | exactly the datagram's payload, no read outside the packet |
| Command line (`src/main.cpp`) | options, counters | options, checks, dispatch, exit status | an exit status over everything that may go wrong before | status 0 only for a complete replay |
| Feed generator (`tools/generate_feed.cpp`) | message count, next id | two workloads | what a long feed leaves in the book | replays without a refusal |
| Statistics, benchmarks, fuzz target | samples | | | |

The book is driven by `process_message`, called from the read loop, from `decode_capture`'s callback
or from the consumer thread. The ring and the atomic `producer_done` are all that two threads share while both run; the other
variables the producer writes (decoder and capture counters, its error) are read after `join`.

## Modules

* **OrderBook** holds the book as a record (`book`) and one operator per C++ function, from book to
  book, in the order of the C++ statements; `process()` is one action per kind of message. The free
  lists are the sequences that `free_next` threads through the pools. Lookup and price index are
  dictionaries here; LookupTable and LevelTree show that the hash table and the trees behave so.
* **BookSpec** is what the book promises: FIFO queues per side and price, limits, an answer per
  message. `OrderBook!ImplementsBookSpec` is the refinement; the mapping walks each level's list.
* **LookupTable** runs the shift loop one slot per step. The hash is a constant function (any
  function), because nothing in the code depends on which one it is; `tombstone` is never assigned
  by the program and is left out. `dict` is the dictionary the table stands for.
* **LevelTree** takes every loop of the AVL code (the searches, the descent to the new leaf,
  `rebalance_up`, the successor, `extreme`, the climb of `depth`) one iteration per step; `pc` is the
  loop that the call is in and `at` the level it has come to. `tree` holds the pool member by member
  with the free list and both roots. The members `left` and `right` are `child["left"]` and
  `child["right"]`, so that the mirrored halves of the code are one operator with a direction. `index`
  is the slot that the orders of a side and price have as their level, `fresh` a level acquired and not
  yet in the tree.
* **SpscRing** has one action per access to memory. Atomic loads of the other thread's counter return
  any value from the one read last to the newest; an acquire load makes the earlier writes visible,
  which is what `tail_acquired` and `head_acquired` record. The storage accesses are plain, and
  `NoDataRace` says that the happens-before order covers each pair. A moved-from slot may keep its
  value or not.
* **ThreadedReplay** extends SpscRing with both threads of `run_file_threaded()` and of the threaded
  branch of `run_pcap_impl()`, which have the same structure: the two conditions of the loop are
  separate loads, failure of the producer is possible before every message.
* **MoldFeed** takes any packet at each step: one turned away by `extract_udp_payload` or the filter,
  one shorter than the header, or a datagram whose lengths, body and count need not agree. `log`
  records the sequence numbers dispatched; they wrap at `Wrap`, which stands for 2^64, and `crossed`
  says that a datagram of the session reached the wrap.
* **FramedDecoder** is the read loop with `consume()`'s loop turn by turn; bytes are digits below
  `Base`, lengths two of them, big-endian.
* **CaptureReader** takes any item at each step: a PCAP header or record, or a PCAP-NG block, with
  whatever lengths, trailing length and fields are written in it, and `left`, what the file still
  has. A field read in the wrong byte order is its byte-swapped value. `declared` is what the file's
  section declares, kept apart from the reader's `interfaces`; `Sound`, `Size` and `Content` define
  from it what a reader of the formats has to deliver. `taken`, `filled` and `used` are the bytes
  taken from the file, put into `block_` and looked at.
* **PacketExtract** is `extract_udp_payload()` layer by layer (link, IPv4, UDP) for a packet (`frame`) given by
  the fields the code reads and by its size. Differences of sizes wrap at `SizeRange`,
  the range of `size_t`. `reach` is how far the code looked. Its verdict, `kind`, is what MoldFeed's packets start from.
* **ItchParser** has the length table and the list of reads of every message type, executed one
  field per step, as well as the layout in which `generate_feed` writes. Its verdict is MoldFeed's
  and FramedDecoder's parameter for what a message parses to.
* **FeedGenerator** extends OrderBook: each message of a workload is replayed as it is written.
  `RoomAssumption` says how large a book the workloads need.
* **CommandLine** extends MoldFeed: options one argument at a time, the checks, a capture packet by
  packet or an ITCH file as a whole, any exception, and the exit status from the counters.

`PROJECT.json` maps each definition to its lines. Operators whose names carry a suffix, such as
`append_in_front` or `LoadDone_relaxed`, stand before the definition they alter: they are plausible
bugs, each with a property that TLC finds violated when the altered form is used.

## Runs

| Run | Instance | Shows |
|---|---|---|
| `book` | 3 orders, 2 levels, 4 ids, 2 prices per side, quantities 0..2, a foreign stock | PoolsExact, LookupExact, IndexExact, QueuesLinked, TotalsExact; ErrorsChangeNothing; ImplementsBookSpec |
| `lookup` | pool of 4, table of 9, 6 ids with homes around the end of the table | FindExact, NeverFull; ShiftEnds |
| `levels` | 9 prices on one side, 1 on the other, 9 levels, outputs of 1, 4 and 10 | PoolExact, FindExact, Balanced, DepthExact; LoopsEnd |
| `threaded` | ring of 4, counters modulo 8, 17 messages | NoDataRace, Fifo, SizeWithinCapacity; InFeedOrder, NothingLost, ErrorsReachCaller; CallEnds |
| `framing` | files up to 8 bytes, messages up to 3, buffers of 1, 2, 3 and 5 bytes | DecoderInv, CutsDoNotMatter, CountsExact; RunEnds |
| `capture` | packets of at most 8 bytes, up to 3 interfaces per section, block lengths around every minimum and limit | CaptureExact, BlockBounds |
| `packets` | up to 2 VLAN tags, IPv4 headers of 4 to 6 words, sizes around every boundary | PayloadExact, ReadsInPacket |
| `parser` | all 22 types and an unknown one, every length, good and bad sides | ReadsExact, GeneratedMessagesParse |
| `generator` | both workloads with the tool's own numbers, a book of 60 orders | FeedReplaysClean |
| `main` | every option; 2 sessions, sequences 1..4 modulo 6, up to 2 messages of length 0..2 | BookGetsPrefix, NeverTwice, NoSilentLoss; GapHoldsBook, Transactional; ExitZeroMeansWhole |

Two more runs show that the code does not do what a document or a test says; TLC stops with the
violation, and `findings` in `PROJECT.json` quotes both sides.

| Run | Violated | What happens |
|---|---|---|
| `capture_nosnap` | SimplePacketsRead | an interface without a snap-length limit declares 0; its simple packets come out empty |
| `parser_halt` | HaltReadToItsEnd | the market code of an Operational Halt is taken for its action, the last byte is never read |

`capture` gives interfaces a snap length other than 0, and ReadsExact makes an exception of the
halt, so that the rest of both components is checked.

Two observations need no run of their own. By FeedReplaysClean a mixed feed leaves one order per
eight messages in the book; the README's feed of 10,000,000 messages leaves 1,250,000, more than the
default `max_orders` of 1,000,000 with which its threaded example replays it (the first example
passes 1,500,000). The property states the growth; its run keeps the book large enough
(`RoomAssumption`), and that a full book refuses an add without harm is ErrorsChangeNothing. And a
datagram that ends at sequence number 2^64 - 1 makes `packet_end` wrap, so `expected_` stays behind
and a repeat is dispatched again; BookGetsPrefix, NeverTwice and the order part of ExitZeroMeansWhole
are therefore stated for sessions below the wrap (`~crossed`). What does hold at the wrap is
NoSilentLoss: messages may be repeated there, but none is passed over without a reported gap or
rewind.

Why the bounds suffice for the cases named under `hazards`: three orders make a queue with a first,
a middle and a last order, a fourth id hits the full pool, two levels for four (side, price) pairs
exhaust the level pool, and zero and excessive quantities occur. Nine levels allow AVL trees of
height four, single and double rotations that go on to the root, and every deletion case, with the
successor next to the removed level and further down. A ring whose counters wrap more than twice meets
every combination of a wrapped and an unwrapped counter. Two sessions, four sequence numbers and two
messages per datagram give gaps, duplicates, partial overlaps in both directions and returns to an
older session; the sequence numbers also run into the wrap. Eight bytes are two frames cut everywhere, the second after a first one's bytes.
The lengths of `capture` and `packets` lie on both sides of each comparison in the code, and sections
of different byte order follow each other. `generator` uses the tool's own ids, prices and
quantities; its feeds are long enough for every follow-up on both sides and for price levels shared
by several orders, and one of them stops between an add and its follow-up.

Views and symmetry: `book` identifies states with the same book, since counters, last message and
last result do not influence a step; action properties are still evaluated on each step. Ids are only
compared for equality, so they are interchangeable. `levels` identifies trees that differ in the
numbering of slots, on which neither the operations' outcome nor the properties depend. `main` replaces
the counters by the comparisons that the exit status and
ExitZeroMeansWhole make and leaves the last packet out, and `capture` leaves out the item read last and its outcome.

Fairness. `lookup` and `framing` are sequential code: a loop that can go on does. `threaded`
assumes that each thread keeps being scheduled (weak fairness of its steps) and that a store
becomes visible to the other thread's loads in finite time, as C++ asks of implementations: of
infinitely many loads one returns the newest value. Nothing obliges the producer to fail.
Runs whose program ends (`threaded`, `framing`, `capture`, `packets`, `parser`, `generator`, `main`)
turn the deadlock check off.

What the `main` run says about overlaps: `observe()` reports a datagram that starts before the
expected number as a rewind even if it carries new messages; the gate drops all of it, but the
expected number moves past it. The messages after it are then in order and reach the book, so the
book misses the overlap's new messages and only `sequence_rewinds` (and exit status 1) tells. The
repository's documents promise no more than the report, so BookGetsPrefix is stated for a session
without a reported rewind; NeverTwice holds with rewinds, too. ExitZeroMeansWhole is the other half:
a replay that ends with status 0 had no such overlap.

## Proofs

Everything below is for all values of the constants that satisfy the modules' assumptions.

* **OrderBookProofs**: `BookInv(book)` is the inductive invariant. None of TypeOK, PoolsExact,
  LookupExact, IndexExact, QueuesLinked and TotalsExact is inductive alone: an index read from a link
  is in its pool only because links lead to live orders, a count does not go below zero only because
  it counts the orders of the level, and so on, so `BookInv` is all of them with the two counters of
  the pools (`PoolsCounted`) and one thing more. The links alone do not exclude a cycle of orders
  beside the queue; `Ranked` does: there are ages that grow along `next`. Inside a call the book is not
  whole: `Nearly(b, e, z)` is `BookInv` except that level `e` may be without orders, as between
  `level_get_or_add` and `append` and between `unlink` and `remove_if_empty`, and that order `z` may
  have no quantity left, as when `reduce` goes on to erase it. Each private function has its lemma, each call composes them. Results: Invariance,
  TypesHold, PoolsNeverLeak, LookupAlwaysExact, IndexAlwaysExact, QueuesStayLinked,
  TotalsAlwaysExact, ErrorsAreHarmless. The totals are sums over finite sets; what their recursive
  definition computes is proved at the top of the module without an induction rule: a statement that
  fails for some number fails for a least one (`LeastNat`).
* **OrderBookProofs**, the refinement: BookImplements, that the book implements BookSpec. `Lines(b, W)` says that `W`
  has each level's list as a sequence of slots, linked in that order, and nothing else; there is one
  in every state (`InRows`, carried along with `BookInv`), and the mapping that walks the list shows exactly that
  sequence (`FifoShows`, by a least counterexample). Three lemmas say what a call does to the abstract
  queues: an order joins at the end (`QueueJoins`), leaves from wherever it stands (`QueueQuits`), or
  shrinks in place (`QueueShrinks`). That pools are full exactly when the abstract book's limits are
  reached (`OrdersFull`, `LevelsFull`) is a bijection between the places in the queues and the live
  slots, and between the queues that are not empty and the active levels.
* **LevelTreeProofs**: `TreeInv` is the inductive invariant. A statement about a tree is one about
  what lies below a level, which suggests a recursive definition and an induction over the tree. Both
  are avoided: `TreeInv` says that there is an assignment `S` of a set of levels to every level, its
  subtree, of which the links, the search order and the nesting hold locally (`Forest`: `Below`,
  `Linked`, `Ordered`, `Nested`, `Rooted`, `Convex`), and each step is shown to have a new such
  assignment: a rotation changes the sets of two levels (`RotateForest`), a leaf joins the sets of
  those above it (`GrowForest`), a level with at most one child leaves them (`UnhangForest`), and the
  successor takes another level's set (`RenameForest`, `SpliceFacts`). The rest is why one call cannot
  go wrong in the middle. `Heights`: all heights are right and balanced except at the one level `w`
  that `rebalance_up` has come to; its parent still knows it with a height `b`, and its children are
  within one of those it had, on one side (`RebalanceFacts`, over `LowerFacts` for the rotations).
  `CallInv`: where each loop is: the price looked for is below `at` if it is anywhere (`Searching`),
  it belongs below `at` (`Descending`), `at` leads to the next higher price (`Succeeding`), and
  `depth` has written exactly the better prices (`Walked`, `AtExtreme`, `AtWrite`, `AtClimb`).
  `Indexed` relates the trees to the slots that orders hold, `Pool` to the free list. Results:
  TreeInvariance, PoolExactAlways, FindExactAlways, BalancedAlways, DepthExactAlways, LoopsEndAlways.
  The last gives each loop a bound without liveness: every iteration goes to a level of lesser height
  on the way down and of greater height on the way up. Heights are unbounded numbers in the
  model; by Balanced no tree over a pool of 2^31 levels is higher than 44, which `int8_t` holds.
* **LookupTableProofs**: `LoopInv` is the inductive invariant. FindExact alone is not inductive: it
  says nothing about the middle of the shift. What is needed is that each entry's chain has no empty
  slot (`ChainsWhole`), that the slot at the hole is a dead copy (`Held`), and that the entries whose
  chain runs through the hole lie ahead of the scan (`ShiftInv`). That the table is never full follows
  from the pool bound by a pigeonhole argument on cardinalities. Results: LookupInvariant,
  LookupIsExact, LookupNeverFull.
* **ThreadedReplayProofs**, the ring: `RingInv` relates the wrapped counters to the true counts,
  bounds how far the loaded counts lag, and places each item. The arithmetic lemmas (`DistanceExact`,
  `SlotOfCount`, `SlotsDiffer`) need only that the counter range is a multiple of the capacity, at
  least twice it. Results: RingInvariant, RingRaceFree, RingFifo, RingSize. The two threads: every
  step is a step of the ring (`StepUsesRing`), so `RingInv` carries over; `ReplayInv` adds that a
  consumer that has loaded `producer_done` sees every push. Results: ReplayInvariant,
  ReplayInFeedOrder, ReplayLosesNothing, ReplayReportsErrors.
* **CommandLineProofs**: `FeedInv` ties what was dispatched to the tracker: the gate is shut exactly
  since a gap, below the wrap the numbers dispatched rise and the last lies before the expected one
  (`Rising`), and without a rewind they are consecutive from the session's start. `CountInv` ties the counters of the exit status to what
  happened. Together (`MainInv`) they are inductive. NoSilentLoss needs besides it that the first
  message is still expected while none was dispatched (`LossInv`), and the arithmetic of the wrap:
  that counting on from a wrapped number gives the wrapped next one (`WrapNext`). Transactional
  rests on `ValidIffFilled`: the loop of `decode()` finds no fault exactly with a datagram that its
  messages fill to the last byte, because the positions that the loop comes to rise
  (`PositionsRise`). Results: MainInvariance, PrefixReachesBook, DispatchedOnce, GapIsFinal,
  DatagramsAreTransactions, LossIsReported, ExitZeroIsReliable.
* **FramedDecoderProofs**: `DecoderInv` is inductive as it stands (DecoderBufferSafe). That the cuts
  of the file do not matter needs `FrameInv`: from the first byte a trace of marks, one per frame,
  with the messages and counts up to it, leads to the frame that the decoder is in, and the bytes
  behind the last mark are those it holds. More bytes leave a trace as it is (`ReachExtends`), and the
  recursive reading of the whole file agrees with any trace, again by a least counterexample. CountsExact also
  says that a call that ends throws exactly when the file could not be read (`ErrorsThrow`). Results:
  CutsNeverMatter, CountsAlwaysExact.
* **PcapProofs**, the reader: `ReaderInv` says that between two items the reader reads in the byte order
  of the section it is in and has exactly that section's interfaces. There is one lemma per kind of
  block. Results: ReaderInvariance, BlockNeverOverrun, CaptureAlwaysExact. The last has the
  hypothesis that no interface declares the snap length 0, for which `capture_nosnap` shows that the
  simple packets are not read; the bounds hold without it.
* **PcapProofs**, the packets: the packet is decoded in one step, so the invariant is easy (`PacketInv`) and
  the work is in the lemmas about each layer (`LinkFacts`, `Ipv4Facts`, `DatagramFacts`): how far the
  code looks, and that no difference of positions wraps. The scan over VLAN tags is compared with the number of tags that the frame
  has by a least counterexample. Results: PayloadAlwaysExact, ReadsStayInPacket.
* **FeedGeneratorProofs**: `GenInv` is `BookInv` together with where the generator is: in a sequential
  feed (`Sequential`), between two pairs of a mixed one (`Between`), with a follow-up owed (`Owing`),
  or stopped after an add without one (`CutShort`). Each of the four names the ids that the lookup finds
  (`Found`) and the number of orders, `active_orders`, so that no set of ids has to be counted; and
  orders rest only at the generator's 101 prices a side (`OnQuotes`). `AddOutcome`, `ExecuteOutcome`,
  `EraseOutcome`, `DropOutcome` and `ReplaceOutcome` say what a call that is not refused does to both.
  That none is refused needs a free order and a free level: `active_levels` is bounded by the orders
  (`FewLevels`) and by the 202 prices (`FewPrices`). Results: GenInvariance and FeedAlwaysReplaysClean,
  for feeds of any length, under `RoomAssumption`: room for n orders in a sequential feed and for
  (n + 2) / 8 + 1 in a mixed one, rounded down, as many levels or 202, and at most 10^9 adds in a mixed
  feed, beyond which its ids would meet the new ids of its replaced orders. The extra 1 is the order
  that is in the book until its follow-up. `replace()` needs no further order, since it takes the old one
  out first, but it asks for a free level while the old one is still in use.

Only model-checked:

* liveness (ShiftEnds, CallEnds, RunEnds), which needs fairness and ENABLED;
* ItchParser (ReadsExact, GeneratedMessagesParse): its types, layouts and lengths are finite and TLC
  goes through all of them, so a proof would add nothing.

## Not modelled

Latency samples, percentiles, spin counters and timing: arithmetic on clock readings that nothing
else depends on. Text output. `size()` called from a third thread. Values of fields that no decision
depends on. `SequenceTracker::reset()`, which nothing calls. The benchmarks and the fuzz target are
drivers of the parts above. Usage and output errors of `generate_feed` end the tool at once.

## Plan

Done: all modules above, and a theorem for each safety property and action property of the runs except
ItchParser's. The liveness properties and ItchParser's tables stay with TLC.
