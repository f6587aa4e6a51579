# A TLA+ model of bilbycast-rist

bilbycast-rist is a RIST Simple Profile stack: RTP media over UDP with
retransmission on request (NACK over RTCP). `rist-protocol` holds the state
machines and the wire formats, `rist-transport` the tasks, threads and sockets
that run them. This directory models both, checks the models with TLC on small
instances, and proves with TLAPS, for every value of the constants, all but two
of the safety properties that the passing runs check.

## The system and its parts

| Part | Source | Model |
|---|---|---|
| Sequence arithmetic | `packet/seq.rs` | `SeqArith` |
| Reorder buffer | `protocol/reorder.rs` | `ReorderBuffer`, `ReorderLoops`, `ReorderStream`, `ReorderPromise`; promise: `JitterBuffer` |
| Receive task: mutex, delivery thread, channel, shutdown | `receiver.rs`, `socket.rs` | `DrainThread` |
| Receive task: sources, slots, names, echoes, NACKs | `receiver.rs`, `guard.rs` | `ReceiverTask`, `PeerHosts`, `Guard` |
| NACK scheduler | `protocol/nack_tracker.rs` | `NackScheduler` |
| Retransmit buffer | `protocol/nack_tracker.rs` | `RetransmitBuffer` |
| Sender task, work budget, feedback peer | `sender.rs`, `guard.rs` | `SenderTask`, `PeerHosts`, `Guard` |
| Loss recovery, both ends and the network | the three above | `Recovery` |
| Receiver report counts | `protocol/rtcp_state.rs` | `RtcpReceiver` |
| Interarrival jitter | `protocol/rtcp_state.rs` | `Jitter` |
| Clocks of the reports | `protocol/rtcp_state.rs`, `sender.rs` | `SenderReports` |
| Round-trip estimation | `protocol/rtt.rs`, both tasks | `RttEstimator` |
| The four above side by side | | `Bookkeeping` |
| Bonding merger | `protocol/bonding.rs` | `BondingMerger`; promise: `FirstArrival` |
| NACK lists | `packet/rtcp_nack.rs` | `NackFormat` |
| RTCP packets and compounds | `packet/rtcp*.rs` | `RtcpCodec`, `RtcpCompound` |
| RTP packets | `packet/rtp.rs`, both tasks | `RtpCodec` |
| Sockets and handles | `channel.rs`, `socket.rs` | `SocketLifecycle` |

A sender numbers packets and keeps the recent ones. The network loses,
duplicates, delays and reorders them. The receive task puts each burst into the
reorder buffer under a mutex, wakes the delivery thread, and tells the NACK
scheduler, whose pump asks the sender for what is missing; the sender answers
from its ring under a work budget. Reports and echoes travel both ways. Both
tasks latch on to a peer and hold on to it while it is live. Closing a socket
sets a token, on which its task returns; the receive task first notifies and
joins the delivery thread.

What makes it hard: numbers, counters and clocks wrap; rings are indexed by
number modulo capacity and slots are reused; an overflow moves the base while
gaps are being flagged; two threads meet at a mutex, a condition variable and a
token set outside the mutex; retries race with late arrivals; peers take over
from each other in the order in which their packets happen to come.

## Modules

* `SeqArith`: u16 arithmetic for any width (`Half` is 2^15 in the code). Packet
  `e` of a stream, an unbounded index that also stands for its payload, carries
  `Wire(e)`. Ghost variables named `e...` are such indices.
* `ReorderBuffer`: the ring as operators on a buffer value. `Insert` is the
  whole of `insert`; its three loops are closed forms there, and turn by turn in
  `ReorderLoops`. `HeadReady` and `DropHead` are one turn of `drain_ready`'s loop.
  `ReorderStream` drives it with a stream.
* `JitterBuffer`: what the buffer promises, without ring, wrap or clock.
  `ReorderPromise` adds to the stream the ghost `far`, which is set by the one
  step with which the promise ends, and states what holds until then.
* `DrainThread`: receive task and delivery thread, one action per step between
  two points where the other thread can interfere. Waiting releases the mutex
  atomically; wake-ups may be spurious. The statistics added after the unlock
  are folded into the insert: they are atomic additions and commute. The ghost
  `due` counts what was inserted and neither flushed, overrun (lost in a far
  step, `reorder.rs:163`) nor taken by the application.
* `NackScheduler`: the gap ring. The code only compares `next_nack_at` with the
  present, so slots keep the time left. The RTT is any value of `Rtts`, zero
  included.
* `SenderTask`, `ReceiverTask`: one action per arm of the `select!` loops.
  Grace periods are counted down; a datagram is a sequence of the sub-packets
  that change state. The hosts are honest, but several, and may fall silent or
  restart. `only`, of `PeerHosts`, is set once one host alone goes on sending.
  `SenderTask`, `SocketLifecycle` and `BondingMerger` prefix the names that
  modules share (`SInit`, `LInit`, `BInit`, ...), so that one module of proofs
  can extend them all.
* `Recovery` extends `NackScheduler` and `RetransmitBuffer` with the network
  between them. An attempt `<<e, k>>` at packet `e` is its k-th NACK and the answer
  to it. Time passes whatever is in flight, so an answer may come after the next
  NACK, or after the packet was given up. Ghosts record the attempts that failed
  (`failed`) and those under way for longer than the round trip the receiver knew
  when it made them, or the floor if it knew none (`late`).
* `RttEstimator`: a request's timestamp is the age of the request it names.
* `RtcpReceiver`: of the reorder buffer only the verdict on a packet counts.
* `SenderReports`: clocks run in nanoseconds (`Second` of them a second), and the
  code's conversions are made as it makes them: microseconds to RTP ticks, the two
  words of an NTP time, their middle 32 bits, and the delay in 2^-16 seconds,
  which saturates. `as_secs_f64() * 65536.0` is exact to the unit until then: a
  time and a multiple of 2^-16 s that differ do so by more than the rounding.
* `Jitter`: the running average is abstracted to the largest deviation fed to
  it, which bounds it.
* `RtcpCodec`, `RtcpCompound`, `RtpCodec`: byte for byte, since what matters is
  that the lengths and bits written are the ones read. `NackFormat`: the entries
  of a NACK, mask or range, and the loops that pack and unpack them. The last
  two are small state machines (`RtpSpec`, `ListSpec`) that `MCDatagrams` extends.
* `Bookkeeping` instantiates `RtcpReceiver`, `Jitter`, `SenderReports` and
  `RttEstimator` in one module, which shares nothing between them.
* `MC*`: values for TLC. `*Proofs`: theorems. `TypeOK` of a module gives the
  types of its variables; proofs use some of them, and the runs spend their time
  on other properties.

Definitions marked "Mutant" are broken variants, used only to show that a
property notices them.

## Runs

| Run | Shows |
|---|---|
| `reorder_stream` | steps up to half the sequence space: the window is sound, delivery in order, nothing reported twice, the closed forms equal the loops; and up to a step over more than a ring into a buffer drained empty, no holes, the fresh packet survives and the promise is kept |
| `drain_thread` | no missed wake-up, order across threads, every packet accounted for |
| `drain_liveness` | every buffered packet is released; shutdown ends, or the thread is parked |
| `nack_scheduler` | no gap hidden or forgotten, nothing received is asked for, retry budget |
| `sender_task` | the ring is exactly the recent packets, the budget is exact, the peer is held and followed, the task ends |
| `receiver_task` | a pinned source is exclusive, live media holds its slots, media and NACK names follow the host that goes on |
| `recovery` | each attempt fails or is given the known round trip before the next one and before giving up; gaps are filled, if late, unless the attempts fail or a ring moves on |
| `bookkeeping` | report counts, jitter, clocks of the reports, round trip |
| `datagrams` | RTCP compounds, NACK lists, RTP packets, bonded paths |
| `socket_lifecycle` | no port outlives a failed opening or its task; a sender's ports are freed on close and on drop |
| `drain_shutdown` (violation) | the shutdown notification can fall between the cancellation check and the untimed wait; the join then never returns |
| `receiver_control` (violation) | after a silence another host's RTCP takes the control slot, and the media that resumes protects it against its own sender |

`bookkeeping` and `datagrams` hold several small components that share no state.
`part`, chosen initially, says which of them a behaviour is of; the others stay
at rest. Each is explored in full, and nothing is claimed about their interplay.

Bounds. The sequence space has 16 numbers (6 or 8 where it only has to wrap or
come round) and rings 2 or 4, which keeps the ratio that matters: a ring is at most a quarter of
the space. Streams begin just below the wrap, cross it, and are several rings
long; jumps go up to half the space. Counters and clocks of 32 bits have 9 or 12
values and are run past their wrap (`JitterBounded` and the loss total speak of
the time before it). The loss total has 2 bits, with three copies of packets at most,
so that it is clamped on both sides; a second has 4 units of time and 3 of the
compact time, so that every conversion rounds, and the clock runs until the delay
field saturates. Hold time 1 tells "just arrived" from "due". Three packets
over a ring of 2 and a channel of 1 overflow both; packets are less than half the
space apart, which the i16 comparison of `insert` presumes. `MaxGap` below the
NACK ring, with jumps beyond it, reaches tracked gaps, skipped gaps and slot
reuse; two retries reach first NACK, retry and give-up. The NACK scheduler runs
until the numbers have come round, in a space of 8, so that a slot can outlive
its number: the ghost `lapped` records it (see Proofs). `Recovery` has five packets,
a floor of 1 and a round trip of 2, gaps of one packet, two attempts, any delay
and any number of losses: attempts succeed, fail, overlap with the next one and
outlast the packet. `SendMedia` of `Recovery`
waits until what is in flight is less than half the space behind, and what is
still asked for less than the whole of it: a stream so fast that a number is used
again while the packet that had it is still asked for is left out. Two hosts
reach takeover and return. `Lifetime` above the request interval lets answers come after the next
request. Compounds of three sub-packets with a limit of two, names of 0 to 255
bytes, the extreme signed counts, and payloads empty, short and too long reach
each limit of the formats. Every list of up to 6 of the 8 numbers around the wrap
is packed, in every order. NACK masks have 2 bits. The bonding window has 4 bits in a space of 16,
with packets up to half the space behind.

Deadlock is checked where the system does not end: not after a socket is closed
(`DrainThread`, `SenderTask`, `SocketLifecycle`), nor where a bounded stream or
list of inputs is used up (`Recovery`, `bookkeeping`, `datagrams`).

Fairness.
* `DrainThread`: both threads are scheduled (weak fairness) and obtain a mutex
  that is released again and again (strong fairness of the two lock
  acquisitions; std's mutex does not promise it, but the holder's sections are
  short). `select!` polls its branches in random order, hence strong fairness of
  the cancelled branch. The clock moves.
* `SenderTask`, `ReceiverTask`: the arms of `select!` run when ready, strongly
  where others compete; time passes; a host that alone goes on sending
  (`Survivors`) does go on, with keep-alives or media, reports and all.
* `Recovery`: the pump's interval and the clock go on, and a datagram does not
  stay in flight for ever: it is delivered or lost.
* `SocketLifecycle`: the runtime polls the tasks.

Nothing is assumed of the application, of spurious wake-ups or of how much the
network loses.

## Where the code departs from its comments

Two departures have runs of their own, above. Modelling met these too; the
property named is what does hold and is checked.

* `reorder.rs:163`: a jump of more than a ring into a buffer just drained empty
  turns the fresh packet's slot into a gap, although the test at 525 says "fresh
  packet must survive overflow" (`WindowWholeBeforeFar`: in every other case).
* `reorder.rs:186`: gaps that an overflow flushes are reported to nobody; lines
  5-6 say missing packets "are reported as lost" (`NoOverReport`: never too many,
  and none unreported without an overflow).
* `reorder.rs:320`: drained empty, `next_drain_time` is the present, so the
  delivery thread goes round without parking until the next insert; line 313
  says it is when "`drain_ready` will produce output".
* `nack_tracker.rs:174`: reusing a slot still active counts the gap it replaces
  for ever; line 110 says the count is of active gaps (`CountCoversActive`: it is
  never too low).
* `nack_tracker.rs:215`: a measured RTT below the floor is the retry delay;
  `receiver.rs:487` says "never below floor" (`RetryBudget`). Nor does the delay
  follow the network: before an echo has been answered the delay is 20 ms, and
  with a round trip of 300 ms and ten retries a packet is given up before the first
  answer can have come (`NoNeedlessNack`, `GivenUpOnlyAfterFailures`: each attempt has at
  least the delay known; `Recovers`: the answer still fills the gap).
* `sender.rs:66`: misses are charged to the scan budget and can use it up before
  a number that hits; `guard.rs:155` says they "cannot starve the ones that hit"
  (`ServedWithinBudget`: within both budgets all are served).
* `receiver.rs:280`: a failing `local_addr` leaves the delivery thread running
  unjoined; line 579 says "no detached thread outlives the socket".
* `receiver.rs:327`: media of a newly admitted host moves the control slot while
  RTCP of its holder is live; `guard.rs:11` says a live slot does not move
  (`SlotsHeld`).
* `receiver.rs:333`: only the first datagram of a burst is asked for its SSRC;
  if it does not parse, a NACK can name 0, which lines 518-520 exclude
  (`NameFollows`).
* `rtcp_state.rs:193`: a copy of a packet already delivered is stale, not
  duplicate, and counted; line 181 says duplicates "must not inflate" the count
  (`ReportIsExact`: those and no others).
* `rtcp_state.rs:218`: the arrival clock saturates after 2^32 ticks (13 hours),
  and transits that straddle the wrap are off by 2^32 (`JitterBounded`).
* `rtcp_state.rs:80`: once the system clock is set the two timestamps of a sender
  report stand for different instants; lines 76-78 say the same (`OneTimeline`:
  RTP stamps are unaffected).
* `rtt.rs:67`: a response is measured against the last request, not the one it
  echoes (`RttIsTrue`: too short, never too long).
* `bonding.rs:76`: after an outage of half the sequence space new packets are
  dropped as late; line 18 says only old ones are (`FirstArrivalWins`: for steps
  of less than half, `Ahead`).
* `rtcp.rs:112`: a wrong version in one sub-packet fails the compound; lines
  121-126 say an error demotes only the sub-packet (`ExtensionsPass`: other
  foreign sub-packets do no harm).
* `receiver.rs:84`: a header extension is delivered as payload; line 94 says
  "header stripped" (`Delivered`; `CodecsAgree` for `RtpPacket::parse`).
* `channel.rs:51`: asked for port 0, RTP gets a port of the system's choice and
  RTCP port 1; line 31 says they are adjacent.

## Proofs

Each theorem below is the property of the same row, which a run checks on a small
instance, for every value of the constants that satisfies the assumptions.

| Module | Theorem: property |
|---|---|
| `ReorderStreamProofs` | `TypeCorrect`, `WindowIsSound`: `WindowSound`, `DeliveryInOrder`: `InOrderDelivery`, `NothingIsOverReported`: `NoOverReport`, `WindowStaysWhole`: `WindowWholeBeforeFar`, `RingKeepsPromise`: `ImplementsPromise`, `ClosedFormsAreTheLoops`: `InsertIsTheLoop` |
| `DrainThreadProofs` | `WakesAreNotMissed`: `NoMissedWake`, `OrderAcrossThreads`: `InOrderAcrossThreads`, `PacketsAreAccountedFor`: `NothingVanishes` |
| `RecoveryProofs` | `CountIsCovering`: `CountCoversActive`, `MissingIsTracked`: `TracksTheMissing`, `BudgetIsKept`: `RetryBudget`, `NoNackIsNeedless`: `NoNeedlessNack`, `GivenUpAfterFailures`: `GivenUpOnlyAfterFailures` |
| `TaskProofs` | `PinIsRespected`: `PinRespected`, `SlotsAreHeld`: `SlotsHeld`, `PeerIsHeld`: `PeerHeld`, `RingIsExact`: `RingIsRecent`, `ServiceWithinBudget`: `ServedWithinBudget`, `MergerKeepsPromise`: `FirstArrivalWins`, `PortsHaveOwners`: `PortsAreOwned` |
| `BookkeepingProofs` | `ReportsAreExact`: `ReportIsExact`, `JitterIsBounded`: `JitterBounded`, `TimelineIsOne`: `OneTimeline`, `DelayIsTold`: `ReportsTellDelay`, `RoundTripIsTrue`: `RttIsTrue`, `RequestsComeInTime`: `RequestsKeepComing` |
| `DatagramProofs` | `ListsAreCarried`: `ListsSurvive`, `PacketsArrive`: `Delivered`, `CodecsMeet`: `CodecsAgree` |

`SeqArithProofs` (remainders; wrapped addition, subtraction and signed comparison
agree with the stream index: `WireAdd`, `WireSubAhead`, `WireSubBehind`,
`DiffIsDistance`; loops, below) and `ReorderBufferProofs` (what `Insert`, `DropHead` and the
flush do to a window) are the lemmas the others stand on.

Assumptions. They are the named `ASSUME`s of the modules, which TLC evaluates on
the instances of the runs.

* Rings divide the sequence space (`CapAssumption`, `NackAssumption`,
  `BondingAssumption`), or the space divides the ring (`RingAssumption`: the
  retransmit buffer may be the larger). In the code both are powers of two, and
  that one power of two divides a larger needs induction; so the assumptions
  state what is used.
* `2 * Cap <= Half` for the reorder ring, 8192 and 32768 in the code. It is
  needed: with a larger ring, a packet exactly half the space past `highest`
  would be stored without moving `highest`. `NCap <= Half` for the NACK ring.
* Arrivals are less than half the space from the base, which is what the i16
  comparison presumes: a guard (`CanArrive`) of the streams, `DrainAssumption`
  on the packets of `DrainThread`, `Ahead < Half` of `BondingMerger`.
* `ReportsAssumption`: a 32-bit word is two halves (`U32 = Short * Short`), and a
  sender report travels for less than the 18 hours (2^16 seconds, less two units)
  that a compact time can tell apart. The delay field is claimed exact until as
  long after the sender report, when it saturates: a condition of the property.

* `NackFormatAssumption`: a mask has at least one bit and fewer than the space has
  numbers, and a list names each number once. `RtpAssumption`: payloads, numbers and streams are
  bytes of the right length, own SSRCs are even (`sender.rs` clears the bit),
  and the read buffer has room for a header with the CSRC words that occur (at
  most 72 bytes of 2048).

The inductive invariants.

* Reorder buffer. `Window(b, B, H)`: base and highest are the numbers of `B` and
  `H`, every payload lies between them in its own slot. `WindowSound` is not
  inductive by itself, since nothing ties the buffer down before the first
  packet; `Inv` adds that it is then new. `InsertWindow` treats stale, reset,
  duplicate and stored packets; `FlushWindow` uses that a payload's slot is as far
  ahead of the base's slot as the packet is ahead of the base. `FInv` adds
  `Whole`, that no slot of the window is empty, which the refinement needs to
  show that an index passed over was not held.
* Delivery thread. `TInv` has the window, who holds the mutex at which point of
  the two programs (`Locks`), that channel, scratch and ring follow each other
  in order (`Flow`), and that a waiting thread waits rightly except while the
  receive task is between an insert and its notification (`WaitsRightly`). The
  step that matters is `DrainWait`: it decides under the mutex.
* NACK scheduler. `NBody`: an active slot is of a packet behind `expected`, in
  its place, with the count that was sent for it; what is flagged missing and not
  a ring behind is tracked, what was received is not. It holds until a slot is
  still active when the numbers have come round (`lapped`): then the slot stands
  for two packets and the properties are not claimed. `CountCoversActive` needs
  no such condition.
* Recovery. `RBody` adds, for each active slot, that the last attempt at its packet
  failed, is late, or is under way and will be late when the slot is due
  (`Awaited`): the slot waits for at least the round trip known at the NACK, and
  time runs for both alike. It also says what the sender's ring holds, that the
  attempts under way are of packets in its reach (`AttemptOK`), and so that an
  answer is the packet asked for. Nothing is assumed of the time the network
  takes. The bound in `SendMedia` keeps `lapped` false.
* Accounting in the delivery thread. `AInv`: `NothingVanishes`, and the thread
  has packets in its hands only while it drains or delivers. Each step moves
  packets between two places of the sum. The insert is the hard one: it may store
  a packet, flush others and overrun itself, and the sets of what is held before
  and after are compared by cardinality.
* Tasks. `GraceRuns`: what is left of the hold-down is the grace period less the
  silence. `SInv`: the slot of a packet is its index modulo the lesser of ring
  and space. `BInv`: `highest_seq` is the newest packet's and its bit is set, so
  that a copy of it is a duplicate. `Exact`: as long as neither budget has run
  out, what was charged is the requests and the hits among the items served so
  far, and what was sent again is what the hits hold. `LInv`: an opening in progress has
  neither RTCP port nor task.
* Bookkeeping. `CountInv`: every counter is that of the stream modulo its width.
  `EchoInv`: the request a message names is no younger than the last one.
  `TimerInv`: time since the request and time to the next turn add up to less
  than the interval and a period. `StampInv`, `DelayInv`, `JitterInv`: what is
  kept is what the clock said when it was kept. `CompactIs`: the middle bits of the
  two words count whole 2^-16 seconds, although the fraction is rounded twice
  (`UpperHalf`); `TimesFollow`: three roundings are two units apart at most.

* Wire formats. Packing numbers into entries, `Mask` and `Span` say what the
  entries built so far name: exactly the numbers added, each once. `FewEntries`
  bounds their count: first numbers of entries are further apart than a mask is
  wide (`Spaced`). `RtpInv`: the datagram in flight is a `Packet` of what was
  meant by it, that is, a header with number and stream, the CSRC words and the
  extension that its first byte announces, then the payload; and what is sent
  again is the sender's copy but for the lowest bit of byte 12.

Loops. `insert`'s three loops, the serving of a datagram and the packing of lists
are recursive functions of the number of turns taken. The provers cannot use
induction theorems over a predicate, so the proofs take the set of turns at which
a claim fails and its least member (`LeastNumber`, `UpTo` of `SeqArithProofs`);
`LoopExists` and `LoopRuns` show that such a function exists and is its equation.

Only model-checked:

* Liveness (`EventuallyReleased`, `ShutdownOrParked`, `Stops`, `PeerFollows`,
  `MediaFollows`, `NameFollows`, `Recovers`, `SenderPortsFreed`) and the two
  violations: fairness and ENABLED are out of the prover's reach.
* `ReadsWhatIsWhole` and `ExtensionsPass`: the codec of RTCP compounds is written
  with the library's folds over byte strings, which take operators as parameters;
  the provers cannot instantiate those.

## Not modelled

* The Main Profile (GRE, DTLS, PSK, tunnel, null deletion), `bonding_task.rs`,
  `listener.rs` and `stats_poller.rs`: stubs without behaviour.
* Statistics, logging and configuration values; the sender's packet and octet
  counts, which are only reported and wrap after 4 GB; `should_send_rtcp`,
  `rttvar` and `nack_delay`, which nothing reads.
* Panics of debug builds on overflow (the port after 65535, the counts): the
  models wrap, as release builds do.
* RTP padding octets, which no parser strips; configured names over 255 bytes,
  whose length byte is truncated. Datagrams longer than the read buffer are cut
  as in the code, and nothing is claimed about their rest.
* A transient error of `recv_from` ends the sender task for good: modelled
  (`Exit`, `SenderFails`), and no document says what should happen instead.
