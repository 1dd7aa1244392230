# Formal model of the counter-drone streaming parser

TLA+ models of the server in `src/`, `include/` and `main.cpp` of this
repository, the TLC configurations that check them on small instances, and
TLAPS proofs that establish the most important properties for every value of
the parameters. Paths below are relative to the repository's root; in
`PROJECT.json` they carry the prefix `src/`.

## 1. The system

    drones --TCP--> NetworkListener --DataChunk--> StreamingParser --Telemetry--> BusinessLogic
                          |                              |                             |
                          +------------ log lines -------+-----------------------------+--> AsyncLogger

Four `std::jthread`s, three unbounded `ThreadSafeQueue`s, and `main`, which
polls a flag set by SIGINT and then stops and joins the threads in order.

| Component | State | Operations | What makes it correct |
|---|---|---|---|
| `RingBuffer` | backing array, head, tail, count | `push`, `peek`, `consume`, `clear` (three of them may throw) | it is a FIFO of bytes wherever the end of the array falls |
| wire format, CRC | none | `from_big_endian`, `compute_crc16`, `deserialize_payload` | a drone's telemetry is decoded as it was sent; no read outside the payload |
| `StreamingParser` | `m_clients` (state machine, ring and cached length per descriptor), `m_crc_failures` | `run`, `process_client` | packets found do not depend on how TCP cut the stream; resync never skips a packet; clients are never mixed; the ring never overflows; `process_client` returns |
| `ThreadSafeQueue` | mutex, two condition variables, items | `push`, `pop`, stop tokens | calls are atomic, no wakeup is lost, the bound holds, a stop unblocks |
| `NetworkListener` | server, epoll and event descriptors, client map | `run`, `handle_accept`, `handle_client_data`, `disconnect_client` | chunks in stream order, then one marker; no edge lost, no descriptor leaked, no stale event dispatched; every client served; leaves on a stop |
| `BusinessLogic` | drone table, packet counters, report window | `run`, `check_alerts`, `report_throughput` | the table has the last word of each drone; report windows tile the packets and the time up to the last report; alerts, reports and summary agree |
| `AsyncLogger` | log file | constructor (may throw), `run` (loop, then drain) | no line is lost |
| `main` | `g_shutdown_requested` | launch of the threads, `signal_handler`, ordered shutdown | SIGINT ends the process, and the logger goes last |
| `SocketHandle` | a descriptor | wrap, move, close | each descriptor is closed once |
| command line | port and path | `atoi` | — |

Interaction is only through the queues, the stop tokens, the eventfd and the
descriptor number that tags a chunk. The hard parts are: edge-triggered readiness
and batches of events that earlier events may have made stale, bytes arriving in
arbitrary pieces, corrupt or misleading bytes, descriptor reuse while old chunks
are queued, condition variables with stop tokens, and a shutdown that finds
each thread anywhere. `PROJECT.json` lists these as hazards, each at the line
where it bites, with the properties that watch it.

## 2. Modules

| Module | Models |
|---|---|
| `ByteFifo` | abstract: a bounded FIFO of bytes with four calls and their results |
| `RingBuffer` | `RingBuffer`, call by call; the two `memcpy`s of `push` and `peek` are `Written` and `Copied` |
| `PacketFormat` | constants of `telemetry.h`, the framing tests of `process_client`, `deserialize_payload`; what a reader of a whole byte string finds (`Collected`); how a drone builds a packet (`build_packet` of `tests/drone_load_test.py`) |
| `Crc16` | `compute_crc16`, bit by bit |
| `StreamingParser` | `run` and `process_client`, one action per way through the loop bodies; the listener's side as chunks, markers and descriptor reuse |
| `BlockingQueue` | abstract: a queue whose calls take effect at one moment |
| `ThreadSafeQueue` | `push` and `pop`, one step per lock, wait or look at the token |
| `Listener` | the event loop of `NetworkListener` over an external kernel, one step per system call; `SocketHandle` as ownership of descriptors |
| `BusinessLogic` | `run`, `check_alerts`, `report_throughput`, against a clock |
| `Server` | `main`: launch and shutdown; the four thread loops, the logger's constructor |
| `*_proofs` | theorems about the module of the same name; `ParserDelivery_proofs` continues `StreamingParser_proofs` with isolation and delivery |
| `SequenceLemmas` | what several proofs need: induction over the naturals, counting in a sequence |
| `MC*` | instances for TLC (`Server` needs none: its constants are numbers) |

How they fit: `StreamingParser` uses a ring as a plain sequence of bytes, which
`RingBuffer` is shown to be; it and `Server` use a queue as an atomic one, which
`ThreadSafeQueue` is shown to be. The environment of `StreamingParser` (`Listen`:
accept, chunks, markers, descriptor reuse) is what `Listener` is shown to
produce. `Server` reduces what a thread does with an event, a chunk or a packet
to the number of items and lines that come out of it; `Listener`,
`StreamingParser` and `BusinessLogic` have the insides.

**RingBuffer.** `m_buf`, `m_head`, `m_tail`, `m_count` are the members. `call` and
`result` record the last call and how it ended, so that the refinement
also says what callers see. A call is one step: each ring has one owner.

**StreamingParser.** `m_clients` maps a descriptor to `[state, ring_buffer,
payload_length]` (`scratch_buf` lives within one iteration only). `pc` is the place in
`run`: `while`, `pop`, `process`, `done`. `m_parsed_queue` keeps every record
pushed. `conns` is the environment: each connection's descriptor, stream and
bytes delivered. `history` is auxiliary and read by no action: per `ClientState`,
the bytes pushed into it, how many were consumed, the packets taken and
the connections they came from; the properties compare it with the ring.
A drone (`Peers`) is a byte string and the telemetry it means to send. `DeliversWhatWasSent`
attributes each record of `m_parsed_queue` to a connection: each connection's records are what
its drone sent, in order and without a gap, and all of it once its stream has been handled.
An empty chunk stands for the disconnect marker, as in the code. Lines 93-99 of
`src/streamingParser.cpp` (an exception out of `process_client`) are left out:
each `peek` and `consume` follows a size check that makes it succeed.

**ThreadSafeQueue.** `pc` of a thread: `no call`, `call` (wants the mutex), `wait`
(in the wait, with the mutex: tests its predicate), `asleep`, `woken` (wants the
mutex back), `check` (at line 85), `left`. The parts belonging to the C++
library are modelled from their specification and marked external:
`notify_one`, the internal mutex that makes the wait's look at the token and its
sleep one step, the stop callback that `wait` registers (a `notify_all`), spurious
wakeups, and `request_stop`, whose flag and callback are two steps.
A thread whose call was refused because of its stop calls no more, like
the thread loops of the program.

**Listener.** `m_clients` and `m_queue` are the members; `events` is the rest of the
array that `epoll_wait` filled, its head the event being handled; `pc` is the
place in `run`: `while`, `epoll_wait`, `dispatch`, `accept` (in the loop of
`handle_accept`), `recv` (in the loop of `handle_client_data`), `done`. The kernel is
external: `backlog`, the sockets in `conns` (receive buffer, bytes the peer has
not sent yet, how the peer ended it) and `ready`, epoll's FIFO ready list. A
descriptor is listed when something happens to it; `epoll_wait` takes the first
ones that still have an event, an edge-triggered one leaves the list, a level-triggered
one goes to its end. `EPOLLERR` or `EPOLLHUP` is reported after a reset; a FIN
alone gives `EPOLLIN` and a `recv` of 0, since the server never shuts down its own
side. The peer, the kernel and other threads may act between any two system
calls. `accept` fails when all of `Fd` is open, or at any moment as an incident; so
may `set_nonblocking`, `EPOLL_CTL_ADD` and `epoll_wait`. `FeedsTheParser` maps the state
to that of `StreamingParser` (`Seen`) and says that every step is one of `Listen`,
the parser's pop or a stutter. Log lines are left to `Server`.

**BusinessLogic.** The variables are the members, the clock `now`, the parsed
queue, every line this thread has pushed, and `handled`, a history of packets
with the time of their handling. `report_throughput` is a step of its own
because it reads the clock again. A rate is logged as the pair it is the
quotient of.

**Server.** `main` is the place in `main()`, `pc` the place of each thread;
`raw_queue` and `parsed_queue` are counts; `log_queue` holds lines as
`<<thread, kind>>`; `logged` and `written` count lines pushed and written. The
listener's `eventfd` is set by the stop callback (`WakeListener`, or at
registration if the stop came first). One client event produces some chunks
and some lines. `main` opens the log file and launches the threads one by one; SIGINT
may come at any moment of it. A failure there, or a throwing setup in the
listener, ends the process (`terminated`), as an exception leaving `main` or a thread does.

## 3. Runs

| Run | Shows | Bounds |
|---|---|---|
| `ring` | type, head index, refinement of `ByteFifo` | capacity 4, bytes 0..2, all chunks up to 3 bytes and one of 5, requests 0..5: every wrap offset, every throw; about 59 000 states, no bound on the number of calls |
| `parser_one` | framing, resync, decoding, room, termination | six drones with streams of up to about 70 bytes, cut into chunks of 1..5 bytes in every way, at most 2 queued, disconnect and stop at any moment; payload limit 20, fields of 2 bytes, real CRC |
| `parser_clients` | isolation under descriptor reuse and overflow | 2 descriptors, 3 connections, 3 queued chunks, a ring of 4 bytes that chunks of up to 3 overflow; 3.7 million states |
| `queue_unbounded` | refinement, no lost wakeup, progress | 2 producers x 2 pushes, 2 consumers, one stoppable, 1 spurious wakeup |
| `queue_bounded` | bound, refinement, slots used, stop unblocks | one slot, 2 producers, 3 pushes, 1 consumer, every thread stoppable |
| `server` | lines, order, logger last, the process ends | 1 client event, up to 1 chunk, packet and line from each item |
| `listener` | edges, events, descriptors, the chunks' contract, service | 2 descriptors, 3 connections of a drone with 2 bytes, `recv` of 1 byte, batches of 2 events, one incident (a reset, a failing call or the stop), raw queue of 1; 370 000 states |
| `business` | table, windows, log | 3 packets out of 4 samples of two drones, clock 0..5, interval 2; 724 000 states |
| `parser_stalled`, `queue_forgotten`, `server_goodbye`, `listener_flood` | one disagreement each, see section 4 | smallest instance that shows it |

Why the bounds are enough. In `ring` the state space is closed under calls: it covers all
histories of a ring of 4. In `parser_one` a chunk of 1..5 bytes cuts a stream at every
position and can span the end of one packet and the start of the next; the ring has the least
capacity that `RoomForEveryChunk` allows, so an off-by-one there shows up.
The drones contain a header inside a payload, lengths 0, 20, 21 and 43605, a
doubled header byte, a false header that swallows a real packet, and payloads cut in
each place `deserialize_payload` checks. TLC also evaluates
that the good packets are what `build_packet` makes of their telemetry (`PacketsAreBuilt`).
In the queue runs two threads on each
side are the smallest number where a wakeup can reach the wrong one. In `server`
one event, alone in its batch or followed by the shutdown event, sends one item down the whole pipeline, with a line from
each thread: each thread can be stopped before, while and after it has
something to do. In `listener` three connections on two descriptors reach both
reuse of a descriptor within a batch and an `accept` for want of descriptors; two
bytes read one at a time, on one connection or two, leave something in the buffer
at every point of the loops; the third ready descriptor (two clients and the
server socket) does not fit in a batch of two. In `business` the clock can pass
two whole windows, hit the end of one exactly, or move between a packet and
its report.
Where several threads may simply have nothing left to do, or a bound on
pushes, events or connections ends a behaviour, deadlock is not checked; the
liveness properties state what must not get stuck. `ring` checks deadlock.

Every property has at least one mutated form of a definition (the definitions
named `X_Y`, next to `X`) under which TLC finds it violated.

**Fairness.** Weak fairness of each thread's steps: the scheduler runs a thread
that can run, and a mutex is handed on. In `StreamingParser` it is weak fairness
of `run`; in `Listener` of `run` and of the parser's pop (the raw queue's bound is the
model's, and must not block for ever); in `ThreadSafeQueue` of each thread's `push` or `pop`, of relocking,
and of callbacks that `request_stop` has begun to run; in `Server` of each thread
and of `main`. Nothing is asked of drones, of the kernel beyond reporting a readable
eventfd, of signals, of spurious wakeups, or of anyone requesting a stop. A signal may
interrupt `epoll_wait` any number of times after SIGINT.

## 4. Where the code and its documentation disagree

* **A packet can be lost at a disconnect** (`parser_stalled`). After a false `AA 55` with
  a plausible length the parser waits for that many bytes; a disconnect erases the ring,
  with the real packets that arrived behind it. README.md:263 says "never skips valid data".
  While the connection lives, `NeverSkips` holds, and is proved.
* **A wakeup for a free slot can be forgotten** (`queue_forgotten`). In bounded mode a
  producer that was woken and then sees its stop at line 85 keeps the wakeup; another
  producer sleeps on beside a free slot, against `include/threadSafeQueue.h:40`. The
  program uses unbounded queues only. As long as no producer is stopped every slot is
  used (`EverySlotHasATaker` and `SlotsAreUsed` in `queue_bounded`).
* **The listener may leave silently** (`server_goodbye`). If the loop condition sees the stop
  before `epoll_wait` reports the eventfd, the final line that `src/main.cpp:112` and
  README.md:162 promise is not pushed.
* **A flood holds up the shutdown** (`listener_flood`). The `recv` loop ends only when the socket
  is empty. A drone that always has sent more by then keeps the listener there, the eventfd
  unread and `main` in its join, against the "instant, deadlock-free graceful shutdown" of
  `include/listener.h:84`. With drones that pause, `ClientsAreServed` holds; `ShutdownCompletes`
  in `server` accordingly counts a finite number of chunks per event.

Noted in passing, without a run: a malformed payload with a right CRC counts as a CRC
failure (`src/streamingParser.cpp:217`; `include/streamingParser.h:48` speaks of CRC failures); a
throughput report is only considered with a packet, so "every 5 seconds" (README.md:39)
holds while packets arrive; chunks and packets still queued when a thread is stopped
are not processed (the log lines are); `main` prints "[Main] All threads joined. Goodbye."
itself (`src/main.cpp:132`) after it asked the logger to stop but before the logger is joined
by its destructor, so that line may come before the summaries that the logger still has to
write, although README.md:165 shows it last.

## 5. Proofs

All theorems hold for every value of the constants that satisfies the named
assumptions (`RingAssumption`, `PacketAssumption`, `ParserAssumption`,
`QueueAssumption`, `ListenerAssumption`, `LogicAssumption`, `ServerAssumption`),
which TLC evaluates on each run. They give the types of the
constants, and that the sets of threads of a queue are finite, that drones have something to
send, and that the buffers have a size. Some theorems have a hypothesis besides: `NoOverflow` and
the two on delivery the capacity, `ListenerFeedsTheParser` that no drone repeats its stream for
ever (`Endless = {}`), and those on delivery one about the drones, given below. Every invariant below was
checked by TLC before it was proved.

* **RingBuffer_proofs.** `TypeCorrect`, `HeadCorrect`, and `Refinement: Spec => FifoSpec`.
  The type invariant is inductive; `HeadFollowsContents` is inductive relative to it, by
  arithmetic on `%`. The refinement needs both: without the head equation a push would
  write over unread bytes. Lemmas say what `Written` and `Copied` hold at each
  index modulo the capacity, and each call is then a step of `ByteFifo` under
  `fifo <- Contents`.
* **StreamingParser_proofs.** `TypeCorrect`; `ClientsCorrect`, the inductive invariant
  `ClientsInv` that ties each ring to its history: the ring is what was pushed and not
  consumed, the cached length is fresh, every consumed offset is accounted for, and what was
  taken is disjoint packets. The parts need each other: that a consumed byte starts no
  packet follows from the cached length being that of the front, and "no packet
  here" survives later chunks because it only speaks of bytes already there (lemmas on
  `NoPacketAt` and `PacketAt` under appending). From it `LengthsStayFresh`,
  `SkipsNothing`, `TakesOnlyPackets`. `NoOverflow` adds that an idle ring holds less than a
  packet, under `Capacity >= RECV_BUF_SIZE + PacketSize(MAX_PAYLOAD_SIZE) - 1`; the code
  has 65536 >= 4096 + 262 - 1. The checksum is an arbitrary function.
  `CutsDoNotMatter` is `FragmentationIndependent`: the packets taken are those of
  `PacketsIn`, a reader of the whole string. No further invariant is needed. `ClientsInv`
  leaves only one set of packets possible: going up the string, each offset outside a taken
  packet starts none (`ReaderFollows`, by induction on the distance to the end), and an idle
  ring is too short to decide (`IdleUndecided`), which is where the reader stops too.
  `PacketsIn` reads off a recursive function, `Collected`; that it satisfies its recursion is proved
  first (`CollectedReads`).
  `PassesAlwaysAdvance` is the action property `PassesAdvance`, the part of `ProcessReturns` that
  needs no fairness: three times the bytes in the ring plus the states still to go through
  falls with every pass of the loop that does not return, and only the parser thread changes it.
* **ParserDelivery_proofs, isolation.** `IsolationCorrect` and `ClientsAreIsolated`. `Isolation` speaks of the
  connection a `ClientState` came from; to be inductive it needs the queue.
  `InTurn`: the connections of one descriptor wait in order, each with nothing behind its
  marker, and a closed connection's marker is there. `Owned`: the connection whose
  bytes a `ClientState` has is not ended yet, and no earlier one on its descriptor is queued.
  `Delivered`: each place of the queue stands for an offset of the connection's
  stream, and the bytes pushed end at the offset of the front. The last part also holds across an
  overflow, where the code drops the `ClientState` and starts afresh in mid-stream.
* **ParserDelivery_proofs, delivery.** `TelemetryIsDelivered`: `DeliversWhatWasSent` for any number of
  connections, under the capacity of `NoOverflow` and `SentIsRead`, that a drone means to send what a
  reader of its whole stream finds (`TelemetryIn`); the stream may hold noise, false headers, damaged
  and malformed packets, as those of the drones of `parser_one` do. The capacity is needed: after an overflow the code resumes in mid-stream.
  The inductive invariant `DeliveryInv` has two parts. `Whole`, for each connection: the bytes pushed for
  it are a prefix of its stream that ends where the queued chunks go on. `Attributed`, for some attribution
  of the records to connections: what the reader finds from the parser's place in the stream on is
  what is still missing of the drone's telemetry; so a step of `process_client` is a step of the reader,
  resynchronisations included. Both also say that a connection no `ClientState` has bytes of, and whose
  marker is still to come, stands at the start with nothing delivered (`Unseen`): a reused descriptor
  inherits neither place nor share. The steps rest on verdicts about a prefix being
  verdicts about the stream (`PrefixVerdicts`).
* **ParserDelivery_proofs, round trip.** `RoundTrip`: for any telemetry that fits into a packet, any
  field width and any checksum of 16 bits, what the reader finds in packets of `build_packet` one after the other
  is their telemetry. `deserialize_payload` undoes `serialize_payload` field by field
  (`PayloadReads`), a built packet passes the header, length and CRC tests wherever it stands
  (`PlacedReads`), and the reader goes from packet to packet (induction from the
  end). So headers inside payloads do no harm as long as the reader is in step.
  `BuiltPacketsAreDelivered` joins the two: drones that send what `build_packet` builds need no
  further assumption.
* **ThreadSafeQueue_proofs.** `QueueCorrect`: the inductive invariant `QueueInv` is the type
  invariant, mutual exclusion, "a producer at line 85 still has the room it saw", "the
  threads asleep are exactly those registered on a condition variable", and the bound. From it `NeverOverfull`
  and `Refinement: Spec => QueueSpec` (the abstract queue is a safety specification; a call
  takes effect at its last step under the mutex). `ItemsHaveTakers` and `SlotsHaveTakers`, that
  no wakeup is lost, are inductive relative to `QueueInv`: they compare two cardinalities, and
  each step adds or removes at most one item and one thread on its way.
* **Listener_proofs.** `ListenerCorrect`: `ListenerInv` joins the type invariant, `NoEdgeLost`,
  `EventsAreCurrent` and `EveryFdOwned` with `OpenIsLast` (a descriptor's open connection is the
  last that had it), `ReadyIsCurrent` (epoll lists a descriptor once, and no closed one),
  `FailedAreReset` and `Handling` (the event at hand for each place in `run`). They are
  needed together: an event stays current because each descriptor occurs once in the batch,
  which it does because it occurs once in the ready list; and an accepted descriptor cannot
  meet an event of its predecessor because events are of open descriptors. From it `EdgesAreKept`,
  `EventsStayCurrent`, `FdsAreOwned`, and the action property `ClosesReadAll`. `ListenerFeedsTheParser` is
  the refinement: with `StreamsInOrder` (what is not received yet is the end of the peer's
  stream) every step is one of `Listen` of `StreamingParser`, the parser's pop, or
  a stutter. So the environment for which the parser's theorems hold is the one
  the listener provides.
* **BusinessLogic_proofs.** `TypeCorrect` from `CoreInv` (types, counters agree with the
  packets handled, nothing before the start). `TableCorrect` is inductive relative to it. `WindowsInTime` from
  `InTime` (every packet but the one whose report is due came before the open window
  was over). `WindowsAreAdjacent` from `OpenWindow` (the open window begins where the
  last report ended): each packet up to the last report is counted in exactly one window; the
  later ones are in the open window, which a stop leaves unreported (the summary's total
  has them). `LogAgrees` from `AlertsSoFar` (the log holds
  as many alerts as the handled packets call for) and `Totals` (no line speaks of more packets
  than were handled), so that alerts of later packets do not disturb earlier lines.
* **Server_proofs.** `ServerCorrect`: `ServerInv` is the type invariant, `Joined` (what `main`
  has passed in its sequence of joins is done) and `LoggerWaits` (the logger drains only once
  everyone else is done). From it `LoggerIsLast`. `LinesCorrect` adds `LinesInv`: lines pushed
  are lines written plus lines queued, for each line (`Accounted`); who is stopped when; a summary is pushed
  once, by the step that ends its thread; nothing is queued behind the business logic's. From it
  `LinesAreWritten` (`NoLineLost`) and the action property `SummariesEndTheLog`.

Induction. The library's induction theorems take an operator, which the provers cannot
instantiate. `SequenceLemmas!Induction` is about a set of numbers instead, proved from the
least number of its complement (`LeastNumber`, from the well-foundedness of `<`): a predicate
is made a set by a comprehension. That is enough for counting (`Count`), for `Collected` and for the round trip.

Only model-checked: liveness (`ProcessReturns`, `StopEnds`, `ItemsTaken`,
`StopUnblocks`, `SlotsAreUsed`, `ShutdownCompletes`, `ClientsAreServed`,
`ConnectionsAreAccepted`), which needs fairness and `ENABLED`; and that `Crc16` is
CRC-16/MODBUS, which is evaluated on the known answer. Every invariant and every action
property that a passing run checks is proved.

## 6. Not modelled

Wording and formatting of log lines; the lines `main` prints to the terminal itself, which do
not pass the logger, so that `EndsWithSummaries` is about what the logger writes; write errors of the log's two sinks; the
command line (a port outside 0..65535 is cut to 16 bits at `src/main.cpp:72`);
allocation failure; the counters' 64-bit wrap; a `NaN` in a threshold
comparison; `SocketHandle::release` (never called), its move assignment and
`reset` (used once for each descriptor of the setup); the single socket options and bind
calls of the setup (in `Server` it succeeds or throws); the load test but for its
`build_packet`, and the build.

## 7. Plan

Done, in this order: RingBuffer with its refinement and proofs; the wire format and the parser
with its proofs; the queue with its refinement and proofs; the program's shutdown with
its proofs; the listener and its refinement; the business logic; the start of the program; then the
proofs of the queue's wakeups, the log's lines, the business logic, the listener with its
refinement, isolation and independence of fragmentation; at last delivery, the round trip with
`build_packet`, and the progress of `process_client`.

Left: only the liveness properties are without a proof.
