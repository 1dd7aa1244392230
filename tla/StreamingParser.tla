--------------------------- MODULE StreamingParser ---------------------------
(***************************************************************************)
(* class StreamingParser (src/streamingParser.cpp): the parser thread's    *)
(* loop, run(), and the three-state machine it drives on one client's      *)
(* bytes, process_client(), one step per iteration of its loop.            *)
(*                                                                         *)
(* A RingBuffer is the byte FIFO that module RingBuffer shows it to be.    *)
(* The listener's side is what reaches the raw queue: chunks of at most    *)
(* RECV_BUF_SIZE bytes in stream order, then an empty chunk, after which   *)
(* the kernel may give the same descriptor to a new connection.            *)
(***************************************************************************)
EXTENDS PacketFormat, FiniteSets

CONSTANTS
  Fd,              \* socket descriptors
  Peers,           \* what a drone may send: [stream, packets]
  RECV_BUF_SIZE,   \* most bytes one recv() returns
  Capacity,        \* of each client's ring buffer
  MaxConnections,  \* bound: connections in a behaviour
  MaxQueue         \* bound: chunks waiting in the raw queue

ASSUME ParserAssumption ==
  /\ \A peer \in Peers : peer.stream \in Seq(Byte)
  /\ RECV_BUF_SIZE \in Nat \ {0}
  /\ Capacity \in Nat \ {0}

VARIABLES
  m_raw_queue,     \* DataChunks: [client_id, data, conn]; conn is history
  m_clients,       \* ClientState per known descriptor
  m_parsed_queue,  \* every Telemetry pushed to the business logic
  m_crc_failures,
  pc,              \* where run() is
  client,          \* the descriptor whose chunk run() is handling
  stop_requested,
  conns,           \* the connections so far: [fd, peer, sent, open]
  history          \* per known descriptor, what its ClientState has seen:
                   \* [pushed, at, taken, from], see Fresh

queues == <<m_raw_queue, m_parsed_queue>>
vars == <<queues, m_clients, m_crc_failures, pc, client, stop_requested, conns, history>>

Least(a, b) == IF a <= b THEN a ELSE b

\* A default-constructed ClientState, and the history that goes with it: the
\* bytes pushed into the ring, how many of them were consumed, the packets
\* taken, and the connections the bytes came from.
NewClient == [state |-> "WAIT_HEADER", ring_buffer |-> << >>, payload_length |-> 0]
Fresh == [pushed |-> << >>, at |-> 0, taken |-> {}, from |-> {}]
Consumed(h, n) == [h EXCEPT !.at = @ + n]
Taken(h, size) == [h EXCEPT !.at = @ + size, !.taken = @ \cup {[at |-> h.at, size |-> size]}]

Without(f, x) == [y \in DOMAIN f \ {x} |-> f[y]]
With(f, x, v) == [y \in DOMAIN f \cup {x} |-> IF y = x THEN v ELSE f[y]]

Init ==
  /\ m_raw_queue = << >>
  /\ m_clients = << >>
  /\ m_parsed_queue = << >>
  /\ m_crc_failures = 0
  /\ pc = "while"
  /\ client \in Fd
  /\ stop_requested = FALSE
  /\ conns = << >>
  /\ history = << >>

-----------------------------------------------------------------------------
(* The listener's side.                                                    *)

parserVars == <<m_clients, m_parsed_queue, m_crc_failures, pc, client, history>>

Accept(fd, peer) ==
  /\ \A c \in 1 .. Len(conns) : conns[c].fd = fd => ~conns[c].open
  /\ conns' = Append(conns, [fd |-> fd, peer |-> peer, sent |-> 0, open |-> TRUE])
  /\ UNCHANGED <<parserVars, m_raw_queue, stop_requested>>

\* One recv() that returned n bytes.
ReceiveChunk(c, n) ==
  /\ conns[c].open
  /\ n <= Len(conns[c].peer.stream) - conns[c].sent
  /\ m_raw_queue' = Append(m_raw_queue,
       [client_id |-> conns[c].fd, conn |-> c,
        data |-> SubSeq(conns[c].peer.stream, conns[c].sent + 1, conns[c].sent + n)])
  /\ conns' = [conns EXCEPT ![c].sent = @ + n]
  /\ UNCHANGED <<parserVars, stop_requested>>

\* The peer closed, or the socket failed: bytes it still had are lost.
Disconnect(c) ==
  /\ conns[c].open
  /\ m_raw_queue' = Append(m_raw_queue, [client_id |-> conns[c].fd, conn |-> c, data |-> << >>])
  /\ conns' = [conns EXCEPT ![c].open = FALSE]
  /\ UNCHANGED <<parserVars, stop_requested>>

RequestStop ==
  /\ ~stop_requested
  /\ stop_requested' = TRUE
  /\ UNCHANGED <<parserVars, m_raw_queue, conns>>

\* What module Listener is shown to do.
Listen ==
  \/ \E fd \in Fd, peer \in Peers : Accept(fd, peer)
  \/ \E c \in 1 .. Len(conns), n \in 1 .. RECV_BUF_SIZE : ReceiveChunk(c, n)
  \/ \E c \in 1 .. Len(conns) : Disconnect(c)

Environment ==
  \/ Listen /\ Len(conns') <= MaxConnections /\ Len(m_raw_queue') <= MaxQueue
  \/ RequestStop

-----------------------------------------------------------------------------
(* run(): the loop around pop.                                             *)

CheckStop ==
  /\ pc = "while"
  /\ pc' = IF stop_requested THEN "done" ELSE "pop"
  /\ UNCHANGED <<queues, m_clients, m_crc_failures, client, stop_requested, conns, history>>

\* Mutated form: pop is called without the stop token and never gives up.
PopStopped_NoToken == FALSE

\* pop returns nullopt.
PopStopped ==
  /\ pc = "pop"
  /\ m_raw_queue = << >>
  /\ stop_requested
  /\ pc' = "done"
  /\ UNCHANGED <<queues, m_clients, m_crc_failures, client, stop_requested, conns, history>>

Chunk == Head(m_raw_queue)

\* The ClientState that m_clients[chunk.client_id] finds or creates.
FoundClient ==
  IF Chunk.client_id \in DOMAIN m_clients THEN m_clients[Chunk.client_id] ELSE NewClient
FoundHistory ==
  IF Chunk.client_id \in DOMAIN m_clients THEN history[Chunk.client_id] ELSE Fresh

\* Mutated form: the end is logged and nothing is erased.
EraseClient_KeepsState ==
  /\ pc' = "while"
  /\ m_raw_queue' = Tail(m_raw_queue)
  /\ UNCHANGED <<m_clients, history, m_parsed_queue, m_crc_failures, client, stop_requested, conns>>

\* pop returned a chunk that ends in client_id being erased.
EraseClient ==
  /\ pc' = "while"
  /\ m_raw_queue' = Tail(m_raw_queue)
  /\ m_clients' = Without(m_clients, Chunk.client_id)
  /\ history' = Without(history, Chunk.client_id)
  /\ UNCHANGED <<m_parsed_queue, m_crc_failures, client, stop_requested, conns>>

PopDisconnect ==
  /\ pc = "pop"
  /\ m_raw_queue # << >>
  /\ Chunk.data = << >>
  /\ EraseClient

\* RingBuffer::push threw std::overflow_error.
PopOverflow ==
  /\ pc = "pop"
  /\ m_raw_queue # << >>
  /\ Chunk.data # << >>
  /\ Len(FoundClient.ring_buffer) + Len(Chunk.data) > Capacity
  /\ EraseClient

PopData ==
  /\ pc = "pop"
  /\ m_raw_queue # << >>
  /\ Chunk.data # << >>
  /\ Len(FoundClient.ring_buffer) + Len(Chunk.data) <= Capacity
  /\ pc' = "process"
  /\ client' = Chunk.client_id
  /\ m_raw_queue' = Tail(m_raw_queue)
  /\ m_clients' = With(m_clients, Chunk.client_id,
                       [FoundClient EXCEPT !.ring_buffer = @ \o Chunk.data])
  /\ history' = With(history, Chunk.client_id,
                     [FoundHistory EXCEPT !.pushed = @ \o Chunk.data,
                                        !.from = @ \cup {Chunk.conn}])
  /\ UNCHANGED <<m_parsed_queue, m_crc_failures, stop_requested, conns>>

-----------------------------------------------------------------------------
(* process_client(): one action per way through the body of its loop.      *)

Ring == m_clients[client].ring_buffer

\* The length cached by WAIT_LENGTH.
payload_length == m_clients[client].payload_length

InState(st) == pc = "process" /\ m_clients[client].state = st

\* Mutated form: the last byte of a packet is waited for once more.
NotEnough_OffByOne ==
  \/ InState("WAIT_HEADER") /\ Len(Ring) < HEADER_SIZE
  \/ InState("WAIT_LENGTH") /\ Len(Ring) < HEADER_SIZE + LENGTH_SIZE
  \/ /\ InState("WAIT_PAYLOAD_AND_CRC")
     /\ Len(Ring) <= PacketSize(payload_length)

NotEnough ==
  \/ InState("WAIT_HEADER") /\ Len(Ring) < HEADER_SIZE
  \/ InState("WAIT_LENGTH") /\ Len(Ring) < HEADER_SIZE + LENGTH_SIZE
  \/ /\ InState("WAIT_PAYLOAD_AND_CRC")
     /\ Len(Ring) < PacketSize(payload_length)

\* The ring cannot satisfy the current state: return to run().
Return ==
  /\ NotEnough
  /\ pc' = "while"
  /\ UNCHANGED <<queues, m_clients, m_crc_failures, client, stop_requested, conns, history>>

\* consume(n), and go to state st with payload length len.
Advance(n, st, len) ==
  m_clients' = [m_clients EXCEPT ![client] =
    [state |-> st, ring_buffer |-> SubSeq(Ring, n + 1, Len(Ring)), payload_length |-> len]]

\* Mutated form: the state machine stays where it is.
Resync_KeepsState(len) ==
  /\ Advance(1, m_clients[client].state, len)
  /\ history' = [history EXCEPT ![client] = Consumed(@, 1)]

\* Mutated form: two bytes are dropped, as many as a header has.
Resync_DropsHeader(len) ==
  /\ Advance(HEADER_SIZE, "WAIT_HEADER", len)
  /\ history' = [history EXCEPT ![client] = Consumed(@, HEADER_SIZE)]

\* Mutated form: nothing is consumed.
Resync_KeepsByte(len) == Advance(0, "WAIT_HEADER", len) /\ UNCHANGED history

\* Drop one byte and hunt for the next header.
Resync(len) ==
  /\ Advance(1, "WAIT_HEADER", len)
  /\ history' = [history EXCEPT ![client] = Consumed(@, 1)]

HeaderMissing ==
  /\ InState("WAIT_HEADER")
  /\ Len(Ring) >= HEADER_SIZE
  /\ ~HeaderAt(Ring, 0)
  /\ Resync(payload_length)
  /\ UNCHANGED <<queues, m_crc_failures, pc, client, stop_requested, conns>>

HeaderFound ==
  /\ InState("WAIT_HEADER")
  /\ Len(Ring) >= HEADER_SIZE
  /\ HeaderAt(Ring, 0)
  /\ Advance(0, "WAIT_LENGTH", payload_length)
  /\ UNCHANGED <<queues, m_crc_failures, pc, client, stop_requested, conns, history>>

LengthAbsurd ==
  /\ InState("WAIT_LENGTH")
  /\ Len(Ring) >= HEADER_SIZE + LENGTH_SIZE
  /\ ~GoodLength(LengthAt(Ring, 0))
  /\ Resync(LengthAt(Ring, 0))
  /\ UNCHANGED <<queues, m_crc_failures, pc, client, stop_requested, conns>>

LengthValid ==
  /\ InState("WAIT_LENGTH")
  /\ Len(Ring) >= HEADER_SIZE + LENGTH_SIZE
  /\ GoodLength(LengthAt(Ring, 0))
  /\ Advance(0, "WAIT_PAYLOAD_AND_CRC", LengthAt(Ring, 0))
  /\ UNCHANGED <<queues, m_crc_failures, pc, client, stop_requested, conns, history>>

PacketComplete ==
  /\ InState("WAIT_PAYLOAD_AND_CRC")
  /\ Len(Ring) >= PacketSize(payload_length)

CrcMismatch ==
  /\ PacketComplete
  /\ ~CrcMatchesAt(Ring, 0, payload_length)
  /\ m_crc_failures' = m_crc_failures + 1
  /\ Resync(payload_length)
  /\ UNCHANGED <<queues, pc, client, stop_requested, conns>>

\* Mutated form: the CRC is not compared.
TakePacket_Unchecked ==
  /\ PacketComplete
  /\ m_parsed_queue' = m_parsed_queue \o deserialize_payload(PayloadAt(Ring, 0, payload_length))
  /\ Advance(PacketSize(payload_length), "WAIT_HEADER", payload_length)
  /\ history' = [history EXCEPT ![client] = Taken(@, PacketSize(payload_length))]
  /\ UNCHANGED <<m_raw_queue, m_crc_failures, pc, client, stop_requested, conns>>

\* The packet is consumed whether or not its payload can be deserialized; a
\* malformed one counts as a CRC failure.
TakePacket ==
  /\ PacketComplete
  /\ CrcMatchesAt(Ring, 0, payload_length)
  /\ LET maybe_telemetry == deserialize_payload(PayloadAt(Ring, 0, payload_length)) IN
       /\ m_parsed_queue' = m_parsed_queue \o maybe_telemetry
       /\ m_crc_failures' = m_crc_failures + (IF maybe_telemetry = << >> THEN 1 ELSE 0)
  /\ Advance(PacketSize(payload_length), "WAIT_HEADER", payload_length)
  /\ history' = [history EXCEPT ![client] = Taken(@, PacketSize(payload_length))]
  /\ UNCHANGED <<m_raw_queue, pc, client, stop_requested, conns>>

process_client ==
  \/ Return \/ HeaderMissing \/ HeaderFound \/ LengthAbsurd \/ LengthValid
  \/ CrcMismatch \/ TakePacket

run == CheckStop \/ PopStopped \/ PopDisconnect \/ PopOverflow \/ PopData \/ process_client

Next == Environment \/ run

\* The parser thread is always scheduled again; nothing is asked of the peers.
Spec == Init /\ [][Next]_vars /\ WF_vars(run)

-----------------------------------------------------------------------------
ClientState ==
  [state : {"WAIT_HEADER", "WAIT_LENGTH", "WAIT_PAYLOAD_AND_CRC"},
   ring_buffer : Seq(Byte),
   payload_length : Uint16]

DataChunk == [client_id : Fd, conn : Nat, data : Seq(Byte)]

Connection == [fd : Fd, peer : Peers, sent : Nat, open : BOOLEAN]

History == [pushed : Seq(Byte), at : Nat, taken : SUBSET [at : Nat, size : Nat],
            from : SUBSET Nat]

\* In particular every field of a Telemetry is made of payload bytes: no read of
\* deserialize_payload leaves the payload.
TypeOK ==
  /\ m_raw_queue \in Seq(DataChunk)
  /\ DOMAIN m_clients \subseteq Fd
  /\ m_clients \in [DOMAIN m_clients -> ClientState]
  /\ history \in [DOMAIN m_clients -> History]
  /\ m_parsed_queue \in Seq(Telemetry)
  /\ m_crc_failures \in Nat
  /\ pc \in {"while", "pop", "process", "done"}
  /\ client \in Fd
  /\ pc = "process" => client \in DOMAIN m_clients
  /\ stop_requested \in BOOLEAN
  /\ conns \in Seq(Connection)

\* The client is not in the middle of process_client.
Idle(fd) == pc # "process" \/ fd # client

\* A ring that its state machine has left waiting holds less than one packet,
\* however the stream was cut: so a chunk always fits, push never throws, and
\* the parser never drops a client, whatever it sends (run's overflow branch
\* is dead), as long as the ring holds a packet less one byte and a chunk.
\* 65536 bytes do, with packets of at most 262 and chunks of at most 4096.
RoomForEveryChunk ==
  /\ \A fd \in DOMAIN m_clients :
       Idle(fd) => Len(m_clients[fd].ring_buffer) < PacketSize(MAX_PAYLOAD_SIZE)
  /\ pc = "pop" /\ m_raw_queue # << >> =>
       Len(FoundClient.ring_buffer) + Len(Chunk.data) <= Capacity

LengthIsFresh(cs) ==
  /\ cs.state # "WAIT_HEADER" =>
       Len(cs.ring_buffer) >= HEADER_SIZE /\ HeaderAt(cs.ring_buffer, 0)
  /\ cs.state = "WAIT_PAYLOAD_AND_CRC" =>
       /\ Len(cs.ring_buffer) >= HEADER_SIZE + LENGTH_SIZE
       /\ cs.payload_length = LengthAt(cs.ring_buffer, 0)
       /\ GoodLength(cs.payload_length)

\* The header and the length that process_client checked in an earlier call,
\* perhaps chunks ago, are still the ones at the front of the ring when
\* WAIT_PAYLOAD_AND_CRC uses them without looking again.
CachedLengthFresh == \A fd \in DOMAIN m_clients : LengthIsFresh(m_clients[fd])

\* The ring holds exactly the bytes that were pushed and not yet consumed.
HoldsRest(cs, h) ==
  /\ h.at <= Len(h.pushed)
  /\ cs.ring_buffer = SubSeq(h.pushed, h.at + 1, Len(h.pushed))

RingIsRest == \A fd \in DOMAIN m_clients : HoldsRest(m_clients[fd], history[fd])

Accounted(h) ==
  \A p \in 0 .. h.at - 1 :
    \/ NoPacketAt(h.pushed, p)
    \/ \E f \in h.taken : p \in f.at .. f.at + f.size - 1

\* A byte leaves the ring only as part of a packet that was taken, or once the
\* bytes after it prove that no packet starts there ("never skips valid data",
\* README.md:263); this holds however the bytes were cut into chunks.
NeverSkips == \A fd \in DOMAIN m_clients : Accounted(history[fd])

DisjointPackets(h) ==
  /\ \A f \in h.taken :
       /\ PacketAt(h.pushed, f.at)
       /\ f.size = PacketSize(LengthAt(h.pushed, f.at))
       /\ f.at + f.size <= h.at
  /\ \A f, g \in h.taken :
       f = g \/ f.at + f.size <= g.at \/ g.at + g.size <= f.at

\* What was taken were packets, complete and with the right CRC where they
\* stand in the stream, no two of them sharing a byte.
TakenArePackets == \A fd \in DOMAIN m_clients : DisjointPackets(history[fd])

\* What a client's stream yields does not depend on where recv() cut it: when
\* process_client is done, the packets taken are the ones a reader of the
\* whole byte string would take.
FragmentationIndependent ==
  \A fd \in DOMAIN m_clients :
    Idle(fd) => history[fd].taken = PacketsIn(history[fd].pushed)

\* A ClientState never holds bytes of two connections, although descriptors
\* are reused while chunks of the old connection are still queued ("Data from
\* different clients is never interleaved", README.md:120): it has seen one
\* contiguous piece of one connection's stream, the connection that has the
\* descriptor or had it before, also where a ring overflowed in mid-stream.
Isolation ==
  \A fd \in DOMAIN m_clients :
    \E c \in 1 .. Len(conns) :
      /\ conns[c].fd = fd
      /\ history[fd].from = {c}
      /\ \E i \in 1 .. Len(conns[c].peer.stream) + 1 - Len(history[fd].pushed) :
           history[fd].pushed =
             SubSeq(conns[c].peer.stream, i, i + Len(history[fd].pushed) - 1)

\* How many of the first n records of the parsed queue are connection c's, if
\* owner tells whose each one is.
Share(owner, c, n) == Cardinality({i \in 1 .. n : owner[i] = c})

\* Each record is the next one that its connection's drone sent.
InSentOrder(owner) ==
  \A i \in 1 .. Len(m_parsed_queue) :
    LET sent == conns[owner[i]].peer.packets
    IN /\ Share(owner, owner[i], i) <= Len(sent)
       /\ m_parsed_queue[i] = sent[Share(owner, owner[i], i)]

\* All that connection c's drone sends has been pushed into its ring.
AllPopped(c) ==
  /\ conns[c].sent = Len(conns[c].peer.stream)
  /\ \A i \in 1 .. Len(m_raw_queue) : m_raw_queue[i].conn = c => m_raw_queue[i].data = << >>

NothingMissing(owner) ==
  \A fd \in DOMAIN m_clients, c \in 1 .. Len(conns) :
    history[fd].from = {c} /\ Idle(fd) /\ AllPopped(c) =>
      Share(owner, c, Len(m_parsed_queue)) = Len(conns[c].peer.packets)

\* The business logic gets the telemetry the drones sent: that of each
\* connection in order, without a gap or a repetition, interleaved with that of
\* the others, and all of it once the stream has been handled.
DeliversWhatWasSent ==
  \E owner \in [1 .. Len(m_parsed_queue) -> 1 .. Len(conns)] :
    InSentOrder(owner) /\ NothingMissing(owner)

\* process_client always comes back: each iteration consumes bytes or moves
\* to a later state.
ProcessReturns == pc = "process" ~> pc = "while"

\* A stop request ends the parser thread, whatever is queued.
StopEnds == stop_requested ~> pc = "done"

\* README.md:263, "never skips valid data": a ClientState that is erased holds
\* no complete packet that was not taken.
NoPacketLostAtErase ==
  [][\A fd \in DOMAIN m_clients \ DOMAIN m_clients' :
       \A p \in history[fd].at .. Len(history[fd].pushed) : ~PacketAt(history[fd].pushed, p)]_vars
=============================================================================
