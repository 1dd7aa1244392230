------------------------------ MODULE Listener ------------------------------
(***************************************************************************)
(* class NetworkListener (src/listener.cpp): the event loop of run() over  *)
(* epoll, with handle_accept, handle_client_data and disconnect_client,    *)
(* one step per system call whose answer matters.                          *)
(*                                                                         *)
(* The kernel is external: the backlog, each socket's receive buffer and   *)
(* the ready list of epoll, on which a descriptor is put when something    *)
(* happens to it (edge-triggered clients), or kept as long as there is     *)
(* something to do (level-triggered server socket and eventfd).            *)
(***************************************************************************)
EXTENDS Integers, Sequences, FiniteSets

CONSTANTS
  Fd,                \* descriptors for client sockets
  Peers,             \* the drones, as in StreamingParser: [stream, packets]
  Endless,           \* those that send their stream over and over
  RECV_BUF_SIZE,
  MAX_EPOLL_EVENTS,
  MaxConnections,    \* bound: connections in a behaviour
  MaxBuffered,       \* bound: bytes in a socket's receive buffer
  MaxQueue,          \* bound: chunks in the raw queue
  MaxBytes,          \* bound: bytes that arrive in a behaviour, from drones that end
  MaxIncidents          \* bound: resets, failures of system calls and the stop

ASSUME ListenerAssumption ==
  /\ \A peer \in Peers : peer.stream \in Seq(Nat) \ {<< >>}
  /\ Endless \subseteq Peers
  /\ RECV_BUF_SIZE \in Nat \ {0}
  /\ MAX_EPOLL_EVENTS \in Nat \ {0}
  /\ Fd # {} /\ Fd \cap {"server", "event"} = {}
  /\ MaxConnections \in Nat /\ MaxBuffered \in Nat /\ MaxQueue \in Nat
  /\ MaxBytes \in Nat /\ MaxIncidents \in Nat

VARIABLES
  backlog,         \* sockets that wait for accept
  conns,           \* the connections accepted so far: [fd, open, sock]
  ready,           \* epoll's ready list
  eventfd,         \* m_event_fd is readable
  m_clients,       \* the descriptors whose SocketHandle is in the map
  m_queue,         \* the raw queue
  events,          \* what epoll_wait returned, from the one being handled on
  pc,              \* where run() is
  stop_requested,
  connected,       \* connections so far,
  bytes,           \* bytes that have arrived,
  incidents        \* and resets, failures of system calls and the stop

kernel == <<backlog, conns, ready, eventfd>>
bounds == <<connected, bytes, incidents>>
vars == <<kernel, m_clients, m_queue, events, pc, stop_requested, bounds>>

Least(a, b) == IF a <= b THEN a ELSE b

\* The elements of q that are in S, in the order they have in q.
Rank(places, i) == Cardinality({j \in places : j <= i})
Only(q, S) ==
  LET places == {i \in DOMAIN q : q[i] \in S}
  IN [k \in 1 .. Cardinality(places) |-> q[CHOOSE i \in places : Rank(places, i) = k]]

Init ==
  /\ backlog = << >>
  /\ conns = << >>
  /\ ready = << >>
  /\ eventfd = FALSE
  /\ m_clients = {}
  /\ m_queue = << >>
  /\ events = << >>
  /\ pc = "while"
  /\ stop_requested = FALSE
  /\ connected = 0
  /\ bytes = 0
  /\ incidents = 0

-----------------------------------------------------------------------------
(* The kernel.                                                             *)

Socket(peer) == [peer |-> peer, left |-> peer.stream, buffer |-> << >>, ended |-> "no"]

\* n bytes of what the peer has left arrive.
Arrived(s, n) ==
  [peer |-> s.peer, ended |-> s.ended,
   buffer |-> s.buffer \o SubSeq(s.left, 1, n),
   left |-> IF s.peer \in Endless THEN s.left ELSE SubSeq(s.left, n + 1, Len(s.left))]

\* What the network can do to a socket: bytes, the peer's FIN, a reset.
Changed(s) ==
  {Arrived(s, n) : n \in 1 .. Least(Len(s.left), MaxBuffered - Len(s.buffer))}
    \cup {[s EXCEPT !.ended = e] : e \in {"fin", "rst"}}

\* The socket s becomes t.
Happens(s, t) ==
  /\ s.ended = "no" \/ (s.ended = "fin" /\ t.ended = "rst")
  /\ bytes' = bytes + Len(s.left) - Len(t.left)
  /\ incidents' = incidents + (IF t.ended = "rst" THEN 1 ELSE 0)
  /\ bytes' <= MaxBytes /\ incidents' <= MaxIncidents

HasInput(s) == s.buffer # << >> \/ s.ended # "no"

Listed == {ready[i] : i \in DOMAIN ready}
Woken(fd) == IF fd \in Listed THEN ready ELSE Append(ready, fd)

\* n bytes were received.
Drained(s, n) == [s EXCEPT !.buffer = SubSeq(s.buffer, n + 1, Len(s.buffer))]

\* The socket is closed; what was not received is gone with it.
Closed(conn) ==
  LET s == conn.sock IN
    [fd |-> conn.fd, open |-> FALSE,
     sock |-> [peer |-> s.peer, left |-> s.buffer \o s.left, buffer |-> << >>, ended |-> "no"]]

OpenFds == {conns[c].fd : c \in {d \in DOMAIN conns : conns[d].open}}

\* The last connection on a descriptor.
ConnOf(fd) == CHOOSE c \in DOMAIN conns :
                /\ conns[c].fd = fd
                /\ \A d \in DOMAIN conns : conns[d].fd = fd => d <= c

\* Bound: the network acts while run() runs and the parser keeps up.
NetworkMayAct == pc # "done" /\ Len(m_queue) < MaxQueue

Connect(peer) ==
  /\ NetworkMayAct
  /\ connected < MaxConnections
  /\ connected' = connected + 1
  /\ backlog' = Append(backlog, Socket(peer))
  /\ ready' = Woken("server")
  /\ UNCHANGED <<conns, eventfd, m_clients, m_queue, events, pc, stop_requested, bytes, incidents>>

ChangeWaiting(i) ==
  /\ NetworkMayAct
  /\ \E t \in Changed(backlog[i]) :
       Happens(backlog[i], t) /\ backlog' = [backlog EXCEPT ![i] = t]
  /\ UNCHANGED <<conns, ready, eventfd, m_clients, m_queue, events, pc, stop_requested, connected>>

ChangeAccepted(c) ==
  /\ NetworkMayAct
  /\ conns[c].open
  /\ \E t \in Changed(conns[c].sock) :
       Happens(conns[c].sock, t) /\ conns' = [conns EXCEPT ![c].sock = t]
  /\ ready' = Woken(conns[c].fd)
  /\ UNCHANGED <<backlog, eventfd, m_clients, m_queue, events, pc, stop_requested, connected>>

ParserPops ==
  /\ m_queue # << >>
  /\ m_queue' = Tail(m_queue)
  /\ UNCHANGED <<kernel, m_clients, events, pc, stop_requested, bounds>>

\* request_stop and the callback that writes to the eventfd (Server takes them apart).
RequestStop ==
  /\ ~stop_requested
  /\ incidents < MaxIncidents
  /\ incidents' = incidents + 1
  /\ stop_requested' = TRUE
  /\ eventfd' = TRUE
  /\ ready' = Woken("event")
  /\ UNCHANGED <<backlog, conns, m_clients, m_queue, events, pc, connected, bytes>>

Network ==
  \/ \E peer \in Peers : Connect(peer)
  \/ \E i \in DOMAIN backlog : ChangeWaiting(i)
  \/ \E c \in DOMAIN conns : ChangeAccepted(c)

-----------------------------------------------------------------------------
(* run()                                                                   *)

CheckStop ==
  /\ pc = "while"
  /\ pc' = IF stop_requested THEN "done" ELSE "epoll_wait"
  /\ UNCHANGED <<kernel, m_clients, m_queue, events, stop_requested, bounds>>

HasEvents(fd) ==
  CASE fd = "server" -> backlog # << >>
    [] fd = "event" -> eventfd
    [] OTHER -> HasInput(conns[ConnOf(fd)].sock)

\* Mutated form: EPOLLRDHUP is taken for a hangup.
Failed_PeerClosed(fd) == fd \in OpenFds /\ conns[ConnOf(fd)].sock.ended # "no"

\* EPOLLERR or EPOLLHUP is among the flags.
Failed(fd) == fd \in OpenFds /\ conns[ConnOf(fd)].sock.ended = "rst"

\* Mutated form: the server socket is registered with EPOLLET too.
LevelTriggered_EventOnly == {"event"}

LevelTriggered == {"server", "event"}

\* The first descriptors of the list that have events; edge-triggered ones
\* leave it, level-triggered ones go to its end.
EpollWait ==
  /\ pc = "epoll_wait"
  /\ \E found \in {Only(ready, {fd \in Listed : HasEvents(fd)})} :
       LET n == Least(Len(found), MAX_EPOLL_EVENTS) IN
         /\ n > 0
         /\ events' = [i \in 1 .. n |-> [fd |-> found[i], failed |-> Failed(found[i])]]
         /\ ready' = SubSeq(found, n + 1, Len(found)) \o Only(SubSeq(found, 1, n), LevelTriggered)
  /\ pc' = "dispatch"
  /\ UNCHANGED <<backlog, conns, eventfd, m_clients, m_queue, stop_requested, bounds>>

\* epoll_wait was interrupted by a signal, or failed, which ends the loop.
EpollFails ==
  /\ pc = "epoll_wait"
  /\ incidents < MaxIncidents
  /\ incidents' = incidents + 1
  /\ pc' \in {"while", "done"}
  /\ UNCHANGED <<kernel, m_clients, m_queue, events, stop_requested, connected, bytes>>

NextEvent(fd) == pc = "dispatch" /\ Head(events).fd = fd

\* The handler returned: on to the next event, or to the loop condition.
NextIteration ==
  /\ events' = Tail(events)
  /\ pc' = IF Tail(events) = << >> THEN "while" ELSE "dispatch"

\* The events behind it in the array are dropped.
DispatchShutdown ==
  /\ NextEvent("event")
  /\ eventfd' = FALSE
  /\ events' = << >>
  /\ pc' = "done"
  /\ UNCHANGED <<backlog, conns, ready, m_clients, m_queue, stop_requested, bounds>>

DispatchAccept ==
  /\ NextEvent("server")
  /\ pc' = "accept"
  /\ UNCHANGED <<kernel, m_clients, m_queue, events, stop_requested, bounds>>

DispatchData(fd) ==
  /\ NextEvent(fd)
  /\ ~Head(events).failed
  /\ pc' = "recv"
  /\ UNCHANGED <<kernel, m_clients, m_queue, events, stop_requested, bounds>>

Pushed(fd, data) == Append(m_queue, [client_id |-> fd, conn |-> ConnOf(fd), data |-> data])

\* Mutated form: the parser is not told.
disconnect_client_NoMarker(fd) ==
  /\ ready' = Only(ready, Listed \ {fd})
  /\ m_clients' = m_clients \ {fd}
  /\ conns' = [conns EXCEPT ![ConnOf(fd)] = Closed(@)]
  /\ UNCHANGED m_queue

\* Out of epoll, out of the map, where the SocketHandle's destructor closes the
\* descriptor, and a marker for the parser.
disconnect_client(fd) ==
  /\ ready' = Only(ready, Listed \ {fd})
  /\ m_clients' = m_clients \ {fd}
  /\ conns' = [conns EXCEPT ![ConnOf(fd)] = Closed(@)]
  /\ Len(m_queue) < MaxQueue
  /\ m_queue' = Pushed(fd, << >>)

\* Mutated form: without the continue, the closed descriptor is read.
DispatchFailed_FallsThrough(fd) ==
  /\ NextEvent(fd)
  /\ Head(events).failed
  /\ disconnect_client(fd)
  /\ pc' = "recv"
  /\ UNCHANGED <<backlog, eventfd, events, stop_requested, bounds>>

\* An error or a hangup: what the socket still has is not read.
DispatchFailed(fd) ==
  /\ NextEvent(fd)
  /\ Head(events).failed
  /\ NextIteration
  /\ disconnect_client(fd)
  /\ UNCHANGED <<backlog, eventfd, stop_requested, bounds>>

-----------------------------------------------------------------------------
(* handle_accept                                                           *)

\* accept, set_nonblocking, EPOLL_CTL_ADD, which lists a socket that has
\* something already, and emplace, which keeps an entry that is there: the
\* new handle would close the descriptor.
AcceptClient(fd) ==
  /\ pc = "accept"
  /\ backlog # << >>
  /\ backlog' = Tail(backlog)
  /\ conns' = Append(conns, [fd |-> fd, open |-> fd \notin m_clients, sock |-> Head(backlog)])
  /\ ready' = IF HasInput(Head(backlog)) THEN Append(ready, fd) ELSE ready
  /\ m_clients' = m_clients \cup {fd}
  /\ UNCHANGED <<eventfd, m_queue, events, pc, stop_requested, bounds>>

\* Mutated form: the descriptor is not closed.
AcceptDropped_Leaks(fd) ==
  /\ pc = "accept"
  /\ backlog # << >>
  /\ incidents < MaxIncidents
  /\ incidents' = incidents + 1
  /\ backlog' = Tail(backlog)
  /\ conns' = Append(conns, [fd |-> fd, open |-> TRUE, sock |-> Head(backlog)])
  /\ UNCHANGED <<ready, eventfd, m_clients, m_queue, events, pc, stop_requested, connected, bytes>>

\* set_nonblocking or EPOLL_CTL_ADD failed: the handle closes the descriptor.
AcceptDropped(fd) ==
  /\ pc = "accept"
  /\ backlog # << >>
  /\ incidents < MaxIncidents
  /\ incidents' = incidents + 1
  /\ backlog' = Tail(backlog)
  /\ UNCHANGED <<conns, ready, eventfd, m_clients, m_queue, events, pc, stop_requested, connected, bytes>>

\* Mutated form: after an error, the loop tries again.
AcceptFails_Retries == pc = "accept" /\ OpenFds = Fd /\ UNCHANGED vars

\* No descriptor is left, or another error: the backlog stays as it is.
AcceptFails ==
  /\ pc = "accept"
  /\ backlog # << >>
  /\ \/ OpenFds = Fd /\ UNCHANGED incidents
     \/ incidents < MaxIncidents /\ incidents' = incidents + 1
  /\ NextIteration
  /\ UNCHANGED <<kernel, m_clients, m_queue, stop_requested, connected, bytes>>

AcceptDone ==
  /\ pc = "accept"
  /\ backlog = << >>
  /\ NextIteration
  /\ UNCHANGED <<kernel, m_clients, m_queue, stop_requested, bounds>>

handle_accept ==
  \/ \E fd \in Fd \ OpenFds : AcceptClient(fd) \/ AcceptDropped(fd)
  \/ AcceptFails \/ AcceptDone

-----------------------------------------------------------------------------
(* handle_client_data                                                      *)

client_fd == Head(events).fd
Sock == conns[ConnOf(client_fd)].sock

\* Mutated form: the buffer passed to recv is longer than it is.
Received_Unlimited == Len(Sock.buffer)

Received == Least(Len(Sock.buffer), RECV_BUF_SIZE)

\* Mutated form: one recv per event.
AfterData_ReadsOnce == NextIteration

\* The loop goes on until EAGAIN.
AfterData == UNCHANGED <<events, pc>>

RecvData ==
  /\ pc = "recv"
  /\ Sock.buffer # << >>
  /\ Len(m_queue) < MaxQueue
  /\ m_queue' = Pushed(client_fd, SubSeq(Sock.buffer, 1, Received))
  /\ conns' = [conns EXCEPT ![ConnOf(client_fd)].sock = Drained(Sock, Received)]
  /\ AfterData
  /\ UNCHANGED <<backlog, ready, eventfd, m_clients, stop_requested, bounds>>

RecvAgain ==
  /\ pc = "recv"
  /\ ~HasInput(Sock)
  /\ NextIteration
  /\ UNCHANGED <<kernel, m_clients, m_queue, stop_requested, bounds>>

\* recv returns 0 or an error: run disconnects the client.
RecvEnds ==
  /\ pc = "recv"
  /\ Sock.buffer = << >>
  /\ Sock.ended # "no"
  /\ disconnect_client(client_fd)
  /\ NextIteration
  /\ UNCHANGED <<backlog, eventfd, stop_requested, bounds>>

handle_client_data == RecvData \/ RecvAgain \/ RecvEnds

run ==
  \/ CheckStop \/ EpollWait \/ EpollFails
  \/ DispatchShutdown \/ DispatchAccept
  \/ \E fd \in Fd : DispatchData(fd) \/ DispatchFailed(fd)
  \/ handle_accept
  \/ handle_client_data

Next == Network \/ ParserPops \/ RequestStop \/ run

\* The listener's thread is always scheduled again, and so is the parser's, which
\* pops until the queue that the model bounds has room; nothing is asked of the
\* network or the drones.
Spec == Init /\ [][Next]_vars /\ WF_vars(run) /\ WF_vars(ParserPops)

-----------------------------------------------------------------------------
Sockets == [peer : Peers, left : Seq(Nat), buffer : Seq(Nat), ended : {"no", "fin", "rst"}]
Event == [fd : Fd \cup {"server", "event"}, failed : BOOLEAN]

TypeOK ==
  /\ backlog \in Seq(Sockets)
  /\ conns \in Seq([fd : Fd, open : BOOLEAN, sock : Sockets])
  /\ ready \in Seq(Fd \cup {"server", "event"})
  /\ eventfd \in BOOLEAN
  /\ m_clients \subseteq Fd
  /\ m_queue \in Seq([client_id : Fd, conn : Nat, data : Seq(Nat)])
  /\ \A i \in DOMAIN m_queue : Len(m_queue[i].data) <= RECV_BUF_SIZE
  /\ events \in Seq(Event)
  /\ pc \in {"while", "epoll_wait", "dispatch", "accept", "recv", "done"}
  /\ stop_requested \in BOOLEAN
  /\ connected \in Nat /\ bytes \in Nat /\ incidents \in Nat

\* An event for fd is on the ready list, or being handled or about to be.
Noticed(fd) == fd \in Listed \/ \E i \in DOMAIN events : events[i].fd = fd

\* No edge is lost: a client that has sent something, or has gone, is noticed,
\* although an edge-triggered descriptor is reported only once, and bytes may
\* arrive before the socket is registered, between the last recv and the next
\* epoll_wait, or while the event for earlier ones waits to be dispatched
\* (src/listener.cpp:276).
NoEdgeLost ==
  pc # "done" =>
    \A c \in DOMAIN conns : conns[c].open /\ HasInput(conns[c].sock) => Noticed(conns[c].fd)

\* What is still to be dispatched or read is an open client, once each: an event
\* is never left over from a connection that an earlier event of the same
\* batch has closed, whose descriptor may belong to another drone by now.
EventsAreCurrent ==
  /\ \A i \in DOMAIN events : events[i].fd \in OpenFds \cup {"server", "event"}
  /\ \A i, j \in DOMAIN events : i # j => events[i].fd # events[j].fd

\* Every open descriptor has one SocketHandle in the map, and every handle an
\* open descriptor, of one connection: none leaks and none is closed twice.
EveryFdOwned ==
  /\ m_clients = OpenFds
  /\ \A c, d \in DOMAIN conns : conns[c].open /\ conns[d].open /\ c # d => conns[c].fd # conns[d].fd

\* A drone that closes its connection loses nothing of what it sent before; only
\* a reset makes the listener drop bytes unread.
OrderlyCloseReadsAll ==
  [][\A c \in DOMAIN conns :
       conns[c].open /\ ~conns'[c].open /\ conns[c].sock.buffer # << >> => conns[c].sock.ended = "rst"]_vars

NoCrc(data) == 0

\* Of each connection, what StreamingParser knows.
Seen == [c \in DOMAIN conns |->
  LET s == conns[c].sock IN
    [fd |-> conns[c].fd, peer |-> s.peer, open |-> conns[c].open,
     sent |-> Len(s.peer.stream) - Len(s.left) - Len(s.buffer)]]

Source == INSTANCE StreamingParser WITH
  MAX_PAYLOAD_SIZE <- 1, FIELD_SIZE <- 1, compute_crc16 <- NoCrc, Capacity <- 1,
  m_raw_queue <- m_queue, conns <- Seen, stop_requested <- FALSE,
  m_clients <- << >>, m_parsed_queue <- << >>, m_crc_failures <- 0, pc <- "while",
  client <- CHOOSE fd \in Fd : TRUE, history <- << >>

ParserTakes == m_queue # << >> /\ m_queue' = Tail(m_queue) /\ UNCHANGED Seen

\* The listener is the environment that StreamingParser assumes: of each
\* connection the raw queue gets the bytes in order, in chunks of at most
\* RECV_BUF_SIZE, then one marker, and only then another connection's bytes
\* with the same client_id (include/telemetry.h:44-46).
FeedsTheParser ==
  /\ Source!Init
  /\ [][Source!Listen \/ ParserTakes]_<<m_queue, Seen>>

\* A client that has sent something or has gone is read or disconnected in the
\* end, also while accept keeps failing for want of descriptors and the
\* level-triggered server socket is reported every time.
ClientsAreServed ==
  \A fd \in Fd :
    fd \in OpenFds /\ HasInput(conns[ConnOf(fd)].sock) ~>
      fd \notin OpenFds \/ ~HasInput(conns[ConnOf(fd)].sock) \/ pc = "done"

\* A connection does not stay in the backlog while there are descriptors, also
\* when an accept before it has failed.
ConnectionsAreAccepted ==
  backlog # << >> ~> backlog = << >> \/ OpenFds = Fd \/ pc = "done"

\* "instant, deadlock-free graceful shutdown" (include/listener.h:84): a stop
\* ends the listener, whatever the drones send.
StopEnds == stop_requested ~> pc = "done"
=============================================================================
