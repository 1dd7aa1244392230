-------------------------- MODULE Listener_proofs --------------------------
(***************************************************************************)
(* For any descriptors, any drones, any sizes and any failures of system   *)
(* calls: the types, the ownership of descriptors, that no edge of epoll   *)
(* is lost, and that the listener feeds the parser as it assumes.          *)
(***************************************************************************)
EXTENDS Listener, FiniteSetTheorems, TLAPS

-----------------------------------------------------------------------------
(* The elements of a sequence that are in a set.                           *)

Places(q, S) == {i \in DOMAIN q : q[i] \in S}

\* What comes after the first n elements.
LEMMA RestOf ==
  ASSUME NEW A, NEW q \in Seq(A), NEW n \in 0 .. Len(q)
  PROVE /\ SubSeq(q, n + 1, Len(q)) \in Seq(A)
        /\ Len(SubSeq(q, n + 1, Len(q))) = Len(q) - n
        /\ DOMAIN SubSeq(q, n + 1, Len(q)) = 1 .. Len(q) - n
        /\ \A i \in 1 .. Len(q) - n : SubSeq(q, n + 1, Len(q))[i] = q[n + i]
<1>1. Len(q) \in Nat /\ n \in Nat /\ Len(q) - n \in Nat
  OBVIOUS
<1>2. SubSeq(q, n + 1, Len(q)) = [i \in 1 .. Len(q) - n |-> q[n + i]]
  OBVIOUS
<1>3. \A i \in 1 .. Len(q) - n : n + i \in 1 .. Len(q) /\ q[n + i] \in A
  BY <1>1
<1> QED
  BY <1>1, <1>2, <1>3

\* A sequence has at most one place for each element.
Distinct(q) == \A i, j \in DOMAIN q : i # j => q[i] # q[j]

\* Counting the places up to each one numbers them all.
LEMMA RankNumbers ==
  ASSUME NEW P, P \subseteq Nat, IsFiniteSet(P)
  PROVE /\ Cardinality(P) \in Nat
        /\ \A i \in P : Rank(P, i) \in 1 .. Cardinality(P)
        /\ \A i, j \in P : Rank(P, i) = Rank(P, j) => i = j
        /\ \A k \in 1 .. Cardinality(P) : \E i \in P : Rank(P, i) = k
<1> DEFINE n == Cardinality(P)
           To(i) == {j \in P : j <= i}
           f == [i \in P |-> Rank(P, i)]
<1>1. n \in Nat
  BY FS_CardinalityType
<1>2. \A i \in P : IsFiniteSet(To(i)) /\ Cardinality(To(i)) <= n /\ Cardinality(To(i)) \in Nat
  <2> SUFFICES ASSUME NEW i \in P
               PROVE IsFiniteSet(To(i)) /\ Cardinality(To(i)) <= n /\ Cardinality(To(i)) \in Nat
    OBVIOUS
  <2>1. To(i) \in SUBSET P
    OBVIOUS
  <2>2. IsFiniteSet(To(i)) /\ Cardinality(To(i)) <= n
    BY <2>1, FS_Subset
  <2> QED
    BY <2>2, FS_CardinalityType
<1>3. \A i \in P : Rank(P, i) \in 1 .. n
  <2> SUFFICES ASSUME NEW i \in P PROVE Rank(P, i) \in 1 .. n
    OBVIOUS
  <2>1. Rank(P, i) = Cardinality(To(i))
    BY DEF Rank
  <2>2. To(i) # {}
    BY i <= i
  <2>3. Cardinality(To(i)) # 0
    BY <1>2, <2>2, FS_EmptySet
  <2> QED
    BY <1>1, <1>2, <2>1, <2>3
<1>4. \A i, j \in P : i < j => Rank(P, i) < Rank(P, j)
  <2> SUFFICES ASSUME NEW i \in P, NEW j \in P, i < j PROVE Rank(P, i) < Rank(P, j)
    OBVIOUS
  <2>1. To(i) \in SUBSET To(j) /\ To(i) # To(j)
    <3>1. i \in Nat /\ j \in Nat
      OBVIOUS
    <3>2. j \in To(j) /\ j \notin To(i)
      BY <3>1
    <3>3. \A k \in P : k <= i => k <= j
      BY <3>1
    <3>4. To(i) \in SUBSET To(j)
      BY <3>3
    <3>5. To(i) # To(j)
      BY <3>2, Zenon
    <3> QED
      BY <3>4, <3>5, Zenon
  <2>2. Cardinality(To(i)) <= Cardinality(To(j)) /\ Cardinality(To(i)) # Cardinality(To(j))
    BY <1>2, <2>1, FS_Subset
  <2> QED
    BY <1>2, <2>2 DEF Rank
<1>5. \A i, j \in P : Rank(P, i) = Rank(P, j) => i = j
  BY <1>3, <1>4
<1>6. f \in Injection(P, 1 .. n)
  BY <1>3, <1>5 DEF Injection, IsInjective
<1>7. IsFiniteSet(1 .. n) /\ Cardinality(1 .. n) = n
  BY <1>1, FS_Interval
<1>8. f \in Surjection(P, 1 .. n)
  <2> HIDE DEF f
  <2> QED
    BY <1>6, <1>7, FS_Injection
<1>9. \A k \in 1 .. n : \E i \in P : Rank(P, i) = k
  BY <1>8 DEF Surjection
<1> QED
  BY <1>1, <1>3, <1>5, <1>9

\* Only keeps what is in the set, all of it and nothing else, and makes no
\* duplicates.
LEMMA OnlyProperties ==
  ASSUME NEW A, NEW q \in Seq(A), NEW S
  PROVE /\ Only(q, S) \in Seq(A)
        /\ \A k \in DOMAIN Only(q, S) : Only(q, S)[k] \in S /\ \E i \in DOMAIN q : Only(q, S)[k] = q[i]
        /\ \A i \in DOMAIN q : q[i] \in S => \E k \in DOMAIN Only(q, S) : Only(q, S)[k] = q[i]
        /\ Distinct(q) => Distinct(Only(q, S))
<1> DEFINE P == Places(q, S)
           at(k) == CHOOSE i \in P : Rank(P, i) = k
           n == Cardinality(P)
<1>1. P \subseteq Nat /\ IsFiniteSet(P)
  <2>1. IsFiniteSet(1 .. Len(q)) /\ P \in SUBSET (1 .. Len(q))
    BY FS_Interval DEF Places
  <2> QED
    BY <2>1, FS_Subset
<1>2. n \in Nat /\ \A i \in P : Rank(P, i) \in 1 .. n
  BY <1>1, RankNumbers
<1>3. \A k \in 1 .. n : \E i \in P : Rank(P, i) = k
  BY <1>1, RankNumbers
<1>4. \A i, j \in P : Rank(P, i) = Rank(P, j) => i = j
  BY <1>1, RankNumbers
<1>5. \A k \in 1 .. n : at(k) \in P /\ Rank(P, at(k)) = k
  BY <1>3
<1>6. Only(q, S) = [k \in 1 .. n |-> q[at(k)]]
  BY DEF Only, Places
<1>7. \A i \in P : i \in DOMAIN q /\ q[i] \in S /\ q[i] \in A
  BY DEF Places
<1>8. \A i \in DOMAIN q : q[i] \in S => i \in P
  BY DEF Places
<1> HIDE DEF P, at
<1>9. Only(q, S) \in Seq(A) /\ DOMAIN Only(q, S) = 1 .. n /\ \A k \in 1 .. n : Only(q, S)[k] = q[at(k)]
  BY <1>2, <1>5, <1>6, <1>7
<1>10. \A k \in 1 .. n : Only(q, S)[k] \in S /\ \E i \in DOMAIN q : Only(q, S)[k] = q[i]
  BY <1>5, <1>7, <1>9
<1>11. \A i \in DOMAIN q : q[i] \in S => \E k \in 1 .. n : Only(q, S)[k] = q[i]
  <2> SUFFICES ASSUME NEW i \in DOMAIN q, q[i] \in S PROVE \E k \in 1 .. n : Only(q, S)[k] = q[i]
    OBVIOUS
  <2>1. i \in P /\ Rank(P, i) \in 1 .. n
    BY <1>2, <1>8
  <2>2. at(Rank(P, i)) = i
    BY <1>4, <1>5, <2>1
  <2> QED
    BY <1>9, <2>1, <2>2
<1>12. ASSUME Distinct(q) PROVE Distinct(Only(q, S))
  <2> SUFFICES ASSUME NEW k \in 1 .. n, NEW l \in 1 .. n, k # l PROVE Only(q, S)[k] # Only(q, S)[l]
    BY <1>9 DEF Distinct
  <2>1. at(k) \in DOMAIN q /\ at(l) \in DOMAIN q /\ at(k) # at(l)
    BY <1>5, <1>7
  <2> QED
    BY <1>9, <1>12, <2>1 DEF Distinct
<1> QED
  BY <1>9, <1>10, <1>11, <1>12

-----------------------------------------------------------------------------
(* The inductive invariant.                                                *)

\* A descriptor's open connection is the last one that had it.
OpenIsLast ==
  \A c, d \in DOMAIN conns : conns[c].open /\ conns[d].fd = conns[c].fd => d <= c

\* epoll lists every descriptor once, and none that is closed.
ReadyIsCurrent ==
  /\ \A i \in DOMAIN ready : ready[i] \in OpenFds \cup LevelTriggered
  /\ Distinct(ready)

\* A reset is final, and only a reset makes an event a failed one.
FailedAreReset ==
  \A i \in DOMAIN events, c \in DOMAIN conns :
    events[i].failed /\ conns[c].open /\ conns[c].fd = events[i].fd => conns[c].sock.ended = "rst"

\* Where run() is, and the event it is at.
Handling ==
  /\ pc \in {"while", "epoll_wait"} => events = << >>
  /\ pc \in {"dispatch", "accept", "recv"} => events # << >>
  /\ pc = "accept" => Head(events).fd = "server"
  /\ pc = "recv" => Head(events).fd \in Fd

ListenerInv ==
  /\ TypeOK /\ OpenIsLast /\ ReadyIsCurrent /\ EventsAreCurrent /\ FailedAreReset
  /\ Handling /\ EveryFdOwned /\ NoEdgeLost

-----------------------------------------------------------------------------
(* The lists, as sets.                                                     *)

Names == Fd \cup {"server", "event"}
Conn == [fd : Fd, open : BOOLEAN, sock : Sockets]

Elements(q) == {q[i] : i \in DOMAIN q}
EventFds == {events[i].fd : i \in DOMAIN events}

\* A list of q's elements in S.
LEMMA OnlyElements ==
  ASSUME NEW A, NEW q \in Seq(A), NEW S
  PROVE /\ Only(q, S) \in Seq(A)
        /\ Elements(Only(q, S)) = Elements(q) \cap S
        /\ Distinct(q) => Distinct(Only(q, S))
<1>1. /\ Only(q, S) \in Seq(A)
      /\ \A k \in DOMAIN Only(q, S) : Only(q, S)[k] \in S /\ \E i \in DOMAIN q : Only(q, S)[k] = q[i]
      /\ \A i \in DOMAIN q : q[i] \in S => \E k \in DOMAIN Only(q, S) : Only(q, S)[k] = q[i]
      /\ Distinct(q) => Distinct(Only(q, S))
  BY OnlyProperties
<1>2. PICK r : r = Only(q, S)
  OBVIOUS
<1>3. Elements(r) = Elements(q) \cap S
  BY <1>1, <1>2 DEF Elements
<1> QED
  BY <1>1, <1>2, <1>3, Zenon

\* A descriptor is put on the ready list unless it is there.
LEMMA WokenElements ==
  ASSUME ready \in Seq(Names), Distinct(ready), NEW fd \in Names
  PROVE /\ Woken(fd) \in Seq(Names) /\ Distinct(Woken(fd))
        /\ Elements(Woken(fd)) = Listed \cup {fd}
<1>1. CASE fd \in Listed
  BY <1>1 DEF Woken, Listed, Elements
<1>2. CASE fd \notin Listed
  <2>1. Woken(fd) = Append(ready, fd)
    BY <1>2 DEF Woken
  <2>2. /\ Append(ready, fd) \in Seq(Names) /\ DOMAIN Append(ready, fd) = 1 .. Len(ready) + 1
        /\ \A i \in 1 .. Len(ready) : Append(ready, fd)[i] = ready[i]
        /\ Append(ready, fd)[Len(ready) + 1] = fd
        /\ DOMAIN ready = 1 .. Len(ready) /\ Len(ready) \in Nat
    OBVIOUS
  <2>3. \A i \in 1 .. Len(ready) : ready[i] # fd
    BY <1>2, <2>2 DEF Listed
  <2>4. Distinct(Append(ready, fd))
    BY <2>2, <2>3 DEF Distinct
  <2>5. Elements(Append(ready, fd)) = Listed \cup {fd}
    BY <2>2 DEF Elements, Listed
  <2> QED
    BY <2>1, <2>2, <2>4, <2>5
<1> QED
  BY <1>1, <1>2

\* Handling an event takes its descriptor, and only that, off the array.
LEMMA Iterated ==
  ASSUME TypeOK, EventsAreCurrent, events # << >>, NextIteration
  PROVE /\ events' \in Seq(Event)
        /\ EventFds' = EventFds \ {Head(events).fd}
        /\ \A i, j \in DOMAIN events' : i # j => events'[i].fd # events'[j].fd
        /\ \A i \in DOMAIN events' : \E j \in DOMAIN events : events'[i] = events[j]
        /\ Handling' /\ pc' \in {"while", "dispatch"}
<1>1. /\ events' \in Seq(Event) /\ Len(events') = Len(events) - 1 /\ Len(events) \in Nat \ {0}
      /\ DOMAIN events' = 1 .. Len(events) - 1 /\ DOMAIN events = 1 .. Len(events)
      /\ \A i \in 1 .. Len(events) - 1 : events'[i] = events[i + 1]
      /\ Head(events) = events[1]
  BY DEF TypeOK, NextIteration
<1>2. \A i, j \in 1 .. Len(events) : i # j => events[i].fd # events[j].fd
  BY <1>1 DEF EventsAreCurrent
<1>3. \A i \in 2 .. Len(events) : i - 1 \in 1 .. Len(events) - 1 /\ events'[i - 1] = events[i]
  BY <1>1
<1>4. EventFds' = EventFds \ {Head(events).fd}
  <2>1. \A x \in EventFds' : x \in EventFds /\ x # Head(events).fd
    BY <1>1, <1>2 DEF EventFds
  <2>2. \A x \in EventFds : x # Head(events).fd => x \in EventFds'
    <3> SUFFICES ASSUME NEW i \in 1 .. Len(events), events[i].fd # Head(events).fd
                 PROVE events[i].fd \in EventFds'
      BY <1>1 DEF EventFds
    <3>1. i \in 2 .. Len(events)
      BY <1>1
    <3> QED
      BY <1>1, <1>3, <3>1 DEF EventFds
  <2> QED
    BY <2>1, <2>2, Zenon
<1>5. \A i, j \in DOMAIN events' : i # j => events'[i].fd # events'[j].fd
  BY <1>1, <1>2
<1>6. \A i \in DOMAIN events' : \E j \in DOMAIN events : events'[i] = events[j]
  BY <1>1
<1>7. Handling' /\ pc' \in {"while", "dispatch"}
  BY DEF NextIteration, Handling
<1> QED
  BY <1>1, <1>4, <1>5, <1>6, <1>7

-----------------------------------------------------------------------------
(* The connections.                                                        *)

\* The open connection of a descriptor is the one ConnOf finds.
LEMMA OpenConn ==
  ASSUME TypeOK, OpenIsLast
  PROVE /\ \A c \in DOMAIN conns : conns[c].open => ConnOf(conns[c].fd) = c
        /\ \A fd \in OpenFds : /\ ConnOf(fd) \in DOMAIN conns /\ conns[ConnOf(fd)].open
                               /\ conns[ConnOf(fd)].fd = fd
<1>1. ASSUME NEW c \in DOMAIN conns, conns[c].open PROVE ConnOf(conns[c].fd) = c
  <2>1. /\ c \in DOMAIN conns /\ conns[c].fd = conns[c].fd
        /\ \A d \in DOMAIN conns : conns[d].fd = conns[c].fd => d <= c
    BY <1>1 DEF OpenIsLast
  <2>2. DOMAIN conns \subseteq Nat
    BY DEF TypeOK
  <2>3. \A b \in DOMAIN conns :
          (conns[b].fd = conns[c].fd /\ \A d \in DOMAIN conns : conns[d].fd = conns[c].fd => d <= b)
            => b = c
    BY <2>1, <2>2
  <2> QED
    BY <2>1, <2>3 DEF ConnOf
<1>2. ASSUME NEW fd \in OpenFds
      PROVE ConnOf(fd) \in DOMAIN conns /\ conns[ConnOf(fd)].open /\ conns[ConnOf(fd)].fd = fd
  <2>1. PICK c \in DOMAIN conns : conns[c].open /\ conns[c].fd = fd
    BY <1>2 DEF OpenFds
  <2> QED
    BY <1>1, <2>1
<1> QED
  BY <1>1, <1>2

\* A step that opens and closes nothing leaves the owners as they are.
LEMMA SameOwners ==
  ASSUME OpenIsLast, EveryFdOwned, m_clients' = m_clients, DOMAIN conns' = DOMAIN conns,
         \A d \in DOMAIN conns : conns'[d].fd = conns[d].fd /\ conns'[d].open = conns[d].open
  PROVE OpenFds' = OpenFds /\ OpenIsLast' /\ EveryFdOwned'
<1>1. OpenFds' = OpenFds
  <2>1. \A fd : fd \in OpenFds' <=> \E c \in DOMAIN conns : conns[c].open /\ conns[c].fd = fd
    BY DEF OpenFds
  <2>2. \A fd : fd \in OpenFds <=> \E c \in DOMAIN conns : conns[c].open /\ conns[c].fd = fd
    BY DEF OpenFds
  <2> QED
    BY <2>1, <2>2, Zenon
<1>2. OpenIsLast'
  BY DEF OpenIsLast
<1>3. EveryFdOwned'
  BY <1>1 DEF EveryFdOwned
<1> QED
  BY <1>1, <1>2, <1>3

LEMMA ConnType ==
  ASSUME TypeOK
  PROVE conns \in Seq(Conn) /\ \A c \in DOMAIN conns : conns[c] \in Conn /\ conns[c].sock \in Sockets
<1>1. conns \in Seq(Conn)
  BY Zenon DEF TypeOK, Conn
<1>2. \A c \in DOMAIN conns : conns[c] \in Conn
  BY <1>1
<1>3. \A x \in Conn : x.sock \in Sockets
  BY DEF Conn
<1> QED
  BY <1>1, <1>2, <1>3

\* One connection's socket changes.
LEMMA SocketChanged ==
  ASSUME TypeOK, NEW c \in DOMAIN conns, NEW t \in Sockets, conns' = [conns EXCEPT ![c].sock = t]
  PROVE /\ conns' \in Seq(Conn) /\ DOMAIN conns' = DOMAIN conns
        /\ \A d \in DOMAIN conns : conns'[d].fd = conns[d].fd /\ conns'[d].open = conns[d].open
        /\ \A d \in DOMAIN conns : conns'[d].sock = IF d = c THEN t ELSE conns[d].sock
<1>1. conns \in Seq(Conn) /\ conns[c] \in Conn
  BY ConnType
<1>2. PICK x : x = [conns[c] EXCEPT !.sock = t]
  OBVIOUS
<1>3. x \in Conn /\ x.fd = conns[c].fd /\ x.open = conns[c].open /\ x.sock = t
  BY <1>1, <1>2 DEF Conn
<1>4. conns' = [conns EXCEPT ![c] = x]
  BY <1>2
<1> QED
  BY <1>1, <1>3, <1>4

LEMMA LeastOf ==
  ASSUME NEW a \in Int, NEW b \in Int
  PROVE Least(a, b) \in {a, b} /\ Least(a, b) \in Int /\ Least(a, b) <= a /\ Least(a, b) <= b
BY DEF Least

\* Bytes that arrive go from what the peer has left to the buffer.
LEMMA ArrivedSocket ==
  ASSUME NEW s \in Sockets, NEW n \in 1 .. Len(s.left)
  PROVE /\ Arrived(s, n) \in Sockets /\ Arrived(s, n).peer = s.peer /\ Arrived(s, n).ended = s.ended
        /\ Arrived(s, n).buffer = s.buffer \o SubSeq(s.left, 1, n)
        /\ Arrived(s, n).left = IF s.peer \in Endless THEN s.left ELSE SubSeq(s.left, n + 1, Len(s.left))
        /\ Len(Arrived(s, n).left) \in 0 .. Len(s.left)
<1>1. s.peer \in Peers /\ s.left \in Seq(Nat) /\ s.buffer \in Seq(Nat) /\ s.ended \in {"no", "fin", "rst"}
  BY DEF Sockets
<1>2. PICK b : b = s.buffer \o SubSeq(s.left, 1, n)
  OBVIOUS
<1>3. PICK l : l = IF s.peer \in Endless THEN s.left ELSE SubSeq(s.left, n + 1, Len(s.left))
  OBVIOUS
<1>4. b \in Seq(Nat) /\ l \in Seq(Nat) /\ Len(l) \in 0 .. Len(s.left)
  BY <1>1, <1>2, <1>3, SMTT(20)
<1>5. Arrived(s, n) = [peer |-> s.peer, left |-> l, buffer |-> b, ended |-> s.ended]
  BY <1>2, <1>3 DEF Arrived
<1>6. Arrived(s, n) \in Sockets
  BY <1>1, <1>4, <1>5 DEF Sockets
<1> QED
  BY <1>2, <1>3, <1>4, <1>5, <1>6, SMTT(20)

\* The peer's FIN or a reset changes nothing else.
LEMMA EndedSocket ==
  ASSUME NEW s \in Sockets, NEW e \in {"fin", "rst"}
  PROVE /\ [s EXCEPT !.ended = e] \in Sockets
        /\ [s EXCEPT !.ended = e] = [peer |-> s.peer, left |-> s.left, buffer |-> s.buffer, ended |-> e]
<1>1. [s EXCEPT !.ended = e] = [peer |-> s.peer, left |-> s.left, buffer |-> s.buffer, ended |-> e]
  BY DEF Sockets
<1>2. [peer |-> s.peer, left |-> s.left, buffer |-> s.buffer, ended |-> e] \in Sockets
  BY DEF Sockets
<1> QED
  BY <1>1, <1>2, Zenon

\* What the network can do to a socket.
LEMMA ChangedSocket ==
  ASSUME NEW s \in Sockets, NEW t \in Changed(s)
  PROVE /\ t \in Sockets /\ t.peer = s.peer /\ Len(t.left) \in 0 .. Len(s.left)
        /\ t.ended = s.ended \/ t.ended \in {"fin", "rst"}
        /\ \/ t.buffer = s.buffer /\ t.left = s.left
           \/ \E n \in 1 .. Len(s.left) :
                /\ t.buffer = s.buffer \o SubSeq(s.left, 1, n)
                /\ t.left = IF s.peer \in Endless THEN s.left ELSE SubSeq(s.left, n + 1, Len(s.left))
<1>1. s.left \in Seq(Nat) /\ s.buffer \in Seq(Nat) /\ Len(s.left) \in Nat /\ Len(s.buffer) \in Nat
  BY DEF Sockets
<1>2. CASE \E n \in 1 .. Least(Len(s.left), MaxBuffered - Len(s.buffer)) : t = Arrived(s, n)
  <2>1. PICK n \in 1 .. Least(Len(s.left), MaxBuffered - Len(s.buffer)) : t = Arrived(s, n)
    BY <1>2
  <2>2. n \in 1 .. Len(s.left)
    <3>1. PICK m : m = MaxBuffered - Len(s.buffer)
      OBVIOUS
    <3>2. m \in Int
      BY <1>1, <3>1, ListenerAssumption
    <3>3. n \in 1 .. Least(Len(s.left), m)
      BY <3>1
    <3> QED
      BY <1>1, <3>2, <3>3 DEF Least
  <2> QED
    BY <2>1, <2>2, ArrivedSocket
<1>3. CASE \E e \in {"fin", "rst"} : t = [s EXCEPT !.ended = e]
  <2>1. PICK e \in {"fin", "rst"} : t = [s EXCEPT !.ended = e]
    BY <1>3
  <2>2. t \in Sockets /\ t = [peer |-> s.peer, left |-> s.left, buffer |-> s.buffer, ended |-> e]
    BY <2>1, EndedSocket, Zenon
  <2>3. t.peer = s.peer /\ t.left = s.left /\ t.buffer = s.buffer /\ t.ended = e
    BY <2>2
  <2> QED
    BY <1>1, <2>2, <2>3
<1> QED
  BY <1>2, <1>3, Zenon DEF Changed

\* Closing a socket: what was not received goes back to what is left.
LEMMA ClosedConn ==
  ASSUME NEW x \in Conn
  PROVE /\ Closed(x) \in Conn /\ Closed(x).fd = x.fd /\ Closed(x).open = FALSE
        /\ Closed(x).sock.peer = x.sock.peer /\ Closed(x).sock.ended = "no"
        /\ Closed(x).sock.left = x.sock.buffer \o x.sock.left /\ Closed(x).sock.buffer = << >>
<1>1. x.sock \in Sockets /\ x.fd \in Fd
  BY DEF Conn
<1>2. PICK s : s = [peer |-> x.sock.peer, left |-> x.sock.buffer \o x.sock.left,
                    buffer |-> << >>, ended |-> "no"]
  OBVIOUS
<1>3. x.sock.left \in Seq(Nat) /\ x.sock.buffer \in Seq(Nat) /\ x.sock.peer \in Peers
  BY <1>1 DEF Sockets
<1>4. s \in Sockets
  BY <1>2, <1>3 DEF Sockets
<1>5. Closed(x) = [fd |-> x.fd, open |-> FALSE, sock |-> s]
  BY <1>2 DEF Closed
<1>6. Closed(x) \in Conn
  BY <1>1, <1>4, <1>5 DEF Conn
<1>7. Closed(x).fd = x.fd /\ Closed(x).open = FALSE /\ Closed(x).sock = s
  BY <1>5
<1>8. /\ s.peer = x.sock.peer /\ s.ended = "no"
      /\ s.left = x.sock.buffer \o x.sock.left /\ s.buffer = << >>
  BY <1>2
<1> QED
  BY <1>6, <1>7, <1>8, Zenon

-----------------------------------------------------------------------------
(* What the calls do to the invariant.                                     *)

RawChunk == [client_id : Fd, conn : Nat, data : Seq(Nat)]

QueueOK == /\ m_queue \in Seq(RawChunk)
           /\ \A i \in DOMAIN m_queue : Len(m_queue[i].data) <= RECV_BUF_SIZE

\* The types, by what a step can change.
OthersOK == /\ backlog \in Seq(Sockets) /\ eventfd \in BOOLEAN /\ stop_requested \in BOOLEAN
            /\ connected \in Nat /\ bytes \in Nat /\ incidents \in Nat
Control == {"while", "epoll_wait", "dispatch", "accept", "recv", "done"}

LEMMA Types ==
  TypeOK <=> /\ conns \in Seq(Conn) /\ ready \in Seq(Names) /\ m_clients \subseteq Fd /\ QueueOK
             /\ events \in Seq(Event) /\ pc \in Control /\ OthersOK
BY Zenon DEF TypeOK, Conn, Names, QueueOK, RawChunk, OthersOK, Control

\* The first chunk of the raw queue is taken.
LEMMA QueuePopped ==
  ASSUME QueueOK, m_queue # << >>, m_queue' = Tail(m_queue)
  PROVE QueueOK'
<1>1. /\ Tail(m_queue) \in Seq(RawChunk) /\ DOMAIN Tail(m_queue) = 1 .. Len(m_queue) - 1
      /\ \A i \in 1 .. Len(m_queue) - 1 : Tail(m_queue)[i] = m_queue[i + 1] /\ i + 1 \in DOMAIN m_queue
  BY DEF QueueOK
<1>2. \A i \in DOMAIN Tail(m_queue) : Len(Tail(m_queue)[i].data) <= RECV_BUF_SIZE
  BY <1>1 DEF QueueOK
<1> QED
  BY <1>1, <1>2 DEF QueueOK

\* A chunk is pushed.
LEMMA QueuePushed ==
  ASSUME QueueOK, NEW fd \in Fd, ConnOf(fd) \in Nat, NEW data \in Seq(Nat), Len(data) <= RECV_BUF_SIZE,
         m_queue' = Pushed(fd, data)
  PROVE QueueOK'
<1>1. PICK x : x = [client_id |-> fd, conn |-> ConnOf(fd), data |-> data]
  OBVIOUS
<1>2. x \in RawChunk /\ x.data = data
  BY <1>1 DEF RawChunk
<1>3. m_queue' = Append(m_queue, x)
  BY <1>1 DEF Pushed
<1>4. /\ Append(m_queue, x) \in Seq(RawChunk) /\ DOMAIN Append(m_queue, x) = 1 .. Len(m_queue) + 1
      /\ \A i \in 1 .. Len(m_queue) : Append(m_queue, x)[i] = m_queue[i] /\ i \in DOMAIN m_queue
      /\ Append(m_queue, x)[Len(m_queue) + 1] = x /\ Len(m_queue) \in Nat
  BY <1>2 DEF QueueOK
<1>5. \A i \in 1 .. Len(m_queue) + 1 : i \in 1 .. Len(m_queue) \/ i = Len(m_queue) + 1
  BY <1>4
<1>6. \A i \in DOMAIN Append(m_queue, x) : Len(Append(m_queue, x)[i].data) <= RECV_BUF_SIZE
  BY <1>2, <1>4, <1>5 DEF QueueOK
<1> QED
  BY <1>3, <1>4, <1>6 DEF QueueOK

\* disconnect_client closes the one open connection of the descriptor.
LEMMA Disconnected ==
  ASSUME ListenerInv, NEW fd \in OpenFds, disconnect_client(fd)
  PROVE /\ conns' \in Seq(Conn) /\ DOMAIN conns' = DOMAIN conns
        /\ ConnOf(fd) \in DOMAIN conns /\ conns'[ConnOf(fd)] = Closed(conns[ConnOf(fd)])
        /\ \A d \in DOMAIN conns : conns'[d].fd = conns[d].fd
        /\ \A d \in DOMAIN conns : d # ConnOf(fd) => conns'[d] = conns[d]
        /\ \A d \in DOMAIN conns : conns'[d].open => conns[d].open /\ d # ConnOf(fd) /\ conns[d].fd # fd
        /\ OpenFds' = OpenFds \ {fd} /\ OpenIsLast' /\ EveryFdOwned' /\ QueueOK'
        /\ ready' \in Seq(Names) /\ Distinct(ready') /\ Listed' = Listed \ {fd}
<1> USE DEF ListenerInv
<1>1. /\ ConnOf(fd) \in DOMAIN conns /\ conns[ConnOf(fd)].open /\ conns[ConnOf(fd)].fd = fd
      /\ \A d \in DOMAIN conns : conns[d].open => ConnOf(conns[d].fd) = d
  BY OpenConn
<1>2. PICK c \in DOMAIN conns : c = ConnOf(fd)
  BY <1>1
<1>3. conns \in Seq(Conn) /\ conns[c] \in Conn
  BY ConnType
<1>4. Closed(conns[c]) \in Conn /\ Closed(conns[c]).fd = fd /\ Closed(conns[c]).open = FALSE
  BY <1>1, <1>2, <1>3, ClosedConn
<1>5. conns' = [conns EXCEPT ![c] = Closed(conns[c])]
  BY <1>2 DEF disconnect_client
<1>6. /\ conns' \in Seq(Conn) /\ DOMAIN conns' = DOMAIN conns
      /\ conns'[c] = Closed(conns[c]) /\ \A d \in DOMAIN conns : d # c => conns'[d] = conns[d]
  BY <1>3, <1>4, <1>5
<1>7. \A d \in DOMAIN conns : conns'[d].fd = conns[d].fd
  BY <1>1, <1>2, <1>4, <1>6
<1>8. \A d \in DOMAIN conns : conns'[d].open => conns[d].open /\ d # c /\ conns[d].fd # fd
  BY <1>1, <1>2, <1>4, <1>6
<1>9. OpenFds' = OpenFds \ {fd}
  <2>1. \A x : x \in OpenFds' <=> \E d \in DOMAIN conns : conns'[d].open /\ conns'[d].fd = x
    BY <1>6 DEF OpenFds
  <2>2. \A x : x \in OpenFds <=> \E d \in DOMAIN conns : conns[d].open /\ conns[d].fd = x
    BY DEF OpenFds
  <2>3. \A d \in DOMAIN conns : conns[d].open /\ conns[d].fd # fd => conns'[d].open
    BY <1>1, <1>2, <1>6
  <2>4. \A x \in OpenFds' : x \in OpenFds /\ x # fd
    BY <1>7, <1>8, <2>1, <2>2
  <2>5. \A x \in OpenFds : x # fd => x \in OpenFds'
    BY <1>7, <2>1, <2>2, <2>3
  <2> QED
    BY <2>4, <2>5, Zenon
<1>10. OpenIsLast'
  BY <1>6, <1>7, <1>8 DEF OpenIsLast
<1>11. EveryFdOwned'
  <2>1. m_clients' = OpenFds'
    BY <1>9 DEF disconnect_client, EveryFdOwned
  <2>2. \A d, e \in DOMAIN conns : conns'[d].open /\ conns'[e].open /\ d # e => conns'[d].fd # conns'[e].fd
    BY <1>7, <1>8 DEF EveryFdOwned
  <2> QED
    BY <1>6, <2>1, <2>2 DEF EveryFdOwned
<1>12. fd \in Fd /\ c \in Nat
  BY <1>1, <1>2, <1>3 DEF Conn
<1>13. QueueOK'
  <2>1. QueueOK /\ << >> \in Seq(Nat) /\ Len(<< >>) <= RECV_BUF_SIZE
    BY Types, ListenerAssumption
  <2>2. m_queue' = Pushed(fd, << >>)
    BY DEF disconnect_client
  <2> QED
    BY <1>2, <1>12, <2>1, <2>2, QueuePushed
<1>14. ready' \in Seq(Names) /\ Distinct(ready') /\ Listed' = Listed \ {fd}
  <2>1. PICK S : S = Listed \ {fd}
    OBVIOUS
  <2>2. ready' = Only(ready, S)
    BY <2>1 DEF disconnect_client
  <2>3. ready \in Seq(Names) /\ Distinct(ready)
    BY Types DEF ReadyIsCurrent
  <2>4. ready' \in Seq(Names) /\ Elements(ready') = Elements(ready) \cap S /\ Distinct(ready')
    BY <2>2, <2>3, OnlyElements
  <2>5. Listed' = Elements(ready') /\ Listed = Elements(ready)
    BY DEF Listed, Elements
  <2> QED
    BY <2>1, <2>4, <2>5
<1> QED
  BY <1>1, <1>2, <1>6, <1>7, <1>8, <1>9, <1>10, <1>11, <1>13, <1>14

\* AcceptClient adds an open connection on a free descriptor.
LEMMA Accepted ==
  ASSUME ListenerInv, NEW fd \in Fd \ OpenFds, AcceptClient(fd)
  PROVE /\ conns' \in Seq(Conn) /\ DOMAIN conns' = 1 .. Len(conns) + 1 /\ DOMAIN conns = 1 .. Len(conns)
        /\ Len(conns) \in Nat /\ \A d \in DOMAIN conns : conns'[d] = conns[d]
        /\ Head(backlog) \in Sockets
        /\ conns'[Len(conns) + 1] = [fd |-> fd, open |-> TRUE, sock |-> Head(backlog)]
        /\ OpenFds' = OpenFds \cup {fd} /\ OpenIsLast' /\ EveryFdOwned'
        /\ ready' \in Seq(Names) /\ Distinct(ready')
        /\ Listed' = Listed \cup (IF HasInput(Head(backlog)) THEN {fd} ELSE {})
<1> USE DEF ListenerInv
<1> DEFINE n == Len(conns)
<1>1. conns \in Seq(Conn) /\ n \in Nat /\ DOMAIN conns = 1 .. n
  BY ConnType
<1>2. backlog \in Seq(Sockets) /\ backlog # << >> /\ Head(backlog) \in Sockets /\ Tail(backlog) \in Seq(Sockets)
  BY Types DEF AcceptClient, OthersOK
<1>3. fd \notin m_clients
  BY DEF EveryFdOwned
<1>4. PICK x : x = [fd |-> fd, open |-> TRUE, sock |-> Head(backlog)]
  OBVIOUS
<1>5. conns' = Append(conns, x)
  BY <1>3, <1>4 DEF AcceptClient
<1>6. x \in Conn /\ x.fd = fd /\ x.open = TRUE
  BY <1>2, <1>4 DEF Conn
<1>7. /\ conns' \in Seq(Conn) /\ DOMAIN conns' = 1 .. n + 1
      /\ \A d \in 1 .. n : conns'[d] = conns[d]
  BY <1>1, <1>5, <1>6
<1>8. conns'[n + 1] = x
  BY <1>1, <1>5, <1>6
<1>9. \A d \in 1 .. n + 1 : d \in 1 .. n \/ d = n + 1
  BY <1>1
<1> HIDE DEF n
<1>10. \A d \in 1 .. n : conns[d].open => conns[d].fd # fd
  BY <1>1 DEF OpenFds
<1>11. OpenFds' = OpenFds \cup {fd}
  <2>1. \A z : z \in OpenFds' <=> \E d \in 1 .. n + 1 : conns'[d].open /\ conns'[d].fd = z
    BY <1>7 DEF OpenFds
  <2>2. \A z : z \in OpenFds <=> \E d \in 1 .. n : conns[d].open /\ conns[d].fd = z
    BY <1>1 DEF OpenFds
  <2>3. \A z \in OpenFds' : z \in OpenFds \/ z = fd
    BY <1>6, <1>7, <1>8, <1>9, <2>1, <2>2
  <2>4. \A z \in OpenFds : z \in OpenFds'
    <3> SUFFICES ASSUME NEW z \in OpenFds PROVE z \in OpenFds'
      OBVIOUS
    <3>1. PICK d \in 1 .. n : conns[d].open /\ conns[d].fd = z
      BY <2>2
    <3>2. d \in 1 .. n + 1
      BY <1>1
    <3> QED
      BY <1>7, <2>1, <3>1, <3>2
  <2>5. fd \in OpenFds'
    <3>1. n + 1 \in 1 .. n + 1
      BY <1>1
    <3> QED
      BY <1>6, <1>8, <2>1, <3>1
  <2> QED
    BY <2>3, <2>4, <2>5, Zenon
<1>12. OpenIsLast'
  <2> SUFFICES ASSUME NEW c \in 1 .. n + 1, NEW d \in 1 .. n + 1, conns'[c].open, conns'[d].fd = conns'[c].fd
               PROVE d <= c
    BY <1>7 DEF OpenIsLast
  <2>1. CASE c = n + 1
    BY <1>1, <2>1
  <2>2. CASE c \in 1 .. n /\ d = n + 1
    BY <1>6, <1>7, <1>8, <1>10, <2>2
  <2>3. CASE c \in 1 .. n /\ d \in 1 .. n
    BY <1>1, <1>7, <2>3 DEF OpenIsLast
  <2> QED
    BY <1>9, <2>1, <2>2, <2>3
<1>13. EveryFdOwned'
  <2>1. m_clients' = OpenFds'
    BY <1>11 DEF AcceptClient, EveryFdOwned
  <2> SUFFICES ASSUME NEW c \in 1 .. n + 1, NEW d \in 1 .. n + 1, conns'[c].open, conns'[d].open, c # d
               PROVE conns'[c].fd # conns'[d].fd
    BY <1>7, <2>1 DEF EveryFdOwned
  <2>2. CASE c \in 1 .. n /\ d \in 1 .. n
    BY <1>1, <1>7, <2>2 DEF EveryFdOwned
  <2>3. CASE c = n + 1 /\ d \in 1 .. n
    BY <1>6, <1>7, <1>8, <1>10, <2>3
  <2>4. CASE c \in 1 .. n /\ d = n + 1
    BY <1>6, <1>7, <1>8, <1>10, <2>4
  <2> QED
    BY <1>9, <2>2, <2>3, <2>4
<1>14. /\ ready' \in Seq(Names) /\ Distinct(ready')
       /\ Listed' = Listed \cup (IF HasInput(Head(backlog)) THEN {fd} ELSE {})
  <2>1. ready \in Seq(Names) /\ Distinct(ready) /\ fd \in Names
    BY Types DEF ReadyIsCurrent, Names
  <2>2. Listed' = Elements(ready') /\ Listed = Elements(ready)
    BY DEF Listed, Elements
  <2>3. CASE HasInput(Head(backlog))
    <3>1. fd \notin Listed
      BY ListenerAssumption DEF Listed, ReadyIsCurrent, LevelTriggered
    <3>2. ready' = Woken(fd)
      BY <2>3, <3>1 DEF AcceptClient, Woken
    <3> QED
      BY <2>1, <2>2, <2>3, <3>2, WokenElements
  <2>4. CASE ~HasInput(Head(backlog))
    <3>1. ready' = ready
      BY <2>4 DEF AcceptClient
    <3> QED
      BY <2>1, <2>2, <2>4, <3>1
  <2> QED
    BY <2>3, <2>4
<1> QED
  BY <1>1, <1>2, <1>4, <1>7, <1>8, <1>11, <1>12, <1>13, <1>14 DEF n

\* The client that is read is open.
LEMMA Reading ==
  ASSUME ListenerInv, pc = "recv"
  PROVE /\ events # << >> /\ client_fd \in OpenFds /\ client_fd \in Fd /\ client_fd \in EventFds
        /\ ConnOf(client_fd) \in DOMAIN conns /\ ConnOf(client_fd) \in Nat
        /\ conns[ConnOf(client_fd)].open /\ conns[ConnOf(client_fd)].fd = client_fd
        /\ Sock = conns[ConnOf(client_fd)].sock /\ Sock \in Sockets
        /\ Received \in Nat /\ Received <= Len(Sock.buffer) /\ Received <= RECV_BUF_SIZE
        /\ Sock.buffer # << >> => Received > 0
<1> USE DEF ListenerInv
<1>1. events # << >> /\ Head(events).fd \in Fd /\ events \in Seq(Event)
  BY Types DEF Handling
<1>2. Head(events) = events[1] /\ 1 \in DOMAIN events
  BY <1>1
<1>3. events[1].fd \in OpenFds
  BY <1>1, <1>2, ListenerAssumption DEF EventsAreCurrent
<1>4. PICK fd \in OpenFds : fd = client_fd
  BY <1>2, <1>3 DEF client_fd
<1>5. ConnOf(fd) \in DOMAIN conns /\ conns[ConnOf(fd)].open /\ conns[ConnOf(fd)].fd = fd
  BY OpenConn
<1>6. conns[ConnOf(fd)].sock \in Sockets /\ ConnOf(fd) \in Nat
  BY <1>5, ConnType
<1>7. Sock = conns[ConnOf(fd)].sock
  BY <1>4 DEF Sock
<1>8. Sock.buffer \in Seq(Nat) /\ Len(Sock.buffer) \in Nat
  BY <1>6, <1>7 DEF Sockets
<1>9. Received \in Nat /\ Received <= Len(Sock.buffer) /\ Received <= RECV_BUF_SIZE
  BY <1>8, ListenerAssumption DEF Received, Least
<1>10. Sock.buffer # << >> => Received > 0
  BY <1>8, ListenerAssumption DEF Received, Least
<1>11. client_fd \in EventFds /\ client_fd \in Fd
  BY <1>1, <1>2 DEF EventFds, client_fd
<1> QED
  BY <1>1, <1>4, <1>5, <1>6, <1>7, <1>9, <1>10, <1>11

LEMMA BufferReplaced ==
  ASSUME NEW s \in Sockets, NEW b \in Seq(Nat)
  PROVE [s EXCEPT !.buffer = b] = [peer |-> s.peer, left |-> s.left, buffer |-> b, ended |-> s.ended]
BY SMTT(20) DEF Sockets

LEMMA DrainedSocket ==
  ASSUME NEW s \in Sockets, NEW n \in Nat, n <= Len(s.buffer)
  PROVE /\ Drained(s, n) \in Sockets /\ Drained(s, n).peer = s.peer /\ Drained(s, n).ended = s.ended
        /\ Drained(s, n).left = s.left
        /\ Drained(s, n).buffer = SubSeq(s.buffer, n + 1, Len(s.buffer))
<1>1. PICK b : b = SubSeq(s.buffer, n + 1, Len(s.buffer))
  OBVIOUS
<1>2. s.buffer \in Seq(Nat) /\ b \in Seq(Nat)
  BY <1>1 DEF Sockets
<1>3. Drained(s, n) = [s EXCEPT !.buffer = b]
  BY <1>1 DEF Drained
<1>4. Drained(s, n) = [peer |-> s.peer, left |-> s.left, buffer |-> b, ended |-> s.ended]
  BY <1>2, <1>3, BufferReplaced, Zenon
<1>5. Drained(s, n) \in Sockets
  BY <1>2, <1>4 DEF Sockets
<1> QED
  BY <1>1, <1>4, <1>5

\* epoll_wait hands over descriptors that have events; those that do, and are
\* not handed over or are level-triggered, stay listed.
LEMMA Waited ==
  ASSUME ListenerInv, EpollWait
  PROVE /\ events' \in Seq(Event) /\ events' # << >>
        /\ \A i \in DOMAIN events' : events'[i].fd \in Listed /\ events'[i].failed = Failed(events'[i].fd)
        /\ \A i, j \in DOMAIN events' : i # j => events'[i].fd # events'[j].fd
        /\ ready' \in Seq(Names) /\ Distinct(ready') /\ Listed' \subseteq Listed
        /\ \A fd \in Listed : HasEvents(fd) => fd \in Listed' \/ fd \in EventFds'
<1> USE DEF ListenerInv
<1>1. PICK S : S = {fd \in Listed : HasEvents(fd)}
  OBVIOUS
<1>2. PICK found : found = Only(ready, S)
  OBVIOUS
<1>3. ready \in Seq(Names) /\ Distinct(ready) /\ Elements(ready) = Listed
  BY Types DEF ReadyIsCurrent, Elements, Listed
<1>4. found \in Seq(Names) /\ Distinct(found) /\ Elements(found) = S
  <2>1. found \in Seq(Names) /\ Distinct(found) /\ Elements(found) = Elements(ready) \cap S
    BY <1>2, <1>3, OnlyElements
  <2> QED
    BY <1>1, <1>3, <2>1
<1>5. PICK n : n = Least(Len(found), MAX_EPOLL_EVENTS)
  OBVIOUS
<1>6. /\ n > 0
      /\ events' = [i \in 1 .. n |-> [fd |-> found[i], failed |-> Failed(found[i])]]
      /\ ready' = SubSeq(found, n + 1, Len(found)) \o Only(SubSeq(found, 1, n), LevelTriggered)
  BY <1>1, <1>2, <1>5 DEF EpollWait
<1>7. n \in 1 .. Len(found) /\ Len(found) \in Nat /\ DOMAIN found = 1 .. Len(found)
  BY <1>4, <1>5, <1>6, ListenerAssumption DEF Least
<1>8. \A i \in 1 .. Len(found) : found[i] \in Listed /\ found[i] \in Names
  BY <1>1, <1>4, <1>7 DEF Elements
<1>9. \A fd : Failed(fd) \in BOOLEAN
  BY DEF Failed
<1>10. /\ DOMAIN events' = 1 .. n /\ events' \in Seq(Event)
       /\ \A i \in 1 .. n : events'[i].fd = found[i] /\ events'[i].failed = Failed(found[i])
  <2> DEFINE e(i) == [fd |-> found[i], failed |-> Failed(found[i])]
  <2>1. \A i \in 1 .. n : e(i) \in Event /\ e(i).fd = found[i] /\ e(i).failed = Failed(found[i])
    BY <1>7, <1>8, <1>9 DEF Event, Names
  <2>2. events' = [i \in 1 .. n |-> e(i)]
    BY <1>6
  <2> HIDE DEF e
  <2> QED
    BY <1>7, <2>1, <2>2
<1>11. events' # << >>
  BY <1>7, <1>10
<1>12. \A i \in DOMAIN events' : events'[i].fd \in Listed /\ events'[i].failed = Failed(events'[i].fd)
  BY <1>7, <1>8, <1>10
<1>13. \A i, j \in DOMAIN events' : i # j => events'[i].fd # events'[j].fd
  BY <1>4, <1>7, <1>10 DEF Distinct
<1>14. PICK first : first = SubSeq(found, 1, n)
  OBVIOUS
<1>15. PICK rest : rest = SubSeq(found, n + 1, Len(found))
  OBVIOUS
<1>16. PICK again : again = Only(first, LevelTriggered)
  OBVIOUS
<1>17. /\ first \in Seq(Names) /\ DOMAIN first = 1 .. n /\ \A i \in 1 .. n : first[i] = found[i]
       /\ rest \in Seq(Names) /\ DOMAIN rest = 1 .. Len(found) - n /\ Len(rest) = Len(found) - n
       /\ \A i \in 1 .. Len(found) - n : rest[i] = found[n + i]
  <2>1. first \in Seq(Names) /\ DOMAIN first = 1 .. n /\ \A i \in 1 .. n : first[i] = found[i]
    BY <1>4, <1>7, <1>14
  <2>2. n \in 0 .. Len(found)
    BY <1>7
  <2>3. /\ rest \in Seq(Names) /\ DOMAIN rest = 1 .. Len(found) - n /\ Len(rest) = Len(found) - n
        /\ \A i \in 1 .. Len(found) - n : rest[i] = found[n + i]
    BY <1>4, <1>15, <2>2, RestOf, Zenon
  <2> QED
    BY <2>1, <2>3
<1>18. Distinct(first) /\ Distinct(rest)
  <2>1. \A i, j \in 1 .. Len(found) : i # j => found[i] # found[j]
    BY <1>4, <1>7 DEF Distinct
  <2>2. \A i, j \in 1 .. n : i # j => first[i] # first[j]
    BY <1>7, <1>17, <2>1
  <2>3. \A i, j \in 1 .. Len(found) - n : i # j => rest[i] # rest[j]
    <3> SUFFICES ASSUME NEW i \in 1 .. Len(found) - n, NEW j \in 1 .. Len(found) - n, i # j
                 PROVE rest[i] # rest[j]
      OBVIOUS
    <3>1. n + i \in 1 .. Len(found) /\ n + j \in 1 .. Len(found) /\ n + i # n + j
      BY <1>7
    <3> QED
      BY <1>17, <2>1, <3>1
  <2> QED
    BY <1>17, <2>2, <2>3 DEF Distinct
<1>19. again \in Seq(Names) /\ Distinct(again) /\ Elements(again) = Elements(first) \cap LevelTriggered
  BY <1>16, <1>17, <1>18, OnlyElements
<1>20. \A i \in DOMAIN rest, k \in DOMAIN first : rest[i] # first[k]
  <2> SUFFICES ASSUME NEW i \in 1 .. Len(found) - n, NEW k \in 1 .. n PROVE rest[i] # first[k]
    BY <1>17
  <2>1. n + i \in DOMAIN found /\ k \in DOMAIN found /\ n + i # k
    BY <1>7
  <2> QED
    BY <1>4, <1>17, <2>1 DEF Distinct
<1>21. \A i \in DOMAIN rest, k \in DOMAIN again : rest[i] # again[k]
  BY <1>19, <1>20 DEF Elements
<1>22. ready' = rest \o again
  BY <1>6, <1>14, <1>15, <1>16
<1>23. /\ ready' \in Seq(Names) /\ DOMAIN ready' = 1 .. Len(rest) + Len(again)
       /\ \A i \in 1 .. Len(rest) : ready'[i] = rest[i] /\ i \in DOMAIN rest
       /\ \A i \in Len(rest) + 1 .. Len(rest) + Len(again) :
            ready'[i] = again[i - Len(rest)] /\ i - Len(rest) \in DOMAIN again
       /\ Len(rest) \in Nat /\ Len(again) \in Nat
  BY <1>17, <1>19, <1>22
<1>24. Distinct(ready')
  <2> SUFFICES ASSUME NEW i \in DOMAIN ready', NEW j \in DOMAIN ready', i # j PROVE ready'[i] # ready'[j]
    BY DEF Distinct
  <2>1. CASE i <= Len(rest) /\ j <= Len(rest)
    BY <1>18, <1>23, <2>1 DEF Distinct
  <2>2. CASE i <= Len(rest) /\ j > Len(rest)
    BY <1>21, <1>23, <2>2
  <2>3. CASE i > Len(rest) /\ j <= Len(rest)
    BY <1>21, <1>23, <2>3
  <2>4. CASE i > Len(rest) /\ j > Len(rest)
    BY <1>19, <1>23, <2>4 DEF Distinct
  <2> QED
    BY <1>23, <2>1, <2>2, <2>3, <2>4
<1>25. Listed' = Elements(rest) \cup Elements(again)
  <2>1. \A i \in DOMAIN rest : i \in DOMAIN ready' /\ ready'[i] = rest[i]
    BY <1>17, <1>19, <1>22
  <2>2. \A i \in DOMAIN again : i + Len(rest) \in DOMAIN ready' /\ ready'[i + Len(rest)] = again[i]
    BY <1>17, <1>19, <1>22
  <2>3. \A i \in DOMAIN ready' : \/ i \in DOMAIN rest /\ ready'[i] = rest[i]
                                 \/ i - Len(rest) \in DOMAIN again /\ ready'[i] = again[i - Len(rest)]
    BY <1>23
  <2>4. \A x \in Listed' : x \in Elements(rest) \/ x \in Elements(again)
    BY <2>3 DEF Listed, Elements
  <2>5. \A x \in Elements(rest) : x \in Listed'
    BY <2>1 DEF Listed, Elements
  <2>6. \A x \in Elements(again) : x \in Listed'
    BY <2>2 DEF Listed, Elements
  <2> QED
    BY <2>4, <2>5, <2>6, Zenon
<1>26. Elements(rest) \subseteq Listed /\ Elements(first) \subseteq Listed
  <2>1. ASSUME NEW i \in DOMAIN first PROVE first[i] \in Listed
    <3>1. i \in 1 .. n /\ i \in 1 .. Len(found)
      BY <1>7, <1>17
    <3> QED
      BY <1>8, <1>17, <3>1, Zenon
  <2>2. ASSUME NEW i \in DOMAIN rest PROVE rest[i] \in Listed
    <3>1. i \in 1 .. Len(found) - n /\ n + i \in 1 .. Len(found)
      BY <1>7, <1>17
    <3> QED
      BY <1>8, <1>17, <3>1, Zenon
  <2> QED
    BY <2>1, <2>2, Zenon DEF Elements
<1>27. Listed' \subseteq Listed
  BY <1>19, <1>25, <1>26
<1>28. EventFds' = Elements(first)
  BY <1>10, <1>17 DEF EventFds, Elements
<1>29. S \subseteq Elements(first) \cup Elements(rest)
  <2> SUFFICES ASSUME NEW i \in 1 .. Len(found) PROVE found[i] \in Elements(first) \cup Elements(rest)
    BY <1>4, <1>7 DEF Elements
  <2>1. CASE i <= n
    BY <1>7, <1>17, <2>1 DEF Elements
  <2>2. CASE i > n
    <3>1. i - n \in DOMAIN rest /\ rest[i - n] = found[i]
      BY <1>7, <1>17, <2>2
    <3> QED
      BY <3>1 DEF Elements
  <2> QED
    BY <1>7, <2>1, <2>2
<1>30. \A fd \in Listed : HasEvents(fd) => fd \in Listed' \/ fd \in EventFds'
  <2>1. \A fd \in Listed : HasEvents(fd) => fd \in S
    BY <1>1
  <2> QED
    BY <1>25, <1>28, <1>29, <2>1, Zenon
<1> QED
  BY <1>10, <1>11, <1>12, <1>13, <1>23, <1>24, <1>27, <1>30

-----------------------------------------------------------------------------
(* The steps, by what they leave alone.                                    *)

\* NoEdgeLost, with the lists as sets.
LEMMA EdgeSets ==
  NoEdgeLost <=>
    (pc # "done" => \A c \in DOMAIN conns : conns[c].open /\ HasInput(conns[c].sock) =>
                      conns[c].fd \in Listed \cup EventFds)
BY DEF NoEdgeLost, Noticed, EventFds

LEMMA EventSets ==
  EventsAreCurrent <=> /\ EventFds \subseteq OpenFds \cup LevelTriggered
                       /\ \A i, j \in DOMAIN events : i # j => events[i].fd # events[j].fd
BY DEF EventsAreCurrent, EventFds, LevelTriggered

LEMMA ReadySets ==
  ReadyIsCurrent <=> Listed \subseteq OpenFds \cup LevelTriggered /\ Distinct(ready)
BY DEF ReadyIsCurrent, Listed

\* Neither the connections nor the events change.
LEMMA SameEvents ==
  ASSUME ListenerInv, TypeOK', conns' = conns, m_clients' = m_clients, events' = events,
         Distinct(ready'), Listed \subseteq Listed', Listed' \subseteq Listed \cup LevelTriggered,
         Handling', pc = "done" => pc' = "done"
  PROVE ListenerInv'
<1> USE DEF ListenerInv
<1>1. OpenFds' = OpenFds /\ OpenIsLast' /\ EveryFdOwned' /\ EventFds' = EventFds
  BY DEF OpenFds, OpenIsLast, EveryFdOwned, EventFds
<1>2. ReadyIsCurrent'
  <2>1. Listed' \subseteq OpenFds' \cup LevelTriggered
    BY <1>1, ReadySets
  <2> QED
    BY <2>1 DEF ReadyIsCurrent, Listed
<1>3. EventsAreCurrent' /\ FailedAreReset'
  BY <1>1 DEF EventsAreCurrent, FailedAreReset
<1>4. NoEdgeLost'
  <2> SUFFICES ASSUME pc' # "done", NEW c \in DOMAIN conns, conns[c].open, HasInput(conns[c].sock)
               PROVE Noticed(conns[c].fd)'
    BY DEF NoEdgeLost
  <2>1. conns[c].fd \in Listed \cup EventFds
    BY EdgeSets
  <2>2. conns[c].fd \in Listed' \/ conns[c].fd \in EventFds'
    BY <1>1, <2>1
  <2> QED
    BY <2>2 DEF Noticed, EventFds
<1> QED
  BY <1>1, <1>2, <1>3, <1>4

\* The event that has been handled leaves, and needed no more.
LEMMA MovesOn ==
  ASSUME ListenerInv, TypeOK', conns' = conns, m_clients' = m_clients, ready' = ready,
         events # << >>, NextIteration, pc # "done",
         \A c \in DOMAIN conns : conns[c].open /\ HasInput(conns[c].sock) => conns[c].fd # Head(events).fd
  PROVE ListenerInv'
<1> USE DEF ListenerInv
<1>1. /\ EventFds' = EventFds \ {Head(events).fd} /\ Handling'
      /\ \A i, j \in DOMAIN events' : i # j => events'[i].fd # events'[j].fd
      /\ \A i \in DOMAIN events' : \E j \in DOMAIN events : events'[i] = events[j]
  BY Iterated
<1>2. OpenFds' = OpenFds /\ OpenIsLast' /\ EveryFdOwned' /\ ReadyIsCurrent' /\ Listed' = Listed
  BY DEF OpenFds, OpenIsLast, EveryFdOwned, ReadyIsCurrent, Listed
<1>3. EventsAreCurrent'
  <2>1. EventFds' \subseteq OpenFds' \cup LevelTriggered
    BY <1>1, <1>2, EventSets
  <2> QED
    BY <1>1, <2>1 DEF EventsAreCurrent, EventFds, LevelTriggered
<1>4. FailedAreReset'
  BY <1>1 DEF FailedAreReset
<1>5. NoEdgeLost'
  <2> SUFFICES ASSUME NEW c \in DOMAIN conns, conns[c].open, HasInput(conns[c].sock)
               PROVE Noticed(conns[c].fd)'
    BY DEF NoEdgeLost
  <2>1. conns[c].fd \in Listed \cup EventFds /\ conns[c].fd # Head(events).fd
    BY EdgeSets
  <2>2. conns[c].fd \in Listed' \/ conns[c].fd \in EventFds'
    BY <1>1, <1>2, <2>1
  <2> QED
    BY <2>2 DEF Noticed, EventFds
<1> QED
  BY <1>1, <1>2, <1>3, <1>4, <1>5

\* The client whose event is handled is disconnected.
LEMMA Disconnects ==
  ASSUME ListenerInv, TypeOK', events # << >>, NextIteration, pc # "done",
         Head(events).fd \in OpenFds, disconnect_client(Head(events).fd)
  PROVE ListenerInv'
<1> USE DEF ListenerInv
<1>1. PICK fd \in OpenFds : fd = Head(events).fd
  OBVIOUS
<1>2. /\ EventFds' = EventFds \ {fd} /\ Handling'
      /\ \A i, j \in DOMAIN events' : i # j => events'[i].fd # events'[j].fd
      /\ \A i \in DOMAIN events' : \E j \in DOMAIN events : events'[i] = events[j]
  BY <1>1, Iterated
<1>3. disconnect_client(fd)
  BY <1>1
<1>4. /\ DOMAIN conns' = DOMAIN conns
      /\ \A d \in DOMAIN conns : conns'[d].open => /\ conns[d].open /\ conns'[d] = conns[d]
                                                   /\ conns[d].fd # fd
      /\ OpenFds' = OpenFds \ {fd} /\ OpenIsLast' /\ EveryFdOwned'
      /\ Distinct(ready') /\ Listed' = Listed \ {fd}
  BY <1>3, Disconnected
<1>5. ReadyIsCurrent'
  <2>1. Listed' \subseteq OpenFds' \cup LevelTriggered
    BY <1>4, ReadySets
  <2> QED
    BY <1>4, <2>1 DEF ReadyIsCurrent, Listed
<1>6. EventsAreCurrent'
  <2>1. EventFds' \subseteq OpenFds' \cup LevelTriggered
    BY <1>2, <1>4, EventSets
  <2> QED
    BY <1>2, <2>1 DEF EventsAreCurrent, EventFds, LevelTriggered
<1>7. FailedAreReset'
  BY <1>2, <1>4 DEF FailedAreReset
<1>8. NoEdgeLost'
  <2> SUFFICES ASSUME NEW c \in DOMAIN conns, conns'[c].open, HasInput(conns'[c].sock)
               PROVE Noticed(conns[c].fd)'
    BY <1>4 DEF NoEdgeLost
  <2>1. conns[c].open /\ HasInput(conns[c].sock) /\ conns'[c].fd = conns[c].fd /\ conns[c].fd # fd
    BY <1>4
  <2>2. conns[c].fd \in Listed \cup EventFds
    BY <2>1, EdgeSets
  <2>3. conns'[c].fd \in Listed' \/ conns'[c].fd \in EventFds'
    BY <1>2, <1>4, <2>1, <2>2
  <2> QED
    BY <2>3 DEF Noticed, EventFds
<1> QED
  BY <1>2, <1>4, <1>5, <1>6, <1>7, <1>8

-----------------------------------------------------------------------------
(* The other steps.                                                        *)

\* What the network does to a socket keeps the counters numbers; a reset is final.
LEMMA HappensTo ==
  ASSUME TypeOK, NEW s \in Sockets, NEW t \in Changed(s), Happens(s, t)
  PROVE bytes' \in Nat /\ incidents' \in Nat /\ s.ended # "rst"
<1>1. Len(t.left) \in 0 .. Len(s.left) /\ Len(s.left) \in Nat
  <2>1. s.left \in Seq(Nat)
    BY DEF Sockets
  <2> QED
    BY <2>1, ChangedSocket
<1>2. bytes \in Nat /\ incidents \in Nat
  BY DEF TypeOK
<1>3. bytes' = bytes + Len(s.left) - Len(t.left) /\ incidents' \in {incidents, incidents + 1}
  BY <1>2 DEF Happens
<1>4. s.ended # "rst"
  BY DEF Happens
<1> QED
  BY <1>1, <1>2, <1>3, <1>4

LEMMA ChangesAccepted ==
  ASSUME ListenerInv, NEW c \in DOMAIN conns, ChangeAccepted(c)
  PROVE ListenerInv'
<1> USE DEF ListenerInv
<1>1. PICK t \in Changed(conns[c].sock) :
        Happens(conns[c].sock, t) /\ conns' = [conns EXCEPT ![c].sock = t]
  BY DEF ChangeAccepted
<1>2. conns[c].sock \in Sockets /\ conns[c].open /\ conns[c].fd \in Fd
  BY ConnType DEF ChangeAccepted, Conn
<1>3. t \in Sockets
  BY <1>2, ChangedSocket
<1>4. bytes' \in Nat /\ incidents' \in Nat /\ conns[c].sock.ended # "rst"
  BY <1>1, <1>2, HappensTo
<1>5. /\ conns' \in Seq(Conn) /\ DOMAIN conns' = DOMAIN conns
      /\ \A d \in DOMAIN conns : conns'[d].fd = conns[d].fd /\ conns'[d].open = conns[d].open
      /\ \A d \in DOMAIN conns : conns'[d].sock = IF d = c THEN t ELSE conns[d].sock
  BY <1>1, <1>3, SocketChanged
<1>6. OpenFds' = OpenFds /\ OpenIsLast' /\ EveryFdOwned'
  <2>1. m_clients' = m_clients
    BY DEF ChangeAccepted
  <2> QED
    BY <1>5, <2>1, SameOwners
<1>7. PICK fd : fd = conns[c].fd
  OBVIOUS
<1>8. fd \in Names /\ fd \in OpenFds
  BY <1>2, <1>7 DEF Names, OpenFds
<1>9. ready' \in Seq(Names) /\ Distinct(ready') /\ Listed' = Listed \cup {fd}
  <2>1. ready' = Woken(fd)
    BY <1>7 DEF ChangeAccepted
  <2>2. ready \in Seq(Names) /\ Distinct(ready)
    BY Types DEF ReadyIsCurrent
  <2>3. Listed' = Elements(ready')
    BY DEF Listed, Elements
  <2> QED
    BY <1>8, <2>1, <2>2, <2>3, WokenElements
<1>10. events' = events /\ pc' = pc /\ EventFds' = EventFds /\ Handling'
  BY DEF ChangeAccepted, EventFds, Handling
<1>11. TypeOK'
  <2>1. m_clients' \subseteq Fd /\ QueueOK' /\ events' \in Seq(Event) /\ pc' \in Control
    BY Types DEF ChangeAccepted, QueueOK
  <2>2. OthersOK'
    BY <1>4, Types DEF ChangeAccepted, OthersOK
  <2> QED
    BY <1>5, <1>9, <2>1, <2>2, Zenon DEF TypeOK, Conn, Names, QueueOK, RawChunk, OthersOK, Control
<1>12. ReadyIsCurrent'
  <2>1. Listed' \subseteq OpenFds' \cup LevelTriggered
    BY <1>6, <1>8, <1>9, ReadySets
  <2> QED
    BY <1>9, <2>1 DEF ReadyIsCurrent, Listed
<1>13. EventsAreCurrent'
  BY <1>6, <1>10 DEF EventsAreCurrent
<1>14. FailedAreReset'
  <2> SUFFICES ASSUME NEW i \in DOMAIN events, NEW d \in DOMAIN conns, events[i].failed,
                      conns'[d].open, conns'[d].fd = events[i].fd
               PROVE conns'[d].sock.ended = "rst"
    BY <1>5, <1>10 DEF FailedAreReset
  <2>1. conns[d].sock.ended = "rst"
    BY <1>5 DEF FailedAreReset
  <2> QED
    BY <1>4, <1>5, <2>1
<1>15. NoEdgeLost'
  <2> SUFFICES ASSUME pc' # "done", NEW d \in DOMAIN conns, conns'[d].open, HasInput(conns'[d].sock)
               PROVE conns'[d].fd \in Listed' \cup EventFds'
    BY <1>5 DEF NoEdgeLost, Noticed, EventFds
  <2>1. CASE d = c
    BY <1>5, <1>7, <1>9, <2>1
  <2>2. CASE d # c
    <3>1. conns[d].open /\ HasInput(conns[d].sock) /\ conns'[d].fd = conns[d].fd
      BY <1>5, <2>2
    <3>2. conns[d].fd \in Listed \cup EventFds
      BY <1>10, <3>1, EdgeSets
    <3> QED
      BY <1>9, <1>10, <3>1, <3>2
  <2> QED
    BY <2>1, <2>2
<1> QED
  BY <1>6, <1>10, <1>11, <1>12, <1>13, <1>14, <1>15

LEMMA Waits ==
  ASSUME ListenerInv, EpollWait
  PROVE ListenerInv'
<1> USE DEF ListenerInv
<1>1. /\ events' \in Seq(Event) /\ events' # << >>
      /\ \A i \in DOMAIN events' : events'[i].fd \in Listed /\ events'[i].failed = Failed(events'[i].fd)
      /\ \A i, j \in DOMAIN events' : i # j => events'[i].fd # events'[j].fd
      /\ ready' \in Seq(Names) /\ Distinct(ready') /\ Listed' \subseteq Listed
      /\ \A fd \in Listed : HasEvents(fd) => fd \in Listed' \/ fd \in EventFds'
  BY Waited
<1>2. /\ conns' = conns /\ m_clients' = m_clients /\ pc' = "dispatch" /\ pc = "epoll_wait"
      /\ UNCHANGED <<backlog, eventfd, m_queue, stop_requested, bounds>>
  BY DEF EpollWait
<1>3. OpenFds' = OpenFds /\ OpenIsLast' /\ EveryFdOwned' /\ Handling'
  BY <1>1, <1>2 DEF OpenFds, OpenIsLast, EveryFdOwned, Handling
<1>4. TypeOK'
  <2>1. conns' \in Seq(Conn) /\ m_clients' \subseteq Fd /\ QueueOK' /\ pc' \in Control /\ OthersOK'
    BY <1>2, Types DEF QueueOK, OthersOK, Control, bounds
  <2> QED
    BY <1>1, <2>1, Zenon DEF TypeOK, Conn, Names, QueueOK, RawChunk, OthersOK, Control
<1>5. ReadyIsCurrent'
  <2>1. Listed' \subseteq OpenFds' \cup LevelTriggered
    BY <1>1, <1>3, ReadySets
  <2> QED
    BY <1>1, <2>1 DEF ReadyIsCurrent, Listed
<1>6. EventsAreCurrent'
  <2>1. \A i \in DOMAIN events' : events'[i].fd \in OpenFds' \cup {"server", "event"}
    BY <1>1, <1>3, ReadySets DEF LevelTriggered
  <2> QED
    BY <1>1, <2>1 DEF EventsAreCurrent
<1>7. FailedAreReset'
  <2> SUFFICES ASSUME NEW i \in DOMAIN events', NEW c \in DOMAIN conns, events'[i].failed,
                      conns[c].open, conns[c].fd = events'[i].fd
               PROVE conns[c].sock.ended = "rst"
    BY <1>2 DEF FailedAreReset
  <2>1. Failed(conns[c].fd)
    BY <1>1
  <2>2. ConnOf(conns[c].fd) = c
    BY OpenConn
  <2> QED
    BY <2>1, <2>2 DEF Failed
<1>8. NoEdgeLost'
  <2> SUFFICES ASSUME NEW c \in DOMAIN conns, conns[c].open, HasInput(conns[c].sock)
               PROVE conns[c].fd \in Listed' \cup EventFds'
    BY <1>2 DEF NoEdgeLost, Noticed, EventFds
  <2>1. EventFds = {}
    BY <1>2 DEF Handling, EventFds
  <2>2. conns[c].fd \in Listed
    BY <1>2, <2>1, EdgeSets
  <2>3. ConnOf(conns[c].fd) = c
    BY OpenConn
  <2>4. conns[c].fd \in Fd
    BY ConnType DEF Conn
  <2>5. conns[c].fd # "server" /\ conns[c].fd # "event"
    BY <2>4, ListenerAssumption
  <2>6. HasEvents(conns[c].fd)
    BY <2>3, <2>5 DEF HasEvents
  <2> QED
    BY <1>1, <2>2, <2>6
<1> QED
  BY <1>3, <1>4, <1>5, <1>6, <1>7, <1>8

LEMMA Accepts ==
  ASSUME ListenerInv, NEW fd \in Fd \ OpenFds, AcceptClient(fd)
  PROVE ListenerInv'
<1> USE DEF ListenerInv
<1> DEFINE n == Len(conns)
<1>1. /\ conns' \in Seq(Conn) /\ DOMAIN conns' = 1 .. n + 1 /\ DOMAIN conns = 1 .. n
      /\ n \in Nat /\ \A d \in DOMAIN conns : conns'[d] = conns[d]
      /\ conns'[n + 1] = [fd |-> fd, open |-> TRUE, sock |-> Head(backlog)]
      /\ OpenFds' = OpenFds \cup {fd} /\ OpenIsLast' /\ EveryFdOwned'
      /\ ready' \in Seq(Names) /\ Distinct(ready')
      /\ Listed' = Listed \cup (IF HasInput(Head(backlog)) THEN {fd} ELSE {})
  BY Accepted
<1>2. conns'[n + 1].fd = fd /\ conns'[n + 1].sock = Head(backlog)
  BY <1>1
<1>3. \A d \in 1 .. n + 1 : d \in 1 .. n \/ d = n + 1
  BY <1>1
<1> HIDE DEF n
<1>4. /\ events' = events /\ pc' = pc /\ EventFds' = EventFds /\ Handling' /\ pc = "accept"
  BY DEF AcceptClient, EventFds, Handling
<1>5. TypeOK'
  <2>1. m_clients' \subseteq Fd /\ QueueOK' /\ events' \in Seq(Event) /\ pc' \in Control
    BY Types DEF AcceptClient, QueueOK
  <2>2. OthersOK'
    <3>1. backlog' \in Seq(Sockets)
      BY Types DEF AcceptClient, OthersOK
    <3> QED
      BY <3>1, Types DEF AcceptClient, OthersOK, bounds
  <2> QED
    BY <1>1, <2>1, <2>2, Zenon DEF TypeOK, Conn, Names, QueueOK, RawChunk, OthersOK, Control
<1>6. ReadyIsCurrent'
  <2>1. Listed' \subseteq OpenFds' \cup LevelTriggered
    BY <1>1, ReadySets
  <2> QED
    BY <1>1, <2>1 DEF ReadyIsCurrent, Listed
<1>7. EventsAreCurrent'
  <2>1. \A i \in DOMAIN events' : events'[i].fd \in OpenFds' \cup {"server", "event"}
    BY <1>1, <1>4 DEF EventsAreCurrent
  <2> QED
    BY <1>4, <2>1 DEF EventsAreCurrent
<1>8. \A i \in DOMAIN events : events[i].fd # fd
  BY ListenerAssumption DEF EventsAreCurrent
<1>9. FailedAreReset'
  <2> SUFFICES ASSUME NEW i \in DOMAIN events, NEW d \in 1 .. n + 1, events[i].failed,
                      conns'[d].open, conns'[d].fd = events[i].fd
               PROVE conns'[d].sock.ended = "rst"
    BY <1>1, <1>4 DEF FailedAreReset
  <2>1. d \in 1 .. n
    BY <1>2, <1>3, <1>8
  <2> QED
    BY <1>1, <2>1 DEF FailedAreReset
<1>10. NoEdgeLost'
  <2> SUFFICES ASSUME NEW d \in 1 .. n + 1, conns'[d].open, HasInput(conns'[d].sock)
               PROVE conns'[d].fd \in Listed' \cup EventFds'
    BY <1>1 DEF NoEdgeLost, Noticed, EventFds
  <2>1. CASE d = n + 1
    BY <1>1, <1>2, <2>1
  <2>2. CASE d \in 1 .. n
    <3>1. conns[d].fd \in Listed \cup EventFds
      BY <1>1, <1>4, <2>2, EdgeSets
    <3> QED
      BY <1>1, <1>4, <2>2, <3>1
  <2> QED
    BY <1>3, <2>1, <2>2
<1> QED
  BY <1>1, <1>4, <1>5, <1>6, <1>7, <1>9, <1>10

LEMMA Receives ==
  ASSUME ListenerInv, RecvData
  PROVE ListenerInv'
<1> USE DEF ListenerInv
<1>0. pc = "recv"
  BY DEF RecvData
<1>1. PICK c \in DOMAIN conns : c = ConnOf(client_fd)
  BY <1>0, Reading
<1>2. /\ client_fd \in Fd /\ client_fd \in EventFds /\ c \in Nat
      /\ conns[c].open /\ conns[c].fd = client_fd /\ Sock = conns[c].sock /\ Sock \in Sockets
      /\ Received \in Nat /\ Received <= Len(Sock.buffer) /\ Received <= RECV_BUF_SIZE
  BY <1>0, <1>1, Reading
<1>3. PICK t : t = Drained(Sock, Received)
  OBVIOUS
<1>4. t \in Sockets /\ t.ended = conns[c].sock.ended
  BY <1>2, <1>3, DrainedSocket
<1>5. conns' = [conns EXCEPT ![c].sock = t]
  BY <1>1, <1>3 DEF RecvData
<1>6. /\ conns' \in Seq(Conn) /\ DOMAIN conns' = DOMAIN conns
      /\ \A d \in DOMAIN conns : conns'[d].fd = conns[d].fd /\ conns'[d].open = conns[d].open
      /\ \A d \in DOMAIN conns : conns'[d].sock = IF d = c THEN t ELSE conns[d].sock
  BY <1>4, <1>5, SocketChanged
<1>7. /\ m_clients' = m_clients /\ ready' = ready /\ events' = events /\ pc' = pc
      /\ m_queue' = Pushed(client_fd, SubSeq(Sock.buffer, 1, Received))
      /\ UNCHANGED <<backlog, eventfd, stop_requested, bounds>>
  BY DEF RecvData, AfterData
<1>8. OpenFds' = OpenFds /\ OpenIsLast' /\ EveryFdOwned'
  BY <1>6, <1>7, SameOwners
<1>9. EventFds' = EventFds /\ Listed' = Listed /\ Handling'
  BY <1>7 DEF EventFds, Listed, Handling
<1>10. QueueOK'
  <2>1. PICK data : data = SubSeq(Sock.buffer, 1, Received)
    OBVIOUS
  <2>2. Sock.buffer \in Seq(Nat)
    BY <1>2 DEF Sockets
  <2>3. data \in Seq(Nat) /\ Len(data) <= RECV_BUF_SIZE
    BY <1>2, <2>1, <2>2
  <2>4. m_queue' = Pushed(client_fd, data) /\ QueueOK
    BY <1>7, <2>1, Types
  <2> QED
    BY <1>1, <1>2, <2>3, <2>4, QueuePushed
<1>11. TypeOK'
  <2>1. m_clients' \subseteq Fd /\ ready' \in Seq(Names) /\ events' \in Seq(Event) /\ pc' \in Control /\ OthersOK'
    BY <1>7, Types DEF OthersOK, bounds
  <2> QED
    BY <1>6, <1>10, <2>1, Zenon DEF TypeOK, Conn, Names, QueueOK, RawChunk, OthersOK, Control
<1>12. ReadyIsCurrent' /\ EventsAreCurrent'
  BY <1>7, <1>8 DEF ReadyIsCurrent, EventsAreCurrent
<1>13. FailedAreReset'
  <2> SUFFICES ASSUME NEW i \in DOMAIN events, NEW d \in DOMAIN conns, events[i].failed,
                      conns'[d].open, conns'[d].fd = events[i].fd
               PROVE conns'[d].sock.ended = "rst"
    BY <1>6, <1>7 DEF FailedAreReset
  <2>1. conns[d].sock.ended = "rst"
    BY <1>6 DEF FailedAreReset
  <2> QED
    BY <1>4, <1>6, <2>1
<1>14. NoEdgeLost'
  <2> SUFFICES ASSUME NEW d \in DOMAIN conns, conns'[d].open, HasInput(conns'[d].sock)
               PROVE conns'[d].fd \in Listed' \cup EventFds'
    BY <1>6 DEF NoEdgeLost, Noticed, EventFds
  <2>1. CASE d = c
    BY <1>2, <1>6, <1>9, <2>1
  <2>2. CASE d # c
    <3>1. conns[d].open /\ HasInput(conns[d].sock)
      BY <1>6, <2>2
    <3>2. conns[d].fd \in Listed \cup EventFds
      BY <1>0, <3>1, EdgeSets
    <3> QED
      BY <1>6, <1>9, <3>2
  <2> QED
    BY <2>1, <2>2
<1> QED
  BY <1>8, <1>9, <1>11, <1>12, <1>13, <1>14

\* A level-triggered descriptor becomes ready.
LEMMA WakesServer ==
  ASSUME ListenerInv, NEW name \in LevelTriggered, ready' = Woken(name)
  PROVE /\ ready' \in Seq(Names) /\ Distinct(ready')
        /\ Listed \subseteq Listed' /\ Listed' \subseteq Listed \cup LevelTriggered
<1>1. ready \in Seq(Names) /\ Distinct(ready) /\ name \in Names
  BY Types DEF ListenerInv, ReadyIsCurrent, Names, LevelTriggered
<1>2. Listed' = Elements(ready')
  BY DEF Listed, Elements
<1>3. ready' \in Seq(Names) /\ Distinct(ready') /\ Listed' = Listed \cup {name}
  BY <1>1, <1>2, WokenElements
<1> QED
  BY <1>3

LEMMA NetworkStep ==
  ASSUME ListenerInv, Network \/ ParserPops \/ RequestStop
  PROVE ListenerInv'
<1> USE DEF ListenerInv
<1>1. ASSUME NEW peer \in Peers, Connect(peer) PROVE ListenerInv'
  <2>1. Socket(peer) \in Sockets
    BY ListenerAssumption DEF Socket, Sockets
  <2>2. ready' = Woken("server") /\ "server" \in LevelTriggered
    BY <1>1 DEF Connect, LevelTriggered
  <2>3. /\ ready' \in Seq(Names) /\ Distinct(ready')
        /\ Listed \subseteq Listed' /\ Listed' \subseteq Listed \cup LevelTriggered
    BY <2>2, WakesServer
  <2>4. /\ conns' = conns /\ m_clients' = m_clients /\ m_queue' = m_queue /\ events' = events
        /\ pc' = pc /\ Handling'
    BY <1>1 DEF Connect, Handling
  <2>5. OthersOK'
    <3>1. backlog' \in Seq(Sockets) /\ connected' \in Nat
      BY <1>1, <2>1, Types DEF Connect, OthersOK
    <3> QED
      BY <1>1, <3>1, Types DEF Connect, OthersOK
  <2>6. TypeOK'
    BY <2>3, <2>4, <2>5, Zenon DEF TypeOK, Names, OthersOK
  <2> QED
    BY <2>3, <2>4, <2>6, SameEvents
<1>2. ASSUME NEW i \in DOMAIN backlog, ChangeWaiting(i) PROVE ListenerInv'
  <2>1. PICK t \in Changed(backlog[i]) : Happens(backlog[i], t) /\ backlog' = [backlog EXCEPT ![i] = t]
    BY <1>2 DEF ChangeWaiting
  <2>2. backlog \in Seq(Sockets) /\ backlog[i] \in Sockets
    BY Types DEF OthersOK
  <2>3. t \in Sockets /\ bytes' \in Nat /\ incidents' \in Nat
    BY <2>1, <2>2, ChangedSocket, HappensTo
  <2>4. backlog' \in Seq(Sockets)
    BY <2>1, <2>2, <2>3
  <2>5. /\ conns' = conns /\ m_clients' = m_clients /\ m_queue' = m_queue /\ events' = events
        /\ ready' = ready /\ pc' = pc /\ Handling' /\ Listed' = Listed
    BY <1>2 DEF ChangeWaiting, Handling, Listed
  <2>6. OthersOK'
    BY <1>2, <2>3, <2>4, Types DEF ChangeWaiting, OthersOK
  <2>7. TypeOK'
    BY <2>5, <2>6, Zenon DEF TypeOK, OthersOK
  <2>8. Distinct(ready')
    BY <2>5 DEF ReadyIsCurrent
  <2> QED
    BY <2>5, <2>7, <2>8, SameEvents
<1>3. ASSUME NEW c \in DOMAIN conns, ChangeAccepted(c) PROVE ListenerInv'
  BY <1>3, ChangesAccepted
<1>4. CASE ParserPops
  <2>1. /\ conns' = conns /\ m_clients' = m_clients /\ events' = events /\ ready' = ready /\ pc' = pc
        /\ Handling' /\ Listed' = Listed /\ OthersOK' /\ m_queue # << >> /\ m_queue' = Tail(m_queue)
    BY <1>4, Types DEF ParserPops, Handling, Listed, OthersOK, kernel, bounds
  <2>2. QueueOK'
    BY <2>1, Types, QueuePopped
  <2>3. TypeOK'
    BY <2>1, <2>2, Zenon DEF TypeOK, OthersOK, QueueOK, RawChunk
  <2>4. Distinct(ready')
    BY <2>1 DEF ReadyIsCurrent
  <2> QED
    BY <2>1, <2>3, <2>4, SameEvents
<1>5. CASE RequestStop
  <2>1. ready' = Woken("event") /\ "event" \in LevelTriggered
    BY <1>5 DEF RequestStop, LevelTriggered
  <2>2. /\ ready' \in Seq(Names) /\ Distinct(ready')
        /\ Listed \subseteq Listed' /\ Listed' \subseteq Listed \cup LevelTriggered
    BY <2>1, WakesServer
  <2>3. /\ conns' = conns /\ m_clients' = m_clients /\ m_queue' = m_queue /\ events' = events
        /\ pc' = pc /\ Handling'
    BY <1>5 DEF RequestStop, Handling
  <2>4. OthersOK'
    BY <1>5, Types DEF RequestStop, OthersOK
  <2>5. TypeOK'
    BY <2>2, <2>3, <2>4, Zenon DEF TypeOK, Names, OthersOK
  <2> QED
    BY <2>2, <2>3, <2>5, SameEvents
<1> QED
  BY <1>1, <1>2, <1>3, <1>4, <1>5 DEF Network

\* The event being dispatched is in the array, and a client's is open.
LEMMA Dispatching ==
  ASSUME ListenerInv, NEW fd, NextEvent(fd)
  PROVE events # << >> /\ pc = "dispatch" /\ (fd \in Fd => fd \in OpenFds)
<1>1. pc = "dispatch" /\ events # << >> /\ Head(events).fd = fd /\ events \in Seq(Event)
  BY Types DEF ListenerInv, NextEvent, Handling
<1>2. Head(events) = events[1] /\ 1 \in DOMAIN events
  BY <1>1
<1> QED
  BY <1>1, <1>2, ListenerAssumption DEF ListenerInv, EventsAreCurrent

LEMMA RunStep ==
  ASSUME ListenerInv, run
  PROVE ListenerInv'
<1> USE DEF ListenerInv
<1>1. CASE CheckStop \/ EpollFails \/ DispatchAccept \/ \E fd \in Fd : DispatchData(fd)
  <2>1. /\ conns' = conns /\ m_clients' = m_clients /\ m_queue' = m_queue /\ events' = events
        /\ ready' = ready /\ backlog' = backlog /\ eventfd' = eventfd
        /\ stop_requested' = stop_requested /\ connected' = connected /\ bytes' = bytes
    BY <1>1 DEF CheckStop, EpollFails, DispatchAccept, DispatchData, kernel, bounds
  <2>2. incidents' \in Nat
    BY <1>1, Types DEF CheckStop, EpollFails, DispatchAccept, DispatchData, bounds, OthersOK
  <2>3. pc # "done" /\ pc' \in Control
    BY <1>1 DEF CheckStop, EpollFails, DispatchAccept, DispatchData, NextEvent, Control
  <2>4. Handling'
    <3>1. CASE CheckStop
      BY <2>1, <3>1 DEF Handling, CheckStop
    <3>2. CASE EpollFails
      BY <2>1, <3>2 DEF Handling, EpollFails
    <3>3. CASE DispatchAccept
      BY <2>1, <3>3 DEF Handling, DispatchAccept, NextEvent
    <3>4. ASSUME NEW fd \in Fd, DispatchData(fd) PROVE Handling'
      BY <2>1, <3>4 DEF Handling, DispatchData, NextEvent
    <3> QED
      BY <1>1, <3>1, <3>2, <3>3, <3>4
  <2>5. OthersOK'
    BY <2>1, <2>2, Types DEF OthersOK
  <2>6. TypeOK'
    BY <2>1, <2>3, <2>5, Zenon DEF TypeOK, OthersOK, Control
  <2>7. Distinct(ready') /\ Listed' = Listed
    BY <2>1 DEF ReadyIsCurrent, Listed
  <2> QED
    BY <2>1, <2>3, <2>4, <2>6, <2>7, SameEvents
<1>2. CASE EpollWait
  BY <1>2, Waits
<1>3. CASE DispatchShutdown
  <2>1. /\ conns' = conns /\ m_clients' = m_clients /\ m_queue' = m_queue /\ events' = << >>
        /\ ready' = ready /\ pc' = "done"
    BY <1>3 DEF DispatchShutdown
  <2>2. OthersOK'
    BY <1>3, Types DEF DispatchShutdown, OthersOK, bounds
  <2>3. events' \in Seq(Event) /\ pc' \in Control
    BY <2>1 DEF Control
  <2>4. TypeOK'
    BY <2>1, <2>2, <2>3, Zenon DEF TypeOK, OthersOK, Control
  <2>5. /\ OpenIsLast' /\ ReadyIsCurrent' /\ EventsAreCurrent' /\ FailedAreReset' /\ Handling'
        /\ EveryFdOwned' /\ NoEdgeLost'
    BY <2>1 DEF OpenIsLast, ReadyIsCurrent, EventsAreCurrent, FailedAreReset, Handling,
                EveryFdOwned, NoEdgeLost, OpenFds
  <2> QED
    BY <2>4, <2>5
<1>4. ASSUME NEW fd \in Fd, DispatchFailed(fd) PROVE ListenerInv'
  <2>1. events # << >> /\ pc # "done" /\ Head(events).fd = fd /\ fd \in OpenFds
    BY <1>4, Dispatching DEF DispatchFailed, NextEvent
  <2>2. disconnect_client(fd) /\ NextIteration
    BY <1>4 DEF DispatchFailed
  <2>3. conns' \in Seq(Conn) /\ ready' \in Seq(Names) /\ QueueOK'
    BY <2>1, <2>2, Disconnected
  <2>4. events' \in Seq(Event) /\ pc' \in Control
    BY <2>1, <2>2, Iterated DEF Control
  <2>5. m_clients' \subseteq Fd /\ OthersOK'
    BY <1>4, <2>2, Types DEF DispatchFailed, disconnect_client, OthersOK, bounds
  <2>6. TypeOK'
    BY <2>3, <2>4, <2>5, Zenon DEF TypeOK, Conn, Names, QueueOK, RawChunk, OthersOK, Control
  <2> QED
    BY <2>1, <2>2, <2>6, Disconnects
<1>5. ASSUME NEW fd \in Fd \ OpenFds, AcceptClient(fd) PROVE ListenerInv'
  BY <1>5, Accepts
<1>6. ASSUME NEW fd \in Fd \ OpenFds, AcceptDropped(fd) PROVE ListenerInv'
  <2>1. /\ conns' = conns /\ m_clients' = m_clients /\ m_queue' = m_queue /\ events' = events
        /\ ready' = ready /\ pc' = pc /\ Handling' /\ Listed' = Listed
    BY <1>6 DEF AcceptDropped, Handling, Listed
  <2>2. backlog' \in Seq(Sockets) /\ incidents' \in Nat
    BY <1>6, Types DEF AcceptDropped, OthersOK
  <2>3. OthersOK'
    BY <1>6, <2>2, Types DEF AcceptDropped, OthersOK
  <2>4. TypeOK'
    BY <2>1, <2>3, Zenon DEF TypeOK, OthersOK
  <2>5. Distinct(ready')
    BY <2>1 DEF ReadyIsCurrent
  <2> QED
    BY <2>1, <2>4, <2>5, SameEvents
<1>7. CASE AcceptFails \/ AcceptDone \/ RecvAgain
  <2>1. /\ conns' = conns /\ m_clients' = m_clients /\ m_queue' = m_queue /\ ready' = ready
        /\ backlog' = backlog /\ eventfd' = eventfd /\ stop_requested' = stop_requested
        /\ connected' = connected /\ bytes' = bytes /\ NextIteration /\ pc \in {"accept", "recv"}
    BY <1>7 DEF AcceptFails, AcceptDone, RecvAgain, kernel, bounds
  <2>2. incidents' \in Nat
    BY <1>7, Types DEF AcceptFails, AcceptDone, RecvAgain, bounds, OthersOK
  <2>3. events # << >> /\ pc # "done"
    BY <2>1 DEF Handling
  <2>4. events' \in Seq(Event) /\ pc' \in Control
    BY <2>1, <2>3, Iterated DEF Control
  <2>5. OthersOK'
    BY <2>1, <2>2, Types DEF OthersOK
  <2>6. TypeOK'
    BY <2>1, <2>4, <2>5, Zenon DEF TypeOK, OthersOK, Control
  <2>7. \A c \in DOMAIN conns : conns[c].open /\ HasInput(conns[c].sock) => conns[c].fd # Head(events).fd
    <3>1. CASE pc = "accept"
      <4>1. Head(events).fd = "server"
        BY <3>1 DEF Handling
      <4>2. \A c \in DOMAIN conns : conns[c].fd \in Fd
        BY ConnType DEF Conn
      <4> QED
        BY <4>1, <4>2, ListenerAssumption
    <3>2. CASE pc = "recv"
      <4>1. ~HasInput(conns[ConnOf(Head(events).fd)].sock)
        BY <1>7, <3>2 DEF AcceptFails, AcceptDone, RecvAgain, Sock, client_fd
      <4>2. \A c \in DOMAIN conns : conns[c].open => ConnOf(conns[c].fd) = c
        BY OpenConn
      <4> QED
        BY <4>1, <4>2
    <3> QED
      BY <2>1, <3>1, <3>2
  <2> QED
    BY <2>1, <2>3, <2>6, <2>7, MovesOn
<1>8. CASE RecvData
  BY <1>8, Receives
<1>9. CASE RecvEnds
  <2>1. pc = "recv" /\ disconnect_client(client_fd) /\ NextIteration
    BY <1>9 DEF RecvEnds
  <2>2. events # << >> /\ client_fd \in OpenFds /\ client_fd = Head(events).fd /\ pc # "done"
    BY <2>1, Reading DEF client_fd
  <2>3. conns' \in Seq(Conn) /\ ready' \in Seq(Names) /\ QueueOK'
    BY <2>1, <2>2, Disconnected
  <2>4. events' \in Seq(Event) /\ pc' \in Control
    BY <2>1, <2>2, Iterated DEF Control
  <2>5. m_clients' \subseteq Fd /\ OthersOK'
    BY <1>9, <2>1, Types DEF RecvEnds, disconnect_client, OthersOK, bounds
  <2>6. TypeOK'
    BY <2>3, <2>4, <2>5, Zenon DEF TypeOK, Conn, Names, QueueOK, RawChunk, OthersOK, Control
  <2> QED
    BY <2>1, <2>2, <2>6, Disconnects
<1> QED
  BY <1>1, <1>2, <1>3, <1>4, <1>5, <1>6, <1>7, <1>8, <1>9 DEF run, handle_accept, handle_client_data

-----------------------------------------------------------------------------
(* The theorems.                                                           *)

\* The invariant holds at the start, and every step of run(), the network,
\* the parser and request_stop keeps it.
THEOREM ListenerCorrect == Spec => []ListenerInv
<1>1. Init => ListenerInv
  <2> SUFFICES ASSUME Init PROVE ListenerInv
    OBVIOUS
  <2>1. TypeOK
    <3>1. conns \in Seq(Conn) /\ ready \in Seq(Names) /\ m_clients \subseteq Fd /\ events \in Seq(Event)
      BY DEF Init
    <3>2. QueueOK
      BY DEF Init, QueueOK
    <3>3. eventfd \in BOOLEAN /\ stop_requested \in BOOLEAN
      BY Zenon DEF Init
    <3>4. backlog \in Seq(Sockets) /\ pc \in Control /\ connected \in Nat /\ bytes \in Nat /\ incidents \in Nat
      BY DEF Init, Control
    <3>5. OthersOK
      BY <3>3, <3>4, Zenon DEF OthersOK
    <3> QED
      BY <3>1, <3>2, <3>4, <3>5, Types, Zenon
  <2>2. OpenIsLast /\ EventsAreCurrent /\ FailedAreReset /\ Handling /\ EveryFdOwned /\ NoEdgeLost
    BY DEF Init, OpenIsLast, EventsAreCurrent, FailedAreReset, Handling, EveryFdOwned, NoEdgeLost, OpenFds
  <2>3. ReadyIsCurrent
    BY DEF Init, ReadyIsCurrent, Distinct
  <2> QED
    BY <2>1, <2>2, <2>3 DEF ListenerInv
<1>2. ListenerInv /\ [Next]_vars => ListenerInv'
  <2> SUFFICES ASSUME ListenerInv, [Next]_vars PROVE ListenerInv'
    OBVIOUS
  <2>1. CASE Next
    BY <2>1, NetworkStep, RunStep DEF Next
  <2>2. CASE UNCHANGED vars
    BY <2>2 DEF ListenerInv, vars, kernel, bounds, TypeOK, OpenIsLast, ReadyIsCurrent, EventsAreCurrent,
                FailedAreReset, Handling, EveryFdOwned, NoEdgeLost, OpenFds, Noticed, Listed
  <2> QED
    BY <2>1, <2>2
<1> QED
  BY <1>1, <1>2, PTL DEF Spec

\* The types: in particular, no chunk is longer than recv's buffer.
THEOREM TypeCorrect == Spec => []TypeOK
<1>1. ListenerInv => TypeOK
  BY DEF ListenerInv
<1> QED
  BY <1>1, ListenerCorrect, PTL

\* Whatever the network does between two system calls, a client that has
\* something to read or has gone is listed or about to be handled.
THEOREM EdgesAreKept == Spec => []NoEdgeLost
<1>1. ListenerInv => NoEdgeLost
  BY DEF ListenerInv
<1> QED
  BY <1>1, ListenerCorrect, PTL

\* An event is never handled for a connection it was not reported for.
THEOREM EventsStayCurrent == Spec => []EventsAreCurrent
<1>1. ListenerInv => EventsAreCurrent
  BY DEF ListenerInv
<1> QED
  BY <1>1, ListenerCorrect, PTL

\* m_clients owns the open descriptors, each once.
THEOREM FdsAreOwned == Spec => []EveryFdOwned
<1>1. ListenerInv => EveryFdOwned
  BY DEF ListenerInv
<1> QED
  BY <1>1, ListenerCorrect, PTL

\* The listener closes a connection that still has bytes to read only after a
\* reset: EPOLLHUP and EPOLLERR are reported before, and acted on, only then.
THEOREM ClosesReadAll == Spec => OrderlyCloseReadsAll
<1>1. ASSUME ListenerInv, [Next]_vars, NEW c \in DOMAIN conns,
             conns[c].open, ~conns'[c].open, conns[c].sock.buffer # << >>
      PROVE conns[c].sock.ended = "rst"
  <2> USE DEF ListenerInv
  <2>1. ASSUME NEW fd \in OpenFds, disconnect_client(fd)
        PROVE c = ConnOf(fd) /\ conns[c].fd = fd
    <3>1. \A d \in DOMAIN conns : d # ConnOf(fd) => conns'[d] = conns[d]
      BY <2>1, <1>1, Disconnected
    <3>2. c = ConnOf(fd)
      BY <1>1, <3>1
    <3> QED
      BY <1>1, <2>1, <3>2, OpenConn
  <2>2. CASE UNCHANGED conns
    BY <1>1, <2>2
  <2>3. ASSUME NEW d \in DOMAIN conns, ChangeAccepted(d) PROVE FALSE
    <3>1. PICK t \in Changed(conns[d].sock) :
            Happens(conns[d].sock, t) /\ conns' = [conns EXCEPT ![d].sock = t]
      BY <2>3 DEF ChangeAccepted
    <3>2. t \in Sockets
      BY <1>1, ConnType, ChangedSocket
    <3>3. conns'[c].open = conns[c].open
      BY <1>1, <3>1, <3>2, SocketChanged
    <3> QED
      BY <1>1, <3>3
  <2>4. ASSUME NEW fd \in Fd, DispatchFailed(fd) PROVE conns[c].sock.ended = "rst"
    <3>1. fd \in OpenFds /\ events # << >> /\ events \in Seq(Event)
      BY <1>1, <2>4, Dispatching, Types DEF DispatchFailed
    <3>2. disconnect_client(fd) /\ Head(events).failed /\ Head(events).fd = fd
      BY <2>4 DEF DispatchFailed, NextEvent
    <3>3. conns[c].fd = fd
      BY <2>1, <3>1, <3>2
    <3>4. 1 \in DOMAIN events /\ Head(events) = events[1]
      BY <3>1
    <3> QED
      BY <1>1, <3>2, <3>3, <3>4 DEF FailedAreReset
  <2>5. ASSUME NEW fd \in Fd \ OpenFds, AcceptClient(fd) PROVE FALSE
    <3>1. conns'[c] = conns[c]
      BY <1>1, <2>5, Accepted
    <3> QED
      BY <1>1, <3>1
  <2>6. CASE RecvData
    <3>1. PICK d \in DOMAIN conns : d = ConnOf(client_fd)
      BY <1>1, <2>6, Reading DEF RecvData
    <3>2. PICK t : t = Drained(Sock, Received)
      OBVIOUS
    <3>3. t \in Sockets
      BY <1>1, <2>6, <3>2, Reading, DrainedSocket DEF RecvData
    <3>4. conns' = [conns EXCEPT ![d].sock = t]
      BY <2>6, <3>1, <3>2 DEF RecvData
    <3>5. conns'[c].open = conns[c].open
      BY <1>1, <3>3, <3>4, SocketChanged
    <3> QED
      BY <1>1, <3>5
  <2>7. CASE RecvEnds
    <3>1. pc = "recv" /\ disconnect_client(client_fd) /\ Sock.buffer = << >>
      BY <2>7 DEF RecvEnds
    <3>2. client_fd \in OpenFds /\ Sock = conns[ConnOf(client_fd)].sock
      BY <1>1, <3>1, Reading
    <3>3. c = ConnOf(client_fd)
      BY <2>1, <3>1, <3>2
    <3> QED
      BY <1>1, <3>1, <3>2, <3>3
  <2>8. UNCHANGED conns
          \/ (\E d \in DOMAIN conns : ChangeAccepted(d)) \/ (\E fd \in Fd : DispatchFailed(fd))
          \/ (\E fd \in Fd \ OpenFds : AcceptClient(fd)) \/ RecvData \/ RecvEnds
    BY <1>1, Zenon DEF Next, Network, Connect, ChangeWaiting, ParserPops, RequestStop, run, CheckStop,
          EpollWait, EpollFails, DispatchShutdown, DispatchAccept, DispatchData, handle_accept,
          AcceptDropped, AcceptFails, AcceptDone, handle_client_data, RecvAgain, vars, kernel
  <2> QED
    BY <2>2, <2>3, <2>4, <2>5, <2>6, <2>7, <2>8
<1>2. ListenerInv /\ [Next]_vars =>
        [\A c \in DOMAIN conns :
           conns[c].open /\ ~conns'[c].open /\ conns[c].sock.buffer # << >>
             => conns[c].sock.ended = "rst"]_vars
  BY <1>1
<1> QED
  BY <1>2, ListenerCorrect, PTL DEF Spec, OrderlyCloseReadsAll

-----------------------------------------------------------------------------
(* The listener feeds the parser as StreamingParser assumes.               *)

\* b and l together are what follows the first k elements of q.
Follows(b, l, q, k) ==
  /\ Len(b) + Len(l) = Len(q) - k
  /\ \A i \in 1 .. Len(b) : b[i] = q[k + i]
  /\ \A i \in 1 .. Len(l) : l[i] = q[k + Len(b) + i]

\* The number of bytes that were received, and that what was not is the end of
\* the peer's stream.
Sent(s) == Len(s.peer.stream) - Len(s.left) - Len(s.buffer)
InOrder(s) == Sent(s) >= 0 /\ Follows(s.buffer, s.left, s.peer.stream, Sent(s))

StreamsInOrder ==
  /\ \A i \in DOMAIN backlog : InOrder(backlog[i]) /\ Sent(backlog[i]) = 0
  /\ \A c \in DOMAIN conns : InOrder(conns[c].sock)

LEMMA SocketFields ==
  ASSUME NEW s \in Sockets
  PROVE /\ s.peer \in Peers /\ s.left \in Seq(Nat) /\ s.buffer \in Seq(Nat) /\ s.peer.stream \in Seq(Nat)
        /\ Len(s.left) \in Nat /\ Len(s.buffer) \in Nat /\ Len(s.peer.stream) \in Nat /\ Sent(s) \in Int
<1>1. s.peer \in Peers /\ s.left \in Seq(Nat) /\ s.buffer \in Seq(Nat)
  BY DEF Sockets
<1>2. s.peer.stream \in Seq(Nat)
  BY <1>1, ListenerAssumption
<1> QED
  BY <1>1, <1>2 DEF Sent

LEMMA ConcatAt ==
  ASSUME NEW b \in Seq(Nat), NEW f \in Seq(Nat)
  PROVE /\ Len(b \o f) = Len(b) + Len(f)
        /\ \A i \in 1 .. Len(b) : (b \o f)[i] = b[i]
        /\ \A i \in 1 .. Len(f) : (b \o f)[Len(b) + i] = f[i]
OBVIOUS

\* The first n elements of l move to the end of b.
LEMMA MoveBytes ==
  ASSUME NEW b \in Seq(Nat), NEW l \in Seq(Nat), NEW q \in Seq(Nat), NEW k \in 0 .. Len(q),
         Follows(b, l, q, k), NEW n \in 1 .. Len(l)
  PROVE /\ Follows(b \o SubSeq(l, 1, n), SubSeq(l, n + 1, Len(l)), q, k)
        /\ Len(b \o SubSeq(l, 1, n)) = Len(b) + n /\ Len(SubSeq(l, n + 1, Len(l))) = Len(l) - n
<1>1. /\ Len(b) \in Nat /\ Len(l) \in Nat /\ Len(q) \in Nat /\ Len(b) + Len(l) = Len(q) - k
      /\ \A i \in 1 .. Len(b) : b[i] = q[k + i]
      /\ \A i \in 1 .. Len(l) : l[i] = q[k + Len(b) + i]
  <2>1. Len(b) \in Nat /\ Len(l) \in Nat /\ Len(q) \in Nat
    OBVIOUS
  <2> QED
    BY <2>1, Zenon DEF Follows
<1>2. PICK f : f = SubSeq(l, 1, n)
  OBVIOUS
<1>3. f \in Seq(Nat) /\ Len(f) = n /\ \A i \in 1 .. n : f[i] = l[i]
  BY <1>2
<1>4. PICK r : r = SubSeq(l, n + 1, Len(l))
  OBVIOUS
<1>5. r \in Seq(Nat) /\ Len(r) = Len(l) - n /\ \A i \in 1 .. Len(l) - n : r[i] = l[n + i]
  <2>1. n \in 0 .. Len(l)
    OBVIOUS
  <2> QED
    BY <1>4, <2>1, RestOf
<1>6. PICK t : t = b \o f
  OBVIOUS
<1>7. /\ Len(t) = Len(b) + n
      /\ \A i \in 1 .. Len(b) : t[i] = b[i]
      /\ \A i \in 1 .. n : t[Len(b) + i] = f[i]
  BY <1>3, <1>6, ConcatAt
<1>8. Len(t) + Len(r) = Len(q) - k
  <2>1. Len(b) \in Nat /\ Len(l) \in Nat /\ Len(q) \in Nat /\ Len(b) + Len(l) = Len(q) - k
    BY <1>1
  <2>2. Len(t) = Len(b) + n /\ Len(r) = Len(l) - n
    BY <1>5, <1>7
  <2>3. (Len(b) + n) + (Len(l) - n) = Len(b) + Len(l)
    BY <2>1
  <2> QED
    BY <2>1, <2>2, <2>3, Zenon
<1>9. \A i \in 1 .. Len(t) : t[i] = q[k + i]
  <2> SUFFICES ASSUME NEW i \in 1 .. Len(t) PROVE t[i] = q[k + i]
    OBVIOUS
  <2>1. CASE i \in 1 .. Len(b)
    BY <1>1, <1>7, <2>1
  <2>2. ASSUME NEW j \in 1 .. n, i = Len(b) + j PROVE t[i] = q[k + i]
    <3>1. j \in 1 .. Len(l) /\ k + Len(b) + j = k + i
      BY <1>1, <2>2
    <3> QED
      BY <1>1, <1>3, <1>7, <2>2, <3>1
  <2>3. i \in 1 .. Len(b) \/ (i - Len(b) \in 1 .. n /\ i = Len(b) + (i - Len(b)))
    BY <1>1, <1>7
  <2> QED
    BY <2>1, <2>2, <2>3
<1>10. \A i \in 1 .. Len(r) : r[i] = q[k + Len(t) + i]
  <2> SUFFICES ASSUME NEW i \in 1 .. Len(r) PROVE r[i] = q[k + Len(t) + i]
    OBVIOUS
  <2>1. n + i \in 1 .. Len(l) /\ k + Len(b) + (n + i) = k + Len(t) + i /\ i \in 1 .. Len(l) - n
    BY <1>1, <1>5, <1>7
  <2> QED
    BY <1>1, <1>5, <2>1
<1>11. Follows(t, r, q, k)
  BY <1>8, <1>9, <1>10 DEF Follows
<1> QED
  BY <1>2, <1>4, <1>5, <1>6, <1>7, <1>11

\* All of b goes back to the front of l.
LEMMA GiveBack ==
  ASSUME NEW b \in Seq(Nat), NEW l \in Seq(Nat), NEW q \in Seq(Nat), NEW k \in 0 .. Len(q),
         Follows(b, l, q, k)
  PROVE Follows(<< >>, b \o l, q, k) /\ Len(b \o l) = Len(b) + Len(l)
<1>1. /\ Len(b) \in Nat /\ Len(l) \in Nat /\ Len(q) \in Nat /\ Len(b) + Len(l) = Len(q) - k
      /\ \A i \in 1 .. Len(b) : b[i] = q[k + i]
      /\ \A i \in 1 .. Len(l) : l[i] = q[k + Len(b) + i]
  BY DEF Follows
<1>2. PICK t : t = b \o l
  OBVIOUS
<1>3. /\ Len(t) = Len(b) + Len(l)
      /\ \A i \in 1 .. Len(b) : t[i] = b[i]
      /\ \A i \in 1 .. Len(l) : t[Len(b) + i] = l[i]
  BY <1>2
<1>4. \A i \in 1 .. Len(t) : t[i] = q[k + 0 + i]
  <2> SUFFICES ASSUME NEW i \in 1 .. Len(t) PROVE t[i] = q[k + 0 + i]
    OBVIOUS
  <2>1. k + 0 + i = k + i
    BY <1>1, <1>3
  <2>2. CASE i \in 1 .. Len(b)
    BY <1>1, <1>3, <2>1, <2>2
  <2>3. ASSUME NEW j \in 1 .. Len(l), i = Len(b) + j PROVE t[i] = q[k + 0 + i]
    <3>1. k + Len(b) + j = k + i
      BY <1>1, <2>3
    <3> QED
      BY <1>1, <1>3, <2>1, <2>3, <3>1
  <2>4. i \in 1 .. Len(b) \/ (i - Len(b) \in 1 .. Len(l) /\ i = Len(b) + (i - Len(b)))
    BY <1>1, <1>3
  <2> QED
    BY <2>2, <2>3, <2>4
<1>5. Len(<< >>) = 0
  OBVIOUS
<1>6. 0 + Len(t) = Len(q) - k
  BY <1>1, <1>3
<1>7. \A i \in 1 .. 0 : << >>[i] = q[k + i]
  OBVIOUS
<1>8. Follows(<< >>, t, q, k)
  BY <1>4, <1>5, <1>6, <1>7, Zenon DEF Follows
<1> QED
  BY <1>2, <1>3, <1>8

\* Taking n bytes off the front of b: they are the next n of q.
LEMMA TakeBytes ==
  ASSUME NEW b \in Seq(Nat), NEW l \in Seq(Nat), NEW q \in Seq(Nat), NEW k \in 0 .. Len(q),
         Follows(b, l, q, k), NEW n \in 1 .. Len(b)
  PROVE /\ k + n \in 0 .. Len(q) /\ Follows(SubSeq(b, n + 1, Len(b)), l, q, k + n)
        /\ Len(SubSeq(b, n + 1, Len(b))) = Len(b) - n
        /\ SubSeq(b, 1, n) = SubSeq(q, k + 1, k + n)
<1>1. /\ Len(b) \in Nat /\ Len(l) \in Nat /\ Len(q) \in Nat /\ Len(b) + Len(l) = Len(q) - k
      /\ \A i \in 1 .. Len(b) : b[i] = q[k + i]
      /\ \A i \in 1 .. Len(l) : l[i] = q[k + Len(b) + i]
  BY DEF Follows
<1>2. k + n \in 0 .. Len(q)
  BY <1>1
<1>3. PICK r : r = SubSeq(b, n + 1, Len(b))
  OBVIOUS
<1>4. r \in Seq(Nat) /\ Len(r) = Len(b) - n /\ \A i \in 1 .. Len(b) - n : r[i] = b[n + i]
  <2>1. n \in 0 .. Len(b)
    OBVIOUS
  <2> QED
    BY <1>3, <2>1, RestOf
<1>5. Len(r) + Len(l) = Len(q) - (k + n)
  BY <1>1, <1>4
<1>6. \A i \in 1 .. Len(r) : r[i] = q[k + n + i]
  <2> SUFFICES ASSUME NEW i \in 1 .. Len(r) PROVE r[i] = q[k + n + i]
    OBVIOUS
  <2>1. n + i \in 1 .. Len(b) /\ k + (n + i) = k + n + i /\ i \in 1 .. Len(b) - n
    BY <1>1, <1>4
  <2> QED
    BY <1>1, <1>4, <2>1
<1>7. \A i \in 1 .. Len(l) : l[i] = q[k + n + Len(r) + i]
  <2> SUFFICES ASSUME NEW i \in 1 .. Len(l) PROVE l[i] = q[k + n + Len(r) + i]
    OBVIOUS
  <2>1. k + n + Len(r) + i = k + Len(b) + i
    BY <1>1, <1>4
  <2> QED
    BY <1>1, <2>1
<1>8. Follows(r, l, q, k + n)
  BY <1>5, <1>6, <1>7 DEF Follows
<1>9. SubSeq(b, 1, n) = SubSeq(q, k + 1, k + n)
  <2>1. SubSeq(b, 1, n) = [i \in 1 .. n |-> b[i]]
    OBVIOUS
  <2>2. SubSeq(q, k + 1, k + n) = [i \in 1 .. n |-> q[k + i]]
    BY <1>2
  <2>3. \A i \in 1 .. n : b[i] = q[k + i]
    BY <1>1
  <2> QED
    BY <2>1, <2>2, <2>3
<1> QED
  BY <1>2, <1>3, <1>4, <1>8, <1>9

\* k is the number of bytes received when the lengths say so.
LEMMA SentIs ==
  ASSUME NEW s \in Sockets, NEW k \in 0 .. Len(s.peer.stream), Follows(s.buffer, s.left, s.peer.stream, k)
  PROVE InOrder(s) /\ Sent(s) = k
<1>1. /\ Len(s.left) \in Nat /\ Len(s.buffer) \in Nat /\ Len(s.peer.stream) \in Nat
      /\ Len(s.buffer) + Len(s.left) = Len(s.peer.stream) - k
  BY SocketFields DEF Follows
<1>2. PICK x \in Nat, y \in Nat, z \in Nat : x = Len(s.left) /\ y = Len(s.buffer) /\ z = Len(s.peer.stream)
  BY <1>1, Zenon
<1>3. Sent(s) = z - x - y /\ y + x = z - k /\ k \in 0 .. z
  BY <1>1, <1>2, Zenon DEF Sent
<1>4. z - x - y = k /\ k >= 0
  BY <1>3
<1> QED
  BY <1>3, <1>4, Zenon DEF InOrder

LEMMA SentRange ==
  ASSUME NEW s \in Sockets, InOrder(s)
  PROVE Sent(s) \in 0 .. Len(s.peer.stream) /\ Follows(s.buffer, s.left, s.peer.stream, Sent(s))
<1>1. Len(s.left) \in Nat /\ Len(s.buffer) \in Nat /\ Len(s.peer.stream) \in Nat
  BY SocketFields
<1>2. Sent(s) >= 0
  BY DEF InOrder
<1>3. PICK x \in Nat, y \in Nat, z \in Nat : x = Len(s.left) /\ y = Len(s.buffer) /\ z = Len(s.peer.stream)
  BY <1>1, Zenon
<1>4. Sent(s) = z - x - y
  BY <1>3, Zenon DEF Sent
<1>5. Sent(s) \in 0 .. z
  BY <1>2, <1>4
<1> QED
  BY <1>3, <1>5, Zenon DEF InOrder

LEMMA NewInOrder ==
  ASSUME NEW peer \in Peers
  PROVE Socket(peer) \in Sockets /\ InOrder(Socket(peer)) /\ Sent(Socket(peer)) = 0
<1>1. PICK s : s = Socket(peer)
  OBVIOUS
<1>2. s \in Sockets /\ s.peer = peer /\ s.left = peer.stream /\ s.buffer = << >>
  BY <1>1, ListenerAssumption DEF Socket, Sockets
<1>3. PICK q : q = peer.stream
  OBVIOUS
<1>4. q \in Seq(Nat) /\ Len(q) \in Nat
  BY <1>3, ListenerAssumption
<1>5. Follows(<< >>, q, q, 0)
  BY <1>4 DEF Follows
<1>6. 0 \in 0 .. Len(q)
  BY <1>4
<1>7. InOrder(s) /\ Sent(s) = 0
  BY <1>2, <1>3, <1>5, <1>6, SentIs
<1> QED
  BY <1>1, <1>2, <1>7

LEMMA ChangedInOrder ==
  ASSUME Endless = {}, NEW s \in Sockets, NEW t \in Changed(s), InOrder(s)
  PROVE InOrder(t) /\ Sent(t) = Sent(s) /\ t.peer = s.peer
<1>1. PICK k \in 0 .. Len(s.peer.stream) : k = Sent(s) /\ Follows(s.buffer, s.left, s.peer.stream, k)
  BY SentRange
<1>2. t \in Sockets /\ t.peer = s.peer
  BY ChangedSocket
<1>3. Follows(t.buffer, t.left, s.peer.stream, k)
  <2>1. CASE t.buffer = s.buffer /\ t.left = s.left
    BY <1>1, <2>1
  <2>2. ASSUME NEW n \in 1 .. Len(s.left), t.buffer = s.buffer \o SubSeq(s.left, 1, n),
               t.left = SubSeq(s.left, n + 1, Len(s.left))
        PROVE Follows(t.buffer, t.left, s.peer.stream, k)
    <3>1. s.left \in Seq(Nat) /\ s.buffer \in Seq(Nat) /\ s.peer.stream \in Seq(Nat)
      BY SocketFields
    <3>2. Follows(s.buffer \o SubSeq(s.left, 1, n), SubSeq(s.left, n + 1, Len(s.left)), s.peer.stream, k)
      BY <1>1, <3>1, MoveBytes
    <3> QED
      BY <2>2, <3>2, Zenon
  <2>3. s.peer \notin Endless
    OBVIOUS
  <2>4. \/ t.buffer = s.buffer /\ t.left = s.left
        \/ \E n \in 1 .. Len(s.left) :
             t.buffer = s.buffer \o SubSeq(s.left, 1, n) /\ t.left = SubSeq(s.left, n + 1, Len(s.left))
    BY <2>3, ChangedSocket
  <2> QED
    BY <2>1, <2>2, <2>4
<1> QED
  BY <1>1, <1>2, <1>3, SentIs

LEMMA ClosedInOrder ==
  ASSUME NEW x \in Conn, InOrder(x.sock)
  PROVE InOrder(Closed(x).sock) /\ Sent(Closed(x).sock) = Sent(x.sock) /\ Closed(x).sock.peer = x.sock.peer
<1>1. PICK s \in Sockets : s = x.sock
  BY DEF Conn
<1>2. PICK k \in 0 .. Len(s.peer.stream) : k = Sent(s) /\ Follows(s.buffer, s.left, s.peer.stream, k)
  BY <1>1, SentRange
<1>3. PICK t : t = Closed(x).sock
  OBVIOUS
<1>4. t \in Sockets
  <2>1. Closed(x) \in Conn
    BY ClosedConn
  <2> QED
    BY <1>3, <2>1 DEF Conn
<1>5. t.peer = s.peer /\ t.buffer = << >> /\ t.left = s.buffer \o s.left
  BY <1>1, <1>3, ClosedConn
<1>6. s.left \in Seq(Nat) /\ s.buffer \in Seq(Nat) /\ s.peer.stream \in Seq(Nat)
  BY SocketFields
<1>7. Follows(<< >>, s.buffer \o s.left, s.peer.stream, k)
  BY <1>2, <1>6, GiveBack
<1>8. InOrder(t) /\ Sent(t) = k
  BY <1>4, <1>5, <1>7, SentIs
<1> QED
  BY <1>1, <1>2, <1>3, <1>5, <1>8

LEMMA DrainedInOrder ==
  ASSUME NEW s \in Sockets, InOrder(s), NEW n \in 1 .. Len(s.buffer)
  PROVE /\ InOrder(Drained(s, n)) /\ Sent(Drained(s, n)) = Sent(s) + n /\ Drained(s, n).peer = s.peer
        /\ Sent(s) + n <= Len(s.peer.stream)
        /\ SubSeq(s.buffer, 1, n) = SubSeq(s.peer.stream, Sent(s) + 1, Sent(s) + n)
<1>1. PICK k \in 0 .. Len(s.peer.stream) : k = Sent(s) /\ Follows(s.buffer, s.left, s.peer.stream, k)
  BY SentRange
<1>2. PICK t : t = Drained(s, n)
  OBVIOUS
<1>3. /\ s.left \in Seq(Nat) /\ s.buffer \in Seq(Nat) /\ s.peer.stream \in Seq(Nat)
      /\ Len(s.buffer) \in Nat /\ Len(s.peer.stream) \in Nat
  BY SocketFields
<1>4. n \in Nat /\ n <= Len(s.buffer)
  BY <1>3
<1>5. /\ t \in Sockets /\ t.peer = s.peer /\ t.left = s.left
      /\ t.buffer = SubSeq(s.buffer, n + 1, Len(s.buffer))
  BY <1>2, <1>4, DrainedSocket
<1>6. /\ k + n \in 0 .. Len(s.peer.stream)
      /\ Follows(SubSeq(s.buffer, n + 1, Len(s.buffer)), s.left, s.peer.stream, k + n)
      /\ SubSeq(s.buffer, 1, n) = SubSeq(s.peer.stream, k + 1, k + n)
  BY <1>1, <1>3, TakeBytes
<1>7. Follows(t.buffer, t.left, t.peer.stream, k + n) /\ k + n \in 0 .. Len(t.peer.stream)
  BY <1>5, <1>6, Zenon
<1>8. InOrder(t) /\ Sent(t) = k + n
  BY <1>5, <1>7, SentIs
<1>9. k + n <= Len(s.peer.stream)
  BY <1>3, <1>6
<1> QED
  BY <1>1, <1>2, <1>5, <1>6, <1>8, <1>9, Zenon

\* What the parser's side knows of a connection.
SeenOf(x) == [fd |-> x.fd, peer |-> x.sock.peer, open |-> x.open, sent |-> Sent(x.sock)]
SeenConn == [fd : Fd, peer : Peers, open : BOOLEAN, sent : Int]

LEMMA SeenType ==
  ASSUME NEW x \in Conn
  PROVE /\ SeenOf(x) \in SeenConn /\ SeenOf(x).fd = x.fd /\ SeenOf(x).peer = x.sock.peer
        /\ SeenOf(x).open = x.open /\ SeenOf(x).sent = Sent(x.sock)
<1>1. x.sock \in Sockets /\ x.fd \in Fd /\ x.open \in BOOLEAN
  BY DEF Conn
<1>2. x.sock.peer \in Peers /\ Sent(x.sock) \in Int
  BY <1>1, SocketFields
<1>3. SeenOf(x) = [fd |-> x.fd, peer |-> x.sock.peer, open |-> x.open, sent |-> Sent(x.sock)]
  BY DEF SeenOf
<1>4. SeenOf(x) \in SeenConn
  BY <1>1, <1>2, <1>3 DEF SeenConn
<1> QED
  BY <1>3, <1>4

LEMMA SeenIs ==
  ASSUME conns \in Seq(Conn)
  PROVE /\ Seen = [c \in DOMAIN conns |-> SeenOf(conns[c])]
        /\ Seen \in Seq(SeenConn) /\ DOMAIN Seen = DOMAIN conns /\ Len(Seen) = Len(conns)
        /\ \A c \in DOMAIN conns : Seen[c] = SeenOf(conns[c]) /\ Seen[c] \in SeenConn
<1>1. Seen = [c \in DOMAIN conns |-> SeenOf(conns[c])]
  BY DEF Seen, SeenOf, Sent
<1>2. \A c \in DOMAIN conns : SeenOf(conns[c]) \in SeenConn
  BY SeenType
<1>3. DOMAIN conns = 1 .. Len(conns) /\ Len(conns) \in Nat
  OBVIOUS
<1> QED
  BY <1>1, <1>2, <1>3

LEMMA SentReplaced ==
  ASSUME NEW x \in SeenConn, NEW v
  PROVE [x EXCEPT !.sent = v] = [fd |-> x.fd, peer |-> x.peer, open |-> x.open, sent |-> v]
BY DEF SeenConn

LEMMA OpenReplaced ==
  ASSUME NEW x \in SeenConn, NEW v
  PROVE [x EXCEPT !.open = v] = [fd |-> x.fd, peer |-> x.peer, open |-> v, sent |-> x.sent]
BY DEF SeenConn

\* A step after which every connection is seen as before.
LEMMA SeenSame ==
  ASSUME conns \in Seq(Conn), conns' \in Seq(Conn), DOMAIN conns' = DOMAIN conns,
         \A d \in DOMAIN conns :
           /\ conns'[d].fd = conns[d].fd /\ conns'[d].open = conns[d].open
           /\ conns'[d].sock.peer = conns[d].sock.peer /\ Sent(conns'[d].sock) = Sent(conns[d].sock)
  PROVE Seen' = Seen
<1>1. Seen' = [c \in DOMAIN conns' |-> SeenOf(conns'[c])]
  BY DEF Seen, SeenOf, Sent
<1>2. \A c \in DOMAIN conns : SeenOf(conns'[c]) = SeenOf(conns[c])
  BY DEF SeenOf
<1>3. Seen = [c \in DOMAIN conns |-> SeenOf(conns[c])]
  BY SeenIs
<1> QED
  BY <1>1, <1>2, <1>3

\* The steps, by what they do to the connections.
LEMMA ConnSteps ==
  ASSUME ListenerInv, [Next]_vars
  PROVE \/ UNCHANGED <<conns, m_queue>>
        \/ ParserPops
        \/ \E c \in DOMAIN conns : ChangeAccepted(c)
        \/ \E fd \in Fd \ OpenFds : AcceptClient(fd)
        \/ RecvData
        \/ \E fd \in OpenFds : disconnect_client(fd) /\ UNCHANGED backlog
<1>1. ASSUME NEW fd \in Fd, DispatchFailed(fd)
      PROVE \E f \in OpenFds : disconnect_client(f) /\ UNCHANGED backlog
  BY <1>1, Dispatching DEF DispatchFailed
<1>2. ASSUME RecvEnds
      PROVE \E f \in OpenFds : disconnect_client(f) /\ UNCHANGED backlog
  BY <1>2, Reading DEF RecvEnds
<1>3. \/ UNCHANGED <<conns, m_queue>>
      \/ ParserPops \/ (\E c \in DOMAIN conns : ChangeAccepted(c))
      \/ (\E fd \in Fd : DispatchFailed(fd)) \/ (\E fd \in Fd \ OpenFds : AcceptClient(fd))
      \/ RecvData \/ RecvEnds
  BY Zenon DEF Next, Network, Connect, ChangeWaiting, RequestStop, run, CheckStop, EpollWait, EpollFails,
        DispatchShutdown, DispatchAccept, DispatchData, handle_accept, AcceptDropped, AcceptFails,
        AcceptDone, handle_client_data, RecvAgain, vars, kernel
<1> QED
  BY <1>1, <1>2, <1>3, Zenon

\* The backlog: a step adds a new socket, changes one, takes the first, or
\* none of these.
LEMMA BacklogSteps ==
  ASSUME ListenerInv, [Next]_vars, Endless = {},
         \A i \in DOMAIN backlog : InOrder(backlog[i]) /\ Sent(backlog[i]) = 0
  PROVE \A i \in DOMAIN backlog' : InOrder(backlog'[i]) /\ Sent(backlog'[i]) = 0
<1>0. backlog \in Seq(Sockets)
  BY Types DEF ListenerInv, OthersOK
<1>1. ASSUME NEW peer \in Peers, Connect(peer)
      PROVE \A i \in DOMAIN backlog' : InOrder(backlog'[i]) /\ Sent(backlog'[i]) = 0
  <2>1. PICK s : s = Socket(peer)
    OBVIOUS
  <2>2. s \in Sockets /\ InOrder(s) /\ Sent(s) = 0
    BY <2>1, NewInOrder
  <2>3. backlog' = Append(backlog, s)
    BY <1>1, <2>1 DEF Connect
  <2>4. \A i \in DOMAIN backlog' : (i \in DOMAIN backlog /\ backlog'[i] = backlog[i]) \/ backlog'[i] = s
    BY <1>0, <2>2, <2>3
  <2> QED
    BY <2>2, <2>4
<1>2. ASSUME NEW i \in DOMAIN backlog, ChangeWaiting(i)
      PROVE \A j \in DOMAIN backlog' : InOrder(backlog'[j]) /\ Sent(backlog'[j]) = 0
  <2>1. PICK t \in Changed(backlog[i]) : backlog' = [backlog EXCEPT ![i] = t]
    BY <1>2 DEF ChangeWaiting
  <2>2. backlog[i] \in Sockets /\ InOrder(backlog[i]) /\ Sent(backlog[i]) = 0
    BY <1>0
  <2>3. InOrder(t) /\ Sent(t) = 0
    BY <2>2, ChangedInOrder
  <2> QED
    BY <1>0, <2>1, <2>3
<1>3. CASE backlog # << >> /\ backlog' = Tail(backlog)
  <2>1. \A j \in DOMAIN backlog' : j + 1 \in DOMAIN backlog /\ backlog'[j] = backlog[j + 1]
    BY <1>0, <1>3
  <2> QED
    BY <2>1
<1>4. CASE backlog' = backlog
  BY <1>4
<1>5. \/ (\E peer \in Peers : Connect(peer)) \/ (\E i \in DOMAIN backlog : ChangeWaiting(i))
      \/ (backlog # << >> /\ backlog' = Tail(backlog)) \/ backlog' = backlog
  BY Zenon DEF Next, Network, ChangeAccepted, ParserPops, RequestStop, run, CheckStop, EpollWait, EpollFails,
        DispatchShutdown, DispatchAccept, DispatchData, DispatchFailed, handle_accept, AcceptClient,
        AcceptDropped, AcceptFails, AcceptDone, handle_client_data, RecvData, RecvAgain, RecvEnds, vars, kernel
<1> QED
  BY <1>1, <1>2, <1>3, <1>4, <1>5

LEMMA AppendIs ==
  ASSUME NEW A, NEW q \in Seq(A), NEW x \in A
  PROVE Append(q, x) = [i \in 1 .. Len(q) + 1 |-> IF i = Len(q) + 1 THEN x ELSE q[i]]
<1>1. PICK t : t = Append(q, x)
  OBVIOUS
<1>2. /\ t \in Seq(A) /\ DOMAIN t = 1 .. Len(q) + 1 /\ t[Len(q) + 1] = x
      /\ \A i \in 1 .. Len(q) : t[i] = q[i]
  BY <1>1
<1>3. \A i \in 1 .. Len(q) + 1 : i \in 1 .. Len(q) \/ i = Len(q) + 1
  OBVIOUS
<1>4. t = [i \in 1 .. Len(q) + 1 |-> t[i]]
  BY <1>2
<1>5. \A i \in 1 .. Len(q) + 1 : t[i] = IF i = Len(q) + 1 THEN x ELSE q[i]
  BY <1>2, <1>3
<1> QED
  BY <1>1, <1>4, <1>5

\* AcceptClient is the parser's side's Accept.
LEMMA AcceptFeeds ==
  ASSUME ListenerInv, StreamsInOrder, NEW fd \in Fd \ OpenFds, AcceptClient(fd)
  PROVE (\A c \in DOMAIN conns' : InOrder(conns'[c].sock)) /\ Source!Listen
<1> DEFINE n == Len(conns)
<1>1. /\ conns' \in Seq(Conn) /\ DOMAIN conns' = 1 .. n + 1 /\ DOMAIN conns = 1 .. n /\ n \in Nat
      /\ \A d \in DOMAIN conns : conns'[d] = conns[d]
      /\ conns'[n + 1] = [fd |-> fd, open |-> TRUE, sock |-> Head(backlog)]
  BY Accepted
<1>2. PICK s : s = Head(backlog)
  OBVIOUS
<1>3. s \in Sockets /\ InOrder(s) /\ Sent(s) = 0
  <2>1. backlog \in Seq(Sockets) /\ backlog # << >>
    BY Types DEF ListenerInv, OthersOK, AcceptClient
  <2>2. s = backlog[1] /\ 1 \in DOMAIN backlog /\ s \in Sockets
    BY <1>2, <2>1
  <2> QED
    BY <2>2 DEF StreamsInOrder
<1>4. conns'[n + 1].sock = s /\ conns'[n + 1].fd = fd /\ conns'[n + 1].open = TRUE
  BY <1>1, <1>2
<1>5. \A d \in 1 .. n + 1 : d \in 1 .. n \/ d = n + 1
  BY <1>1
<1>6. \A c \in DOMAIN conns' : InOrder(conns'[c].sock)
  BY <1>1, <1>3, <1>4, <1>5 DEF StreamsInOrder
<1>7. conns \in Seq(Conn)
  BY ConnType DEF ListenerInv
<1>8. PICK x : x = [fd |-> fd, peer |-> s.peer, sent |-> 0, open |-> TRUE]
  OBVIOUS
<1>9. Seen' = Append(Seen, x)
  <2>1. Seen' = [c \in 1 .. n + 1 |-> SeenOf(conns'[c])]
    BY <1>1 DEF Seen, SeenOf, Sent
  <2>2. Len(Seen) = n /\ Seen \in Seq(SeenConn) /\ \A c \in 1 .. n : Seen[c] = SeenOf(conns[c])
    BY <1>1, <1>7, SeenIs
  <2>3. SeenOf(conns'[n + 1]) = x
    <3>1. SeenOf(conns'[n + 1]) = [fd |-> fd, peer |-> s.peer, open |-> TRUE, sent |-> 0]
      BY <1>3, <1>4, Zenon DEF SeenOf
    <3> QED
      BY <1>8, <3>1
  <2>4. Append(Seen, x) = [c \in 1 .. n + 1 |-> IF c = n + 1 THEN x ELSE Seen[c]]
    <3>1. x \in SeenConn
      <4>1. n + 1 \in 1 .. n + 1
        BY <1>1
      <4>2. conns'[n + 1] \in Conn
        BY <1>1, <4>1
      <4> QED
        BY <2>3, <4>2, SeenType
    <3> QED
      BY <2>2, <3>1, AppendIs
  <2>5. \A c \in 1 .. n + 1 : SeenOf(conns'[c]) = IF c = n + 1 THEN x ELSE Seen[c]
    BY <1>1, <1>5, <2>2, <2>3
  <2> QED
    BY <2>1, <2>4, <2>5
<1>10. \A c \in 1 .. Len(Seen) : Seen[c].fd = fd => ~Seen[c].open
  <2>1. Len(Seen) = n /\ \A c \in 1 .. n : Seen[c] = SeenOf(conns[c])
    BY <1>1, <1>7, SeenIs
  <2>2. \A c \in 1 .. n : conns[c].fd = fd => ~conns[c].open
    BY <1>1 DEF OpenFds
  <2>3. \A c \in 1 .. n : Seen[c].fd = conns[c].fd /\ Seen[c].open = conns[c].open
    BY <1>1, <1>7, <2>1, SeenType
  <2> QED
    BY <2>1, <2>2, <2>3, Zenon
<1>11. m_queue' = m_queue
  BY DEF AcceptClient
<1>12. s.peer \in Peers
  BY <1>3, SocketFields
<1>13. Source!Accept(fd, s.peer)
  BY <1>8, <1>9, <1>10, <1>11 DEF Source!Accept, Source!parserVars
<1> QED
  BY <1>6, <1>12, <1>13 DEF Source!Listen

\* disconnect_client is its Disconnect.
LEMMA DisconnectFeeds ==
  ASSUME ListenerInv, StreamsInOrder, NEW fd \in OpenFds, disconnect_client(fd)
  PROVE (\A c \in DOMAIN conns' : InOrder(conns'[c].sock)) /\ Source!Listen
<1>1. /\ conns' \in Seq(Conn) /\ DOMAIN conns' = DOMAIN conns
      /\ ConnOf(fd) \in DOMAIN conns /\ conns'[ConnOf(fd)] = Closed(conns[ConnOf(fd)])
      /\ \A d \in DOMAIN conns : d # ConnOf(fd) => conns'[d] = conns[d]
  BY Disconnected
<1>2. PICK c \in DOMAIN conns : c = ConnOf(fd)
  BY <1>1
<1>3. conns[c].open /\ conns[c].fd = fd /\ conns[c] \in Conn /\ conns \in Seq(Conn)
  BY <1>2, OpenConn, ConnType DEF ListenerInv
<1>4. PICK y : y = Closed(conns[c])
  OBVIOUS
<1>5. /\ conns'[c] = y /\ \A d \in DOMAIN conns : d # c => conns'[d] = conns[d]
      /\ y.fd = conns[c].fd /\ y.open = FALSE
  BY <1>1, <1>2, <1>3, <1>4, ClosedConn
<1>6. InOrder(y.sock) /\ Sent(y.sock) = Sent(conns[c].sock) /\ y.sock.peer = conns[c].sock.peer
  BY <1>3, <1>4, ClosedInOrder DEF StreamsInOrder
<1>7. \A d \in DOMAIN conns' : InOrder(conns'[d].sock)
  BY <1>1, <1>5, <1>6 DEF StreamsInOrder
<1>8. /\ Seen \in Seq(SeenConn) /\ DOMAIN Seen = DOMAIN conns /\ Len(Seen) = Len(conns)
      /\ \A d \in DOMAIN conns : Seen[d] = SeenOf(conns[d]) /\ Seen[d] \in SeenConn
  BY <1>3, SeenIs
<1>9. PICK x : x = [Seen[c] EXCEPT !.open = FALSE]
  OBVIOUS
<1>10. x = [fd |-> Seen[c].fd, peer |-> Seen[c].peer, open |-> FALSE, sent |-> Seen[c].sent]
  BY <1>8, <1>9, OpenReplaced, Zenon
<1>11. SeenOf(y) = x
  BY <1>3, <1>5, <1>6, <1>8, <1>10, SeenType DEF SeenOf
<1>12. Seen' = [Seen EXCEPT ![c] = x]
  <2>1. Seen' = [d \in DOMAIN conns |-> SeenOf(conns'[d])]
    BY <1>1 DEF Seen, SeenOf, Sent
  <2>2. \A d \in DOMAIN conns : SeenOf(conns'[d]) = IF d = c THEN x ELSE Seen[d]
    BY <1>5, <1>8, <1>11
  <2>3. [Seen EXCEPT ![c] = x] = [d \in DOMAIN conns |-> IF d = c THEN x ELSE Seen[d]]
    BY <1>8
  <2> QED
    BY <2>1, <2>2, <2>3
<1>13. Seen[c].open /\ Seen[c].fd = fd
  BY <1>3, <1>8, SeenType
<1>14. m_queue' = Append(m_queue, [client_id |-> Seen[c].fd, conn |-> c, data |-> << >>])
  BY <1>2, <1>13 DEF disconnect_client, Pushed
<1>15. Seen' = [Seen EXCEPT ![c].open = FALSE]
  BY <1>9, <1>12, Zenon
<1>16. Source!Disconnect(c)
  BY <1>13, <1>14, <1>15, Zenon DEF Source!Disconnect, Source!parserVars
<1>17. c \in 1 .. Len(Seen)
  BY <1>8
<1> QED
  BY <1>7, <1>16, <1>17, Zenon DEF Source!Listen

\* A recv that returns data is its ReceiveChunk.
LEMMA ReceiveFeeds ==
  ASSUME ListenerInv, StreamsInOrder, RecvData
  PROVE (\A c \in DOMAIN conns' : InOrder(conns'[c].sock)) /\ Source!Listen
<1>0. pc = "recv" /\ Sock.buffer # << >>
  BY DEF RecvData
<1>1. PICK c \in DOMAIN conns : c = ConnOf(client_fd)
  BY <1>0, Reading
<1>2. /\ conns[c].open /\ conns[c].fd = client_fd /\ Sock = conns[c].sock /\ Sock \in Sockets
      /\ Received \in Nat /\ Received <= Len(Sock.buffer) /\ Received <= RECV_BUF_SIZE /\ Received > 0
  BY <1>0, <1>1, Reading
<1>3. PICK s \in Sockets : s = Sock
  BY <1>2
<1>4. PICK n \in Nat : n = Received
  BY <1>2
<1>5. n \in 1 .. Len(s.buffer) /\ n \in 1 .. RECV_BUF_SIZE
  BY <1>2, <1>3, <1>4, SocketFields, ListenerAssumption
<1>6. PICK t : t = Drained(s, n)
  OBVIOUS
<1>7. InOrder(s)
  BY <1>2, <1>3 DEF StreamsInOrder
<1>8. /\ InOrder(t) /\ Sent(t) = Sent(s) + n /\ t.peer = s.peer /\ Sent(s) + n <= Len(s.peer.stream)
      /\ SubSeq(s.buffer, 1, n) = SubSeq(s.peer.stream, Sent(s) + 1, Sent(s) + n)
  BY <1>5, <1>6, <1>7, DrainedInOrder
<1>9. t \in Sockets
  BY <1>2, <1>3, <1>4, <1>6, DrainedSocket
<1>10. conns' = [conns EXCEPT ![c].sock = t]
  BY <1>1, <1>3, <1>4, <1>6 DEF RecvData
<1>11. /\ conns' \in Seq(Conn) /\ DOMAIN conns' = DOMAIN conns
       /\ \A d \in DOMAIN conns : conns'[d].fd = conns[d].fd /\ conns'[d].open = conns[d].open
       /\ \A d \in DOMAIN conns : conns'[d].sock = IF d = c THEN t ELSE conns[d].sock
  BY <1>9, <1>10, SocketChanged DEF ListenerInv
<1>12. \A d \in DOMAIN conns' : InOrder(conns'[d].sock)
  BY <1>8, <1>11 DEF StreamsInOrder
<1>13. conns \in Seq(Conn) /\ conns[c] \in Conn /\ conns[c].sock = s /\ conns[c].open
  BY <1>2, <1>3, ConnType DEF ListenerInv
<1>14. /\ Seen \in Seq(SeenConn) /\ DOMAIN Seen = DOMAIN conns /\ Len(Seen) = Len(conns)
       /\ \A d \in DOMAIN conns : Seen[d] = SeenOf(conns[d]) /\ Seen[d] \in SeenConn
  BY <1>13, SeenIs
<1>15. Seen[c].open /\ Seen[c].fd = client_fd /\ Seen[c].peer = s.peer /\ Seen[c].sent = Sent(s)
  BY <1>2, <1>13, <1>14, SeenType
<1>16. PICK x : x = [Seen[c] EXCEPT !.sent = Seen[c].sent + n]
  OBVIOUS
<1>17. x = [fd |-> Seen[c].fd, peer |-> Seen[c].peer, open |-> Seen[c].open, sent |-> Seen[c].sent + n]
  BY <1>14, <1>16, SentReplaced, Zenon
<1>18. SeenOf(conns'[c]) = x
  <2>1. conns'[c].fd = conns[c].fd /\ conns'[c].open = conns[c].open /\ conns'[c].sock = t
    BY <1>11
  <2>2. Seen[c].fd = conns[c].fd /\ Seen[c].open = conns[c].open
    BY <1>13, <1>14, SeenType, Zenon
  <2>3. t.peer = Seen[c].peer /\ Sent(t) = Seen[c].sent + n
    BY <1>8, <1>15, Zenon
  <2> QED
    BY <1>17, <2>1, <2>2, <2>3, Zenon DEF SeenOf
<1>19. Seen' = [Seen EXCEPT ![c] = x]
  <2>1. Seen' = [d \in DOMAIN conns |-> SeenOf(conns'[d])]
    BY <1>11 DEF Seen, SeenOf, Sent
  <2>2. \A d \in DOMAIN conns : d # c => SeenOf(conns'[d]) = SeenOf(conns[d])
    BY <1>11 DEF SeenOf
  <2>3. \A d \in DOMAIN conns : SeenOf(conns'[d]) = IF d = c THEN x ELSE Seen[d]
    BY <1>14, <1>18, <2>2
  <2>4. [Seen EXCEPT ![c] = x] = [d \in DOMAIN conns |-> IF d = c THEN x ELSE Seen[d]]
    BY <1>14
  <2> QED
    BY <2>1, <2>3, <2>4
<1>20. Seen' = [Seen EXCEPT ![c].sent = Seen[c].sent + n]
  BY <1>16, <1>19, Zenon
<1>21. m_queue' = Append(m_queue, [client_id |-> Seen[c].fd, conn |-> c,
         data |-> SubSeq(Seen[c].peer.stream, Seen[c].sent + 1, Seen[c].sent + n)])
  <2>1. m_queue' = Append(m_queue, [client_id |-> client_fd, conn |-> c, data |-> SubSeq(s.buffer, 1, n)])
    BY <1>1, <1>3, <1>4, Zenon DEF RecvData, Pushed
  <2> QED
    BY <1>8, <1>15, <2>1, Zenon
<1>22. n <= Len(Seen[c].peer.stream) - Seen[c].sent
  <2>1. Sent(s) \in Int /\ Len(s.peer.stream) \in Nat
    BY SocketFields
  <2>2. n <= Len(s.peer.stream) - Sent(s)
    BY <1>8, <2>1
  <2> QED
    BY <1>15, <2>2, Zenon
<1>23. Source!ReceiveChunk(c, n)
  BY <1>15, <1>20, <1>21, <1>22, Zenon DEF Source!ReceiveChunk, Source!parserVars
<1>24. c \in 1 .. Len(Seen)
  BY <1>14
<1> QED
  BY <1>5, <1>12, <1>23, <1>24, Zenon DEF Source!Listen

\* The steps that the parser's side does not see.
LEMMA ChangeUnseen ==
  ASSUME ListenerInv, StreamsInOrder, Endless = {}, NEW c \in DOMAIN conns, ChangeAccepted(c)
  PROVE (\A d \in DOMAIN conns' : InOrder(conns'[d].sock)) /\ UNCHANGED <<m_queue, Seen>>
<1>1. PICK t \in Changed(conns[c].sock) : conns' = [conns EXCEPT ![c].sock = t]
  BY DEF ChangeAccepted
<1>2. conns \in Seq(Conn) /\ conns[c].sock \in Sockets /\ InOrder(conns[c].sock)
  BY ConnType DEF ListenerInv, StreamsInOrder
<1>3. t \in Sockets
  BY <1>2, ChangedSocket
<1>4. InOrder(t) /\ Sent(t) = Sent(conns[c].sock) /\ t.peer = conns[c].sock.peer
  BY <1>2, ChangedInOrder
<1>5. /\ conns' \in Seq(Conn) /\ DOMAIN conns' = DOMAIN conns
      /\ \A d \in DOMAIN conns : conns'[d].fd = conns[d].fd /\ conns'[d].open = conns[d].open
      /\ \A d \in DOMAIN conns : conns'[d].sock = IF d = c THEN t ELSE conns[d].sock
  BY <1>1, <1>3, SocketChanged DEF ListenerInv
<1>6. \A d \in DOMAIN conns : /\ conns'[d].sock.peer = conns[d].sock.peer
                              /\ Sent(conns'[d].sock) = Sent(conns[d].sock)
  BY <1>4, <1>5
<1>7. Seen' = Seen
  BY <1>2, <1>5, <1>6, SeenSame
<1>8. \A d \in DOMAIN conns' : InOrder(conns'[d].sock)
  BY <1>4, <1>5 DEF StreamsInOrder
<1>9. m_queue' = m_queue
  BY DEF ChangeAccepted
<1> QED
  BY <1>7, <1>8, <1>9

\* The listener is the environment that StreamingParser assumes, when no peer
\* repeats its stream for ever: whatever the network does, and whichever
\* system calls fail, each connection's bytes reach the raw queue in order and
\* without gaps, under its descriptor, until one marker ends it, before which the
\* descriptor is not given to another connection.  The proof needs, besides
\* ListenerInv, that what is not received yet is the end of the peer's stream.
THEOREM ListenerFeedsTheParser ==
  ASSUME Endless = {}
  PROVE  Spec => FeedsTheParser
<1>1. Init => StreamsInOrder /\ Source!Init
  <2> SUFFICES ASSUME Init PROVE StreamsInOrder /\ Source!Init
    OBVIOUS
  <2>1. StreamsInOrder
    BY DEF Init, StreamsInOrder
  <2>2. Seen = << >>
    BY DEF Init, Seen
  <2>3. (CHOOSE fd \in Fd : TRUE) \in Fd
    BY ListenerAssumption
  <2>4. m_queue = << >>
    BY DEF Init
  <2> QED
    BY <2>1, <2>2, <2>3, <2>4 DEF Source!Init
<1>2. ListenerInv /\ StreamsInOrder /\ [Next]_vars =>
        StreamsInOrder' /\ [Source!Listen \/ ParserTakes]_<<m_queue, Seen>>
  <2> SUFFICES ASSUME ListenerInv, StreamsInOrder, [Next]_vars
               PROVE StreamsInOrder' /\ [Source!Listen \/ ParserTakes]_<<m_queue, Seen>>
    OBVIOUS
  <2>1. \A i \in DOMAIN backlog' : InOrder(backlog'[i]) /\ Sent(backlog'[i]) = 0
    BY BacklogSteps DEF StreamsInOrder
  <2>2. ASSUME UNCHANGED conns
        PROVE (\A c \in DOMAIN conns' : InOrder(conns'[c].sock)) /\ Seen' = Seen
    BY <2>2 DEF StreamsInOrder, Seen
  <2>3. CASE UNCHANGED <<conns, m_queue>>
    BY <2>1, <2>2, <2>3 DEF StreamsInOrder
  <2>4. CASE ParserPops
    <3>1. UNCHANGED conns /\ m_queue # << >> /\ m_queue' = Tail(m_queue)
      BY <2>4 DEF ParserPops, kernel
    <3> QED
      BY <2>1, <2>2, <3>1 DEF StreamsInOrder, ParserTakes
  <2>5. ASSUME NEW c \in DOMAIN conns, ChangeAccepted(c)
        PROVE StreamsInOrder' /\ [Source!Listen \/ ParserTakes]_<<m_queue, Seen>>
    BY <2>1, <2>5, ChangeUnseen DEF StreamsInOrder
  <2>6. ASSUME NEW fd \in Fd \ OpenFds, AcceptClient(fd)
        PROVE StreamsInOrder' /\ [Source!Listen \/ ParserTakes]_<<m_queue, Seen>>
    BY <2>1, <2>6, AcceptFeeds DEF StreamsInOrder
  <2>7. CASE RecvData
    BY <2>1, <2>7, ReceiveFeeds DEF StreamsInOrder
  <2>8. ASSUME NEW fd \in OpenFds, disconnect_client(fd)
        PROVE StreamsInOrder' /\ [Source!Listen \/ ParserTakes]_<<m_queue, Seen>>
    BY <2>1, <2>8, DisconnectFeeds DEF StreamsInOrder
  <2> QED
    BY <2>3, <2>4, <2>5, <2>6, <2>7, <2>8, ConnSteps, Zenon
<1> QED
  BY <1>1, <1>2, ListenerCorrect, PTL DEF Spec, FeedsTheParser
=============================================================================
