----------------------- MODULE ParserDelivery_proofs -----------------------
(***************************************************************************)
(* Isolation and delivery of StreamingParser, for any number of            *)
(* connections, any streams, cuts and reuse of descriptors.                *)
(*                                                                         *)
(* Isolation: a ClientState has seen one contiguous piece of one           *)
(* connection's stream, also where rings overflow.  The invariant says in  *)
(* which order chunks and disconnect markers wait in the raw queue, whose  *)
(* bytes each ClientState has, and, for each connection, which offset of   *)
(* its stream each place of the queue stands for.                          *)
(*                                                                         *)
(* Delivery: the parsed queue is an interleaving of what the connections'  *)
(* drones sent, each one's in order and in the end complete.  The          *)
(* invariant adds that without overflows nothing of a stream is missing,   *)
(* and that what is still to come from a connection is what a reader of    *)
(* its stream finds from the parser's place on.                            *)
(*                                                                         *)
(* Round trip: what that reader finds in packets built by build_packet is  *)
(* the telemetry they were built from.                                     *)
(***************************************************************************)
EXTENDS StreamingParser_proofs

\* The connection that has a descriptor is the last that was given it.
LastIsOpen(cs) ==
  \A c, d \in 1 .. Len(cs) : cs[c].open /\ cs[d].fd = cs[c].fd => d <= c

\* Connection c is still open, or its disconnect marker waits at i or behind.
EndsFrom(c, i, q, cs) ==
  cs[c].open \/ \E j \in i .. Len(q) : q[j].conn = c /\ q[j].data = << >>

\* A chunk carries the descriptor of its connection, the marker is sent by a
\* connection that was closed, and one that was closed has sent it.
Stamped(i, q, cs) ==
  /\ q[i].conn \in 1 .. Len(cs)
  /\ q[i].client_id = cs[q[i].conn].fd
  /\ q[i].data = << >> => ~cs[q[i].conn].open
  /\ EndsFrom(q[i].conn, i, q, cs)

\* The connections of one descriptor wait one behind the other, each with
\* nothing behind its marker.
Before(i, j, q) ==
  /\ q[i].client_id = q[j].client_id => q[i].conn <= q[j].conn
  /\ q[i].conn = q[j].conn => q[i].data # << >>

InTurn(q, cs) ==
  /\ \A i \in 1 .. Len(q) : Stamped(i, q, cs)
  /\ \A i, j \in 1 .. Len(q) : i < j => Before(i, j, q)

\* All bytes of a ClientState are from connection c; its marker will come, and
\* before it nothing of an earlier connection on the descriptor.
OwnedBy(c, fd, h, q, cs) ==
  /\ cs[c].fd = fd
  /\ h.from = {c}
  /\ EndsFrom(c, 1, q, cs)
  /\ \A i \in 1 .. Len(q) : q[i].client_id = fd => c <= q[i].conn

Owned(hs, q, cs) ==
  \A fd \in DOMAIN hs : \E c \in 1 .. Len(cs) : OwnedBy(c, fd, hs[fd], q, cs)

\* o[i] is how much of the stream of connection c, which is k, has gone by
\* with the first i chunks of the queue.
Offsets(o, c, q, k) ==
  /\ o[Len(q)] = k.sent
  /\ \A i \in 0 .. Len(q) : o[i] <= k.sent
  /\ \A i \in 1 .. Len(q) :
       /\ q[i].conn # c => o[i] = o[i - 1]
       /\ q[i].conn = c => /\ o[i] = o[i - 1] + Len(q[i].data)
                           /\ q[i].data = SubSeq(k.peer.stream, o[i - 1] + 1, o[i])

\* The bytes pushed into a ClientState are those of the stream up to n.
PieceUpTo(h, n, k) ==
  \E b \in Nat : b + Len(h.pushed) = n /\ h.pushed = SubSeq(k.peer.stream, b + 1, n)

Delivered(c, hs, q, k) ==
  /\ k.sent <= Len(k.peer.stream)
  /\ \E o \in [0 .. Len(q) -> Nat] :
       /\ Offsets(o, c, q, k)
       /\ \A fd \in DOMAIN hs : hs[fd].from = {c} => PieceUpTo(hs[fd], o[0], k)

IsolationInv ==
  /\ LastIsOpen(conns)
  /\ InTurn(m_raw_queue, conns)
  /\ Owned(history, m_raw_queue, conns)
  /\ \A c \in 1 .. Len(conns) : Delivered(c, history, m_raw_queue, conns[c])

-----------------------------------------------------------------------------
(* A chunk is appended.                                                    *)

LEMMA Appended ==
  ASSUME NEW S, NEW q \in Seq(S), NEW d \in S
  PROVE  /\ Append(q, d) \in Seq(S)
         /\ Len(q) \in Nat /\ Len(Append(q, d)) = Len(q) + 1
         /\ \A i \in 1 .. Len(q) : Append(q, d)[i] = q[i]
         /\ Append(q, d)[Len(q) + 1] = d
  OBVIOUS

\* Connection c, which is open, sends a chunk, or the marker and is closed.
Sends(c, d, q, cs, cs2) ==
  /\ Len(cs2) = Len(cs)
  /\ \A k \in 1 .. Len(cs) : cs2[k].fd = cs[k].fd /\ cs2[k].peer = cs[k].peer
  /\ \A k \in 1 .. Len(cs) : k # c => cs2[k] = cs[k]
  /\ cs[c].open
  /\ d.conn = c /\ d.client_id = cs[c].fd
  /\ cs2[c].open <=> d.data # << >>

LEMMA SendsInTurn ==
  ASSUME NEW q \in Seq(DataChunk), NEW cs \in Seq(Connection), NEW cs2 \in Seq(Connection),
         NEW c \in 1 .. Len(cs), NEW d \in DataChunk, Sends(c, d, q, cs, cs2),
         LastIsOpen(cs), InTurn(q, cs), NEW hs, Owned(hs, q, cs)
  PROVE  LastIsOpen(cs2) /\ InTurn(Append(q, d), cs2) /\ Owned(hs, Append(q, d), cs2)
<1> DEFINE q2 == Append(q, d)
<1>1. /\ Len(q) \in Nat /\ Len(q2) = Len(q) + 1
      /\ \A i \in 1 .. Len(q) : q2[i] = q[i]
      /\ q2[Len(q) + 1] = d
  BY Appended
<1> HIDE DEF q2
<1>2. LastIsOpen(cs2)
  BY DEF Sends, LastIsOpen
<1>3. ASSUME NEW e \in 1 .. Len(cs), NEW i \in 1 .. Len(q) + 1, EndsFrom(e, i, q, cs)
      PROVE  EndsFrom(e, i, q2, cs2)
  <2>1. CASE e # c
    BY <1>1, <1>3, <2>1 DEF Sends, EndsFrom
  <2>2. CASE e = c
    BY <1>1, <1>3, <2>2 DEF Sends, EndsFrom
  <2> QED
    BY <2>1, <2>2
<1>4. ASSUME NEW i \in 1 .. Len(q) PROVE Stamped(i, q2, cs2)
  <2>1. Stamped(i, q, cs)
    BY DEF InTurn
  <2>2. q2[i] = q[i] /\ q[i].conn \in 1 .. Len(cs) /\ i \in 1 .. Len(q) + 1
    BY <1>1, <2>1 DEF Stamped
  <2>3. EndsFrom(q2[i].conn, i, q2, cs2)
    BY <1>3, <2>1, <2>2 DEF Stamped
  <2>4. q[i].data = << >> => ~cs2[q[i].conn].open
    BY <2>1, <2>2 DEF Sends, Stamped
  <2> QED
    BY <2>1, <2>2, <2>3, <2>4 DEF Sends, Stamped
<1>5. Stamped(Len(q) + 1, q2, cs2)
  BY <1>1 DEF Sends, Stamped, EndsFrom
<1>6. ASSUME NEW i \in 1 .. Len(q) PROVE Before(i, Len(q) + 1, q2)
  <2>1. Stamped(i, q, cs)
    BY DEF InTurn
  <2>2. q2[i] = q[i] /\ q2[Len(q) + 1] = d
    BY <1>1
  <2> QED
    BY <2>1, <2>2 DEF Before, Stamped, Sends, LastIsOpen
<1>7. ASSUME NEW i \in 1 .. Len(q), NEW j \in 1 .. Len(q), i < j PROVE Before(i, j, q2)
  BY <1>1, <1>7 DEF InTurn, Before
<1>8. InTurn(q2, cs2)
  <2>1. ASSUME NEW i \in 1 .. Len(q2) PROVE Stamped(i, q2, cs2)
    <3>1. i \in 1 .. Len(q) \/ i = Len(q) + 1
      BY <1>1
    <3> QED
      BY <1>4, <1>5, <3>1
  <2>2. ASSUME NEW i \in 1 .. Len(q2), NEW j \in 1 .. Len(q2), i < j PROVE Before(i, j, q2)
    <3>1. i \in 1 .. Len(q) /\ (j \in 1 .. Len(q) \/ j = Len(q) + 1)
      BY <1>1, <2>2
    <3> QED
      BY <1>6, <1>7, <2>2, <3>1
  <2> QED
    BY <2>1, <2>2 DEF InTurn
<1>9. ASSUME NEW fd \in DOMAIN hs PROVE \E e \in 1 .. Len(cs2) : OwnedBy(e, fd, hs[fd], q2, cs2)
  <2>1. PICK e \in 1 .. Len(cs) : OwnedBy(e, fd, hs[fd], q, cs)
    BY DEF Owned
  <2>2. EndsFrom(e, 1, q2, cs2)
    BY <1>1, <1>3, <2>1 DEF OwnedBy
  <2>3. \A i \in 1 .. Len(q2) : q2[i].client_id = fd => e <= q2[i].conn
    BY <1>1, <2>1 DEF OwnedBy, Sends, LastIsOpen
  <2>4. OwnedBy(e, fd, hs[fd], q2, cs2)
    BY <2>1, <2>2, <2>3 DEF OwnedBy, Sends
  <2> QED
    BY <2>4 DEF Sends
<1> QED
  BY <1>2, <1>8, <1>9 DEF q2, Owned

\* What the queue means for the stream of a connection that sends nothing now,
\* and of the one that does.
SendsNow(c, d, k, k2) ==
  /\ k2.peer = k.peer
  /\ \/ d.conn # c /\ k2.sent = k.sent
     \/ /\ d.conn = c
        /\ k2.sent = k.sent + Len(d.data)
        /\ k2.sent <= Len(k.peer.stream)
        /\ d.data = SubSeq(k.peer.stream, k.sent + 1, k2.sent)

LEMMA SendsOffsets ==
  ASSUME NEW q \in Seq(DataChunk), NEW d \in DataChunk, NEW c,
         NEW k \in Connection, NEW k2 \in Connection, SendsNow(c, d, k, k2),
         NEW o \in [0 .. Len(q) -> Nat], Offsets(o, c, q, k)
  PROVE  \E o2 \in [0 .. Len(Append(q, d)) -> Nat] : Offsets(o2, c, Append(q, d), k2) /\ o2[0] = o[0]
<1> DEFINE q2 == Append(q, d)
<1>1. /\ Len(q) \in Nat /\ Len(q2) = Len(q) + 1
      /\ \A i \in 1 .. Len(q) : q2[i] = q[i]
      /\ q2[Len(q) + 1] = d
  BY Appended
<1> HIDE DEF q2
<1>2. k.sent \in Nat /\ k2.sent \in Nat /\ k.sent <= k2.sent
  BY DEF Connection, DataChunk, SendsNow
<1>3. Offsets(o, c, q, k) /\ k2.peer = k.peer
  BY DEF SendsNow
<1> DEFINE o2 == [i \in 0 .. Len(q) + 1 |-> IF i <= Len(q) THEN o[i] ELSE k2.sent]
<1>4. /\ o2 \in [0 .. Len(q) + 1 -> Nat]
      /\ \A i \in 0 .. Len(q) : o2[i] = o[i]
      /\ o2[Len(q) + 1] = k2.sent
  BY <1>1, <1>2
<1> HIDE DEF o2
<1>5. ASSUME NEW i \in 1 .. Len(q)
      PROVE  /\ q2[i].conn # c => o2[i] = o2[i - 1]
             /\ q2[i].conn = c => /\ o2[i] = o2[i - 1] + Len(q2[i].data)
                                  /\ q2[i].data = SubSeq(k2.peer.stream, o2[i - 1] + 1, o2[i])
  <2>1. q2[i] = q[i] /\ o2[i] = o[i] /\ o2[i - 1] = o[i - 1]
    BY <1>1, <1>4
  <2> QED
    BY <1>3, <2>1 DEF Offsets
<1>6. o2[Len(q)] = k.sent /\ Len(q) + 1 - 1 = Len(q)
  BY <1>1, <1>3, <1>4 DEF Offsets
<1>7. /\ d.conn # c => o2[Len(q) + 1] = o2[Len(q)]
      /\ d.conn = c => /\ o2[Len(q) + 1] = o2[Len(q)] + Len(d.data)
                       /\ d.data = SubSeq(k2.peer.stream, o2[Len(q)] + 1, o2[Len(q) + 1])
  BY <1>3, <1>4, <1>6 DEF SendsNow
<1>8. ASSUME NEW i \in 0 .. Len(q2) PROVE o2[i] <= k2.sent
  <2>1. CASE i \in 0 .. Len(q)
    <3>1. o2[i] = o[i] /\ o[i] \in Nat /\ o[i] <= k.sent
      BY <1>3, <1>4, <2>1 DEF Offsets
    <3> QED
      BY <1>2, <3>1
  <2>2. CASE i = Len(q) + 1
    BY <1>2, <1>4, <2>2
  <2> QED
    BY <1>1, <2>1, <2>2
<1>9. Offsets(o2, c, q2, k2)
  <2>1. ASSUME NEW i \in 1 .. Len(q2)
        PROVE  /\ q2[i].conn # c => o2[i] = o2[i - 1]
               /\ q2[i].conn = c => /\ o2[i] = o2[i - 1] + Len(q2[i].data)
                                    /\ q2[i].data = SubSeq(k2.peer.stream, o2[i - 1] + 1, o2[i])
    <3>1. i \in 1 .. Len(q) \/ i = Len(q) + 1
      BY <1>1
    <3> QED
      BY <1>1, <1>5, <1>6, <1>7, <3>1
  <2> QED
    BY <1>1, <1>4, <1>8, <2>1 DEF Offsets
<1>10. o2[0] = o[0]
  BY <1>1, <1>4
<1> QED
  BY <1>1, <1>4, <1>9, <1>10 DEF q2

LEMMA SendsDelivered ==
  ASSUME NEW q \in Seq(DataChunk), NEW d \in DataChunk, NEW hs, NEW c,
         NEW k \in Connection, NEW k2 \in Connection, SendsNow(c, d, k, k2), Delivered(c, hs, q, k)
  PROVE  Delivered(c, hs, Append(q, d), k2)
<1>1. PICK o \in [0 .. Len(q) -> Nat] :
         /\ Offsets(o, c, q, k)
         /\ \A fd \in DOMAIN hs : hs[fd].from = {c} => PieceUpTo(hs[fd], o[0], k)
  BY DEF Delivered
<1>2. PICK o2 \in [0 .. Len(Append(q, d)) -> Nat] : Offsets(o2, c, Append(q, d), k2) /\ o2[0] = o[0]
  BY <1>1, SendsOffsets
<1>3. ASSUME NEW fd \in DOMAIN hs, hs[fd].from = {c} PROVE PieceUpTo(hs[fd], o2[0], k2)
  BY <1>1, <1>2, <1>3 DEF PieceUpTo, SendsNow
<1>4. k2.sent <= Len(k2.peer.stream)
  BY DEF Delivered, SendsNow
<1> QED
  BY <1>2, <1>3, <1>4 DEF Delivered

-----------------------------------------------------------------------------
(* The first chunk is popped.                                              *)

LEMMA Popped ==
  ASSUME NEW S, NEW q \in Seq(S), q # << >>
  PROVE  /\ Tail(q) \in Seq(S) /\ Head(q) = q[1] /\ q[1] \in S
         /\ Len(q) \in Nat \ {0} /\ Len(Tail(q)) = Len(q) - 1
         /\ \A i \in 1 .. Len(q) - 1 : Tail(q)[i] = q[i + 1]
  OBVIOUS

LEMMA PopEnds ==
  ASSUME NEW q \in Seq(DataChunk), q # << >>, NEW cs, NEW c, NEW i \in 1 .. Len(q),
         EndsFrom(c, i + 1, q, cs)
  PROVE  EndsFrom(c, i, Tail(q), cs)
<1>1. /\ Len(q) \in Nat \ {0} /\ Len(Tail(q)) = Len(q) - 1
      /\ \A j \in 1 .. Len(q) - 1 : Tail(q)[j] = q[j + 1]
  BY Popped
<1>2. CASE cs[c].open
  BY <1>2 DEF EndsFrom
<1>3. CASE ~cs[c].open
  <2>1. PICK j \in i + 1 .. Len(q) : q[j].conn = c /\ q[j].data = << >>
    BY <1>3 DEF EndsFrom
  <2>2. j - 1 \in i .. Len(Tail(q)) /\ j - 1 \in 1 .. Len(q) - 1 /\ j - 1 + 1 = j
    BY <1>1, <2>1
  <2>3. Tail(q)[j - 1] = q[j]
    BY <1>1, <2>2
  <2> QED
    BY <2>1, <2>2, <2>3 DEF EndsFrom
<1> QED
  BY <1>2, <1>3

LEMMA PopInTurn ==
  ASSUME NEW q \in Seq(DataChunk), q # << >>, NEW cs, InTurn(q, cs)
  PROVE  InTurn(Tail(q), cs)
<1> DEFINE q2 == Tail(q)
<1>1. /\ Len(q) \in Nat \ {0} /\ Len(q2) = Len(q) - 1
      /\ \A i \in 1 .. Len(q) - 1 : q2[i] = q[i + 1]
  BY Popped
<1>2. ASSUME NEW i \in 1 .. Len(q2) PROVE Stamped(i, q2, cs)
  <2>1. i + 1 \in 1 .. Len(q) /\ i \in 1 .. Len(q) /\ q2[i] = q[i + 1]
    BY <1>1
  <2>2. Stamped(i + 1, q, cs)
    BY <2>1 DEF InTurn
  <2>3. EndsFrom(q[i + 1].conn, i, q2, cs)
    BY <2>1, <2>2, PopEnds DEF Stamped
  <2> HIDE DEF q2
  <2> QED
    BY <2>1, <2>2, <2>3 DEF Stamped
<1> HIDE DEF q2
<1>3. ASSUME NEW i \in 1 .. Len(q2), NEW j \in 1 .. Len(q2), i < j PROVE Before(i, j, q2)
  <2>1. /\ i + 1 \in 1 .. Len(q) /\ j + 1 \in 1 .. Len(q) /\ i + 1 < j + 1
        /\ q2[i] = q[i + 1] /\ q2[j] = q[j + 1]
    BY <1>1, <1>3
  <2>2. Before(i + 1, j + 1, q)
    BY <2>1 DEF InTurn
  <2> QED
    BY <2>1, <2>2 DEF Before
<1> QED
  BY <1>2, <1>3 DEF InTurn, q2

\* What is left of the queue for a ClientState whose bytes are from c.
LEMMA PopOwned ==
  ASSUME NEW q \in Seq(DataChunk), q # << >>, NEW cs, NEW c, NEW fd, cs[c].fd = fd,
         EndsFrom(c, 2, q, cs), NEW h, h.from = {c},
         \A i \in 2 .. Len(q) : q[i].client_id = fd => c <= q[i].conn
  PROVE  OwnedBy(c, fd, h, Tail(q), cs)
<1>1. /\ Len(q) \in Nat \ {0} /\ Len(Tail(q)) = Len(q) - 1
      /\ \A i \in 1 .. Len(q) - 1 : Tail(q)[i] = q[i + 1]
  BY Popped
<1>2. EndsFrom(c, 1, Tail(q), cs)
  <2>1. 1 \in 1 .. Len(q) /\ 1 + 1 = 2
    BY <1>1
  <2> QED
    BY <2>1, PopEnds
<1>3. ASSUME NEW i \in 1 .. Len(Tail(q)), Tail(q)[i].client_id = fd PROVE c <= Tail(q)[i].conn
  <2>1. i + 1 \in 2 .. Len(q) /\ Tail(q)[i] = q[i + 1]
    BY <1>1
  <2> QED
    BY <1>3, <2>1
<1> QED
  BY <1>2, <1>3 DEF OwnedBy

\* A ClientState of another descriptor than that of the chunk.
LEMMA PopOther ==
  ASSUME NEW q \in Seq(DataChunk), q # << >>, NEW cs, InTurn(q, cs),
         NEW c, NEW fd, NEW h, OwnedBy(c, fd, h, q, cs), q[1].client_id # fd
  PROVE  q[1].conn # c /\ OwnedBy(c, fd, h, Tail(q), cs)
<1>1. Len(q) \in Nat \ {0}
  BY Popped
<1>2. Stamped(1, q, cs) /\ cs[c].fd = fd
  BY <1>1 DEF InTurn, OwnedBy
<1>3. q[1].conn # c
  BY <1>2 DEF Stamped
<1>4. EndsFrom(c, 2, q, cs)
  BY <1>1, <1>3 DEF OwnedBy, EndsFrom
<1>5. \A i \in 2 .. Len(q) : q[i].client_id = fd => c <= q[i].conn
  BY DEF OwnedBy
<1> QED
  BY <1>2, <1>3, <1>4, <1>5, PopOwned DEF OwnedBy

\* A data chunk for a ClientState that exists is from its connection: of an
\* older one none is left, and before one of a newer one comes the marker.
LEMMA PopSame ==
  ASSUME NEW q \in Seq(DataChunk), q # << >>, NEW cs \in Seq(Connection), InTurn(q, cs),
         LastIsOpen(cs), NEW c \in 1 .. Len(cs), NEW fd, NEW h, OwnedBy(c, fd, h, q, cs),
         q[1].client_id = fd
  PROVE  q[1].conn = c
<1>1. Len(q) \in Nat \ {0} /\ 1 \in 1 .. Len(q)
  BY Popped
<1>2. Stamped(1, q, cs) /\ cs[c].fd = fd /\ c <= q[1].conn
  BY <1>1 DEF InTurn, OwnedBy
<1>3. PICK d \in 1 .. Len(cs) : d = q[1].conn /\ cs[d].fd = fd
  BY <1>2 DEF Stamped
<1>4. CASE cs[c].open
  BY <1>2, <1>3, <1>4 DEF LastIsOpen
<1>5. CASE ~cs[c].open
  <2>1. PICK j \in 1 .. Len(q) : q[j].conn = c
    BY <1>5 DEF OwnedBy, EndsFrom
  <2>2. CASE j = 1
    BY <2>1, <2>2
  <2>3. CASE j # 1
    <3>1. Before(1, j, q)
      BY <1>1, <2>3 DEF InTurn
    <3>2. Stamped(j, q, cs)
      BY DEF InTurn
    <3>3. q[j].client_id = fd
      BY <1>2, <2>1, <3>2 DEF Stamped
    <3>4. d <= c /\ c <= d
      BY <1>2, <1>3, <2>1, <3>1, <3>3 DEF Before
    <3> QED
      BY <1>3, <3>4
  <2> QED
    BY <2>2, <2>3
<1> QED
  BY <1>4, <1>5

\* The ClientState that a data chunk finds or creates is its connection's.
LEMMA PopChunkOwned ==
  ASSUME NEW q \in Seq(DataChunk), q # << >>, NEW cs, InTurn(q, cs), q[1].data # << >>,
         NEW h, h.from = {q[1].conn}
  PROVE  OwnedBy(q[1].conn, q[1].client_id, h, Tail(q), cs)
<1>1. Len(q) \in Nat \ {0} /\ 1 \in 1 .. Len(q)
  BY Popped
<1>2. Stamped(1, q, cs)
  BY <1>1 DEF InTurn
<1>3. EndsFrom(q[1].conn, 2, q, cs)
  BY <1>1, <1>2 DEF Stamped, EndsFrom
<1>4. \A i \in 2 .. Len(q) : q[i].client_id = q[1].client_id => q[1].conn <= q[i].conn
  BY <1>1 DEF InTurn, Before
<1> QED
  BY <1>2, <1>3, <1>4, PopOwned DEF Stamped

LEMMA PiecesJoin ==
  ASSUME NEW t \in Seq(Byte), NEW b \in Nat, NEW m \in Nat, NEW n \in Nat,
         b <= m, m <= n, n <= Len(t)
  PROVE  SubSeq(t, b + 1, m) \o SubSeq(t, m + 1, n) = SubSeq(t, b + 1, n)
<1>1. /\ SubSeq(t, b + 1, m) \in Seq(Byte) /\ Len(SubSeq(t, b + 1, m)) = m - b
      /\ \A i \in 1 .. m - b : SubSeq(t, b + 1, m)[i] = t[b + i]
  OBVIOUS
<1>2. /\ SubSeq(t, m + 1, n) \in Seq(Byte) /\ Len(SubSeq(t, m + 1, n)) = n - m
      /\ \A i \in 1 .. n - m : SubSeq(t, m + 1, n)[i] = t[m + i]
  OBVIOUS
<1>3. /\ SubSeq(t, b + 1, n) \in Seq(Byte) /\ Len(SubSeq(t, b + 1, n)) = n - b
      /\ \A i \in 1 .. n - b : SubSeq(t, b + 1, n)[i] = t[b + i]
  OBVIOUS
<1> DEFINE u == SubSeq(t, b + 1, m)
           v == SubSeq(t, m + 1, n)
           w == SubSeq(t, b + 1, n)
<1> HIDE DEF u, v, w
<1>4. /\ u \in Seq(Byte) /\ v \in Seq(Byte) /\ w \in Seq(Byte)
      /\ Len(u) = m - b /\ Len(v) = n - m /\ Len(w) = n - b
  BY <1>1, <1>2, <1>3 DEF u, v, w
<1>5. u \o v \in Seq(Byte) /\ Len(u \o v) = Len(w)
  <2>1. u \o v \in Seq(Byte) /\ Len(u \o v) = Len(u) + Len(v)
    BY <1>4, ConcatProperties
  <2>2. (m - b) + (n - m) = n - b
    OBVIOUS
  <2> QED
    BY <1>4, <2>1, <2>2, Zenon
<1>6. ASSUME NEW i \in 1 .. Len(w) PROVE (u \o v)[i] = w[i]
  <2>1. w[i] = t[b + i]
    BY <1>3, <1>4 DEF w
  <2>2. CASE i <= m - b
    <3>1. (u \o v)[i] = u[i] /\ i \in 1 .. m - b
      BY <1>4, <2>2
    <3> QED
      BY <1>1, <2>1, <3>1 DEF u
  <2>3. CASE i > m - b
    <3>1. (u \o v)[i] = v[i - (m - b)] /\ i - (m - b) \in 1 .. n - m /\ m + (i - (m - b)) = b + i
      BY <1>4, <2>3
    <3>2. v[i - (m - b)] = t[m + (i - (m - b))]
      BY <1>2, <3>1 DEF v
    <3> QED
      BY <2>1, <3>1, <3>2
  <2> QED
    BY <1>4, <2>2, <2>3
<1>7. u \o v = w
  BY <1>4, <1>5, <1>6, SeqEqual
<1> QED
  BY <1>7 DEF u, v, w

LEMMA PopOffsets ==
  ASSUME NEW q \in Seq(DataChunk), q # << >>, NEW c, NEW k \in Connection,
         NEW o \in [0 .. Len(q) -> Nat], Offsets(o, c, q, k)
  PROVE  /\ \E o2 \in [0 .. Len(Tail(q)) -> Nat] : Offsets(o2, c, Tail(q), k) /\ o2[0] = o[1]
         /\ o[0] \in Nat /\ o[1] \in Nat /\ o[1] <= k.sent
         /\ q[1].conn # c => o[1] = o[0]
         /\ q[1].conn = c => /\ o[1] = o[0] + Len(q[1].data)
                             /\ q[1].data = SubSeq(k.peer.stream, o[0] + 1, o[1])
<1> DEFINE q2 == Tail(q)
<1>1. /\ Len(q) \in Nat \ {0} /\ Len(q2) = Len(q) - 1 /\ q[1] \in DataChunk
      /\ \A i \in 1 .. Len(q) - 1 : q2[i] = q[i + 1]
  BY Popped
<1> HIDE DEF q2
<1>2. k.sent \in Nat
  BY DEF Connection
<1>3. Offsets(o, c, q, k)
  OBVIOUS
<1> DEFINE o2 == [i \in 0 .. Len(q2) |-> o[i + 1]]
<1>4. /\ o2 \in [0 .. Len(q2) -> Nat]
      /\ \A i \in 0 .. Len(q2) : o2[i] = o[i + 1]
  BY <1>1
<1> HIDE DEF o2
<1>5. ASSUME NEW i \in 1 .. Len(q2)
      PROVE  /\ q2[i].conn # c => o2[i] = o2[i - 1]
             /\ q2[i].conn = c => /\ o2[i] = o2[i - 1] + Len(q2[i].data)
                                  /\ q2[i].data = SubSeq(k.peer.stream, o2[i - 1] + 1, o2[i])
  <2>1. /\ q2[i] = q[i + 1] /\ o2[i] = o[i + 1] /\ o2[i - 1] = o[i]
        /\ i + 1 \in 1 .. Len(q) /\ i + 1 - 1 = i
    <3>1. /\ i + 1 \in 1 .. Len(q) /\ i + 1 - 1 = i /\ i - 1 + 1 = i
          /\ i \in 1 .. Len(q) - 1 /\ i \in 0 .. Len(q2) /\ i - 1 \in 0 .. Len(q2)
      BY <1>1
    <3>2. o2[i] = o[i + 1] /\ o2[i - 1] = o[i - 1 + 1] /\ q2[i] = q[i + 1]
      BY <1>1, <1>4, <3>1, Zenon
    <3> QED
      BY <3>1, <3>2, Zenon
  <2> QED
    BY <1>3, <2>1 DEF Offsets
<1>6. Offsets(o2, c, q2, k)
  <2>1. o2[Len(q2)] = k.sent
    BY <1>1, <1>3, <1>4 DEF Offsets
  <2>2. \A i \in 0 .. Len(q2) : o2[i] <= k.sent
    BY <1>1, <1>3, <1>4 DEF Offsets
  <2> QED
    BY <1>5, <2>1, <2>2 DEF Offsets
<1>7. /\ o2[0] = o[1] /\ o[0] \in Nat /\ o[1] \in Nat
      /\ o[1] <= k.sent
      /\ q[1].conn # c => o[1] = o[0]
      /\ q[1].conn = c => o[1] = o[0] + Len(q[1].data) /\ q[1].data = SubSeq(k.peer.stream, o[0] + 1, o[1])
  <2>1. 0 \in 0 .. Len(q2) /\ 1 \in 1 .. Len(q) /\ 1 \in 0 .. Len(q) /\ 0 \in 0 .. Len(q) /\ 1 - 1 = 0
    BY <1>1
  <2>2. o2[0] = o[0 + 1] /\ 0 + 1 = 1
    BY <1>4, <2>1
  <2>3. o[0] \in Nat /\ o[1] \in Nat
    BY <1>3, <2>1, Zenon
  <2>4. /\ o[1] <= k.sent
        /\ q[1].conn # c => o[1] = o[1 - 1]
        /\ q[1].conn = c => /\ o[1] = o[1 - 1] + Len(q[1].data)
                            /\ q[1].data = SubSeq(k.peer.stream, o[1 - 1] + 1, o[1])
    BY <1>3, <2>1, Zenon DEF Offsets
  <2>5. 1 - 1 = 0
    OBVIOUS
  <2> QED
    BY <2>2, <2>3, <2>4, <2>5
<1> QED
  BY <1>4, <1>6, <1>7 DEF q2

\* What a ClientState h2 of connection c holds after the pop: what it held, if
\* the chunk was another's; the chunk, behind what was there if anything.
Grows(h2, hs, fd, c, chunk) ==
  \/ chunk.conn # c /\ fd \in DOMAIN hs /\ h2 = hs[fd]
  \/ chunk.conn = c /\ h2.pushed = chunk.data
  \/ /\ chunk.conn = c /\ fd \in DOMAIN hs /\ hs[fd].from = {c} /\ hs[fd].pushed \in Seq(Byte)
     /\ h2.pushed = hs[fd].pushed \o chunk.data

LEMMA PopDelivered ==
  ASSUME NEW q \in Seq(DataChunk), q # << >>, NEW c, NEW k \in Connection,
         k.peer.stream \in Seq(Byte), NEW hs, NEW hs2, Delivered(c, hs, q, k),
         \A fd \in DOMAIN hs2 : hs2[fd].from = {c} => Grows(hs2[fd], hs, fd, c, q[1])
  PROVE  Delivered(c, hs2, Tail(q), k)
<1>1. q[1] \in DataChunk
  BY Popped
<1>2. k.sent \in Nat /\ k.sent <= Len(k.peer.stream)
  BY DEF Connection, Delivered
<1>3. PICK o \in [0 .. Len(q) -> Nat] :
         /\ Offsets(o, c, q, k)
         /\ \A fd \in DOMAIN hs : hs[fd].from = {c} => PieceUpTo(hs[fd], o[0], k)
  BY DEF Delivered
<1>4. PICK o2 \in [0 .. Len(Tail(q)) -> Nat] : Offsets(o2, c, Tail(q), k) /\ o2[0] = o[1]
  BY <1>3, PopOffsets
<1>7. /\ o2[0] = o[1] /\ o[0] \in Nat /\ o[1] \in Nat
      /\ o[1] <= k.sent
      /\ q[1].conn # c => o[1] = o[0]
      /\ q[1].conn = c => o[1] = o[0] + Len(q[1].data) /\ q[1].data = SubSeq(k.peer.stream, o[0] + 1, o[1])
  BY <1>3, <1>4, PopOffsets
<1>8. q[1].data \in Seq(Byte) /\ Len(q[1].data) \in Nat
  BY <1>1 DEF DataChunk
<1>9. ASSUME NEW fd \in DOMAIN hs2, hs2[fd].from = {c} PROVE PieceUpTo(hs2[fd], o2[0], k)
  <2>1. CASE q[1].conn # c /\ fd \in DOMAIN hs /\ hs2[fd] = hs[fd]
    BY <1>3, <1>7, <1>9, <2>1
  <2>2. CASE q[1].conn = c /\ hs2[fd].pushed = q[1].data
    BY <1>7, <1>8, <2>2 DEF PieceUpTo
  <2>3. CASE /\ q[1].conn = c /\ fd \in DOMAIN hs /\ hs[fd].from = {c} /\ hs[fd].pushed \in Seq(Byte)
             /\ hs2[fd].pushed = hs[fd].pushed \o q[1].data
    <3>1. PieceUpTo(hs[fd], o[0], k)
      BY <1>3, <2>3
    <3>2. PICK b \in Nat : b + Len(hs[fd].pushed) = o[0] /\ hs[fd].pushed = SubSeq(k.peer.stream, b + 1, o[0])
      BY <3>1 DEF PieceUpTo
    <3>3. Len(hs[fd].pushed) \in Nat /\ Len(hs2[fd].pushed) = Len(hs[fd].pushed) + Len(q[1].data)
      BY <1>8, <2>3
    <3>4. b <= o[0] /\ o[0] <= o[1] /\ o[1] <= Len(k.peer.stream) /\ b + Len(hs2[fd].pushed) = o[1]
      <4>1. PICK l \in Nat, m \in Nat, L \in Nat :
              l = Len(hs[fd].pushed) /\ m = Len(q[1].data) /\ L = Len(k.peer.stream)
        BY <1>8, <3>3
      <4>2. o[0] = b + l /\ o[1] = o[0] + m /\ Len(hs2[fd].pushed) = l + m /\ k.sent <= L
        BY <1>2, <1>7, <2>3, <3>2, <3>3, <4>1
      <4>3. PICK x \in Nat, y \in Nat, s \in Nat : x = o[0] /\ y = o[1] /\ s = k.sent
        BY <1>2, <1>7, Zenon
      <4>4. x = b + l /\ y = x + m /\ y <= s /\ s <= L
        BY <1>7, <4>2, <4>3
      <4>5. b <= x /\ x <= y /\ y <= L /\ b + (l + m) = y
        BY <4>4
      <4> QED
        BY <4>1, <4>2, <4>3, <4>5, Zenon
    <3>5. hs2[fd].pushed = SubSeq(k.peer.stream, b + 1, o[1])
      <4>1. PICK t \in Seq(Byte) : t = k.peer.stream
        OBVIOUS
      <4>2. SubSeq(t, b + 1, o[0]) \o SubSeq(t, o[0] + 1, o[1]) = SubSeq(t, b + 1, o[1])
        BY <1>7, <3>4, <4>1, PiecesJoin
      <4>3. hs2[fd].pushed = SubSeq(t, b + 1, o[0]) \o SubSeq(t, o[0] + 1, o[1])
        BY <1>7, <2>3, <3>2, <4>1, Zenon
      <4> QED
        BY <4>1, <4>2, <4>3
    <3> QED
      BY <1>7, <3>4, <3>5 DEF PieceUpTo
  <2> QED
    BY <1>9, <2>1, <2>2, <2>3 DEF Grows
<1> QED
  BY <1>2, <1>4, <1>9 DEF Delivered

-----------------------------------------------------------------------------
(* A connection is accepted.                                               *)

LEMMA AcceptKeeps ==
  ASSUME NEW q \in Seq(DataChunk), NEW cs \in Seq(Connection), NEW k \in Connection,
         k.sent = 0, k.open, k.peer.stream \in Seq(Byte),
         \A c \in 1 .. Len(cs) : cs[c].fd = k.fd => ~cs[c].open,
         NEW hs, LastIsOpen(cs), InTurn(q, cs), Owned(hs, q, cs),
         \A c \in 1 .. Len(cs) : Delivered(c, hs, q, cs[c])
  PROVE  LET cs2 == Append(cs, k) IN
           /\ LastIsOpen(cs2) /\ InTurn(q, cs2) /\ Owned(hs, q, cs2)
           /\ \A c \in 1 .. Len(cs2) : Delivered(c, hs, q, cs2[c])
<1> DEFINE cs2 == Append(cs, k)
           new == Len(cs) + 1
<1>1. /\ Len(cs) \in Nat /\ Len(cs2) = new
      /\ \A c \in 1 .. Len(cs) : cs2[c] = cs[c]
      /\ cs2[new] = k
  BY Appended
<1>2. Len(q) \in Nat
  OBVIOUS
<1> HIDE DEF cs2
<1>3. LastIsOpen(cs2)
  <2> SUFFICES ASSUME NEW c \in 1 .. Len(cs2), NEW d \in 1 .. Len(cs2),
                      cs2[c].open, cs2[d].fd = cs2[c].fd
               PROVE  d <= c
    BY DEF LastIsOpen
  <2>1. (c \in 1 .. Len(cs) \/ c = new) /\ (d \in 1 .. Len(cs) \/ d = new)
    BY <1>1
  <2>2. CASE c = new
    BY <1>1, <2>2
  <2>3. CASE c \in 1 .. Len(cs) /\ d \in 1 .. Len(cs)
    BY <1>1, <2>3 DEF LastIsOpen
  <2>4. CASE c \in 1 .. Len(cs) /\ d = new
    <3>1. cs2[c] = cs[c] /\ cs2[d] = k
      BY <1>1, <2>4, Zenon
    <3> QED
      BY <2>4, <3>1
  <2> QED
    BY <2>1, <2>2, <2>3, <2>4
<1>4. ASSUME NEW i \in 1 .. Len(q)
      PROVE  q[i].conn \in 1 .. Len(cs) /\ Stamped(i, q, cs2)
  <2>1. Stamped(i, q, cs)
    BY DEF InTurn
  <2>2. q[i].conn \in 1 .. Len(cs) /\ q[i].conn \in 1 .. Len(cs2) /\ cs2[q[i].conn] = cs[q[i].conn]
    BY <1>1, <2>1 DEF Stamped
  <2> QED
    BY <2>1, <2>2 DEF Stamped, EndsFrom
<1>5. InTurn(q, cs2)
  BY <1>4 DEF InTurn
<1>6. ASSUME NEW fd \in DOMAIN hs
      PROVE  /\ hs[fd].from # {new}
             /\ \E c \in 1 .. Len(cs2) : OwnedBy(c, fd, hs[fd], q, cs2)
  <2>1. PICK c \in 1 .. Len(cs) : OwnedBy(c, fd, hs[fd], q, cs)
    BY DEF Owned
  <2>2. c \in 1 .. Len(cs2) /\ cs2[c] = cs[c] /\ c # new
    BY <1>1
  <2> QED
    BY <2>1, <2>2 DEF OwnedBy, EndsFrom
<1>7. Delivered(new, hs, q, k)
  <2> DEFINE o == [i \in 0 .. Len(q) |-> 0]
  <2>1. o \in [0 .. Len(q) -> Nat] /\ \A i \in 0 .. Len(q) : o[i] = 0
    OBVIOUS
  <2> HIDE DEF o
  <2>2. \A i \in 1 .. Len(q) : q[i].conn # new
    BY <1>1, <1>4
  <2>3. Offsets(o, new, q, k)
    BY <1>2, <2>1, <2>2 DEF Offsets
  <2>4. k.sent <= Len(k.peer.stream)
    OBVIOUS
  <2> HIDE DEF new
  <2> QED
    BY <1>6, <2>1, <2>3, <2>4, Zenon DEF Delivered
<1>8. ASSUME NEW c \in 1 .. Len(cs2) PROVE Delivered(c, hs, q, cs2[c])
  <2>1. c \in 1 .. Len(cs) \/ c = new
    BY <1>1
  <2> HIDE DEF new
  <2> QED
    BY <1>1, <1>7, <2>1
<1> QED
  BY <1>3, <1>5, <1>6, <1>8 DEF cs2, Owned

-----------------------------------------------------------------------------
(* The steps of the specification.                                         *)

LEMMA ConnType ==
  ASSUME TypeOK, NEW c \in 1 .. Len(conns)
  PROVE  /\ conns \in Seq(Connection) /\ conns[c] \in Connection
         /\ conns[c].fd \in Fd /\ conns[c].peer \in Peers /\ conns[c].sent \in Nat
         /\ conns[c].peer.stream \in Seq(Byte)
<1>1. conns \in Seq(Connection)
  BY DEF TypeOK
<1>2. conns[c] \in Connection
  BY <1>1
<1> QED
  BY <1>1, <1>2, ParserAssumption DEF Connection

LEMMA AcceptStep ==
  ASSUME TypeOK, IsolationInv, NEW fd \in Fd, NEW peer \in Peers, Accept(fd, peer)
  PROVE  IsolationInv'
<1> DEFINE k == [fd |-> fd, peer |-> peer, sent |-> 0, open |-> TRUE]
<1>1. k \in Connection /\ k.fd = fd /\ k.sent = 0 /\ k.open /\ k.peer = peer
  BY DEF Connection
<1>2. k.peer.stream \in Seq(Byte)
  BY <1>1, ParserAssumption
<1>3. /\ conns' = Append(conns, k) /\ m_raw_queue' = m_raw_queue /\ history' = history
      /\ \A c \in 1 .. Len(conns) : conns[c].fd = fd => ~conns[c].open
  BY DEF Accept, parserVars
<1> HIDE DEF k
<1>4. m_raw_queue \in Seq(DataChunk) /\ conns \in Seq(Connection)
  BY DEF TypeOK
<1>5. LET cs2 == Append(conns, k) IN
        /\ LastIsOpen(cs2) /\ InTurn(m_raw_queue, cs2) /\ Owned(history, m_raw_queue, cs2)
        /\ \A c \in 1 .. Len(cs2) : Delivered(c, history, m_raw_queue, cs2[c])
  <2>1. /\ LastIsOpen(conns) /\ InTurn(m_raw_queue, conns) /\ Owned(history, m_raw_queue, conns)
        /\ \A c \in 1 .. Len(conns) : Delivered(c, history, m_raw_queue, conns[c])
    BY DEF IsolationInv
  <2>2. \A c \in 1 .. Len(conns) : conns[c].fd = k.fd => ~conns[c].open
    BY <1>1, <1>3
  <2> QED
    BY <1>1, <1>2, <1>4, <2>1, <2>2, AcceptKeeps
<1> QED
  BY <1>3, <1>5 DEF IsolationInv

\* Connection c appends chunk d to the queue.
SentBy(c, d) ==
  /\ m_raw_queue' = Append(m_raw_queue, d) /\ history' = history
  /\ conns' \in Seq(Connection)
  /\ Sends(c, d, m_raw_queue, conns, conns')
  /\ \A e \in 1 .. Len(conns) : SendsNow(e, d, conns[e], conns'[e])

\* It is k2 afterwards.
LEMMA SentFacts ==
  ASSUME TypeOK, NEW c \in 1 .. Len(conns), conns[c].open,
         NEW d \in DataChunk, NEW k2 \in Connection,
         k2.fd = conns[c].fd, k2.peer = conns[c].peer, k2.open <=> d.data # << >>,
         k2.sent = conns[c].sent + Len(d.data), k2.sent <= Len(conns[c].peer.stream),
         d.conn = c, d.client_id = conns[c].fd,
         d.data = SubSeq(conns[c].peer.stream, conns[c].sent + 1, k2.sent),
         m_raw_queue' = Append(m_raw_queue, d), conns' = [conns EXCEPT ![c] = k2],
         history' = history
  PROVE  SentBy(c, d)
<1>1. conns \in Seq(Connection)
  BY DEF TypeOK
<1>2. /\ conns' \in Seq(Connection) /\ Len(conns') = Len(conns) /\ conns'[c] = k2
      /\ \A e \in 1 .. Len(conns) : e # c => conns'[e] = conns[e]
  BY <1>1
<1>3. Sends(c, d, m_raw_queue, conns, conns')
  <2>1. \A e \in 1 .. Len(conns) : conns'[e].fd = conns[e].fd /\ conns'[e].peer = conns[e].peer
    BY <1>2
  <2>2. conns'[c].open <=> d.data # << >>
    BY <1>2
  <2> QED
    BY <1>2, <2>1, <2>2 DEF Sends
<1>4. ASSUME NEW e \in 1 .. Len(conns) PROVE SendsNow(e, d, conns[e], conns'[e])
  <2>1. CASE e # c
    BY <1>2, <2>1 DEF SendsNow
  <2>2. CASE e = c
    BY <1>2, <2>2 DEF SendsNow
  <2> QED
    BY <2>1, <2>2
<1> QED
  BY <1>2, <1>3, <1>4 DEF SentBy

LEMMA SendStep ==
  ASSUME TypeOK, IsolationInv, NEW c \in 1 .. Len(conns), NEW d \in DataChunk, SentBy(c, d)
  PROVE  IsolationInv'
<1>1. m_raw_queue \in Seq(DataChunk) /\ conns \in Seq(Connection)
  BY DEF TypeOK
<1>2. /\ conns' \in Seq(Connection) /\ Len(conns') = Len(conns)
      /\ m_raw_queue' = Append(m_raw_queue, d) /\ history' = history
  BY DEF SentBy, Sends
<1>3. /\ LastIsOpen(conns') /\ InTurn(Append(m_raw_queue, d), conns')
      /\ Owned(history, Append(m_raw_queue, d), conns')
  BY <1>1, <1>2, SendsInTurn DEF IsolationInv, SentBy
<1>4. ASSUME NEW e \in 1 .. Len(conns)
      PROVE  Delivered(e, history, Append(m_raw_queue, d), conns'[e])
  <2>1. Delivered(e, history, m_raw_queue, conns[e]) /\ conns[e] \in Connection
    BY <1>1 DEF IsolationInv
  <2>2. conns'[e] \in Connection /\ SendsNow(e, d, conns[e], conns'[e])
    BY <1>2 DEF SentBy
  <2> QED
    BY <1>1, <2>1, <2>2, SendsDelivered
<1> QED
  BY <1>2, <1>3, <1>4 DEF IsolationInv

LEMMA ReceiveSends ==
  ASSUME TypeOK, NEW c \in 1 .. Len(conns), NEW n \in 1 .. RECV_BUF_SIZE, ReceiveChunk(c, n)
  PROVE  \E d \in DataChunk : SentBy(c, d)
<1>1. /\ conns \in Seq(Connection) /\ conns[c] \in Connection
      /\ conns[c].fd \in Fd /\ conns[c].sent \in Nat /\ conns[c].peer.stream \in Seq(Byte)
  BY ConnType
<1>2. n \in Nat \ {0}
  BY ParserAssumption
<1> DEFINE t == conns[c].peer.stream
           s == conns[c].sent
           data == SubSeq(t, s + 1, s + n)
           d == [client_id |-> conns[c].fd, conn |-> c, data |-> data]
           k2 == [conns[c] EXCEPT !.sent = @ + n]
<1>3. s + n <= Len(t)
  BY <1>1, <1>2 DEF ReceiveChunk
<1>4. data \in Seq(Byte) /\ Len(data) = n /\ data # << >>
  <2>1. ASSUME NEW u \in Seq(Byte), NEW a \in Nat, a + n <= Len(u)
        PROVE  /\ SubSeq(u, a + 1, a + n) \in Seq(Byte) /\ Len(SubSeq(u, a + 1, a + n)) = n
               /\ SubSeq(u, a + 1, a + n) # << >>
    BY <1>2, <2>1
  <2> QED
    BY <1>1, <1>3, <2>1, Zenon
<1>5. k2 \in Connection
  <2>1. FALSE \in BOOLEAN
    OBVIOUS
  <2> QED
    BY <1>1, <1>2, <2>1, ConnectionStep, Zenon DEF Connection
<1>6. k2.fd = conns[c].fd /\ k2.peer = conns[c].peer /\ k2.sent = s + n /\ k2.open = conns[c].open
  BY <1>1 DEF Connection
<1>7. /\ conns[c].open /\ history' = history
      /\ m_raw_queue' = Append(m_raw_queue, d) /\ conns' = [conns EXCEPT ![c] = k2]
  BY DEF ReceiveChunk, parserVars
<1> HIDE DEF data, k2
<1>8. /\ d \in DataChunk /\ d.conn = c /\ d.client_id = conns[c].fd /\ d.data = data
  BY <1>1, <1>4 DEF DataChunk
<1>9. data = SubSeq(conns[c].peer.stream, conns[c].sent + 1, k2.sent)
  BY <1>6, Zenon DEF data
<1>10. k2.sent = conns[c].sent + Len(data) /\ k2.sent <= Len(conns[c].peer.stream)
  BY <1>3, <1>4, <1>6
<1> HIDE DEF d
<1> QED
  BY <1>4, <1>5, <1>6, <1>7, <1>8, <1>9, <1>10, SentFacts

LEMMA DisconnectSends ==
  ASSUME TypeOK, IsolationInv, NEW c \in 1 .. Len(conns), Disconnect(c)
  PROVE  \E d \in DataChunk : SentBy(c, d)
<1>1. /\ conns \in Seq(Connection) /\ conns[c] \in Connection
      /\ conns[c].fd \in Fd /\ conns[c].sent \in Nat /\ conns[c].peer.stream \in Seq(Byte)
  BY ConnType
<1> DEFINE d == [client_id |-> conns[c].fd, conn |-> c, data |-> << >>]
           k2 == [conns[c] EXCEPT !.open = FALSE]
<1>2. k2 \in Connection
  <2>1. FALSE \in BOOLEAN /\ 0 \in Nat
    OBVIOUS
  <2> QED
    BY <1>1, <2>1, ConnectionStep, Zenon DEF Connection
<1>3. k2.fd = conns[c].fd /\ k2.peer = conns[c].peer /\ k2.sent = conns[c].sent /\ ~k2.open
  BY <1>1 DEF Connection
<1>4. /\ conns[c].open /\ history' = history
      /\ m_raw_queue' = Append(m_raw_queue, d) /\ conns' = [conns EXCEPT ![c] = k2]
  BY DEF Disconnect, parserVars
<1> HIDE DEF k2
<1>5. /\ d \in DataChunk /\ d.conn = c /\ d.client_id = conns[c].fd /\ d.data = << >>
  BY <1>1 DEF DataChunk
<1>6. SubSeq(conns[c].peer.stream, conns[c].sent + 1, conns[c].sent) = << >>
  BY <1>1
<1>7. conns[c].sent + Len(<< >>) = conns[c].sent
  BY <1>1
<1>8. conns[c].sent <= Len(conns[c].peer.stream)
  BY DEF IsolationInv, Delivered
<1> HIDE DEF d
<1> QED
  BY <1>2, <1>3, <1>4, <1>5, <1>6, <1>7, <1>8, SentFacts

\* The ClientStates of the other descriptors when a chunk is popped, and the
\* streams of all connections, given what became of the ClientState of its own.
LEMMA PopStep ==
  ASSUME TypeOK, IsolationInv, m_raw_queue # << >>,
         m_raw_queue' = Tail(m_raw_queue), conns' = conns,
         \A fd \in DOMAIN history' \ {Chunk.client_id} :
           fd \in DOMAIN history /\ history'[fd] = history[fd],
         Chunk.client_id \in DOMAIN history' =>
           /\ Chunk.data # << >>
           /\ history'[Chunk.client_id].from = {Chunk.conn}
           /\ Grows(history'[Chunk.client_id], history, Chunk.client_id, Chunk.conn, Chunk)
  PROVE  IsolationInv'
<1> DEFINE q == m_raw_queue
           fd0 == Chunk.client_id
<1>1. q \in Seq(DataChunk) /\ conns \in Seq(Connection) /\ q # << >>
  BY DEF TypeOK
<1>2. /\ Chunk = q[1] /\ 1 \in 1 .. Len(q)
  BY <1>1, Popped DEF Chunk
<1> HIDE DEF q
<1>3. LastIsOpen(conns) /\ InTurn(q, conns) /\ Owned(history, q, conns)
  BY DEF IsolationInv, q
<1>4. InTurn(Tail(q), conns)
  BY <1>1, <1>3, PopInTurn
<1>5. /\ Chunk.conn \in 1 .. Len(conns)
      /\ Chunk.client_id = conns[Chunk.conn].fd
  BY <1>2, <1>3 DEF InTurn, Stamped
<1>6. ASSUME NEW fd \in DOMAIN history'
      PROVE  \E c \in 1 .. Len(conns) :
               /\ OwnedBy(c, fd, history'[fd], Tail(q), conns)
               /\ Grows(history'[fd], history, fd, c, Chunk)
  <2>1. CASE fd # fd0
    <3>1. fd \in DOMAIN history /\ history'[fd] = history[fd]
      BY <2>1
    <3>2. PICK c \in 1 .. Len(conns) : OwnedBy(c, fd, history[fd], q, conns)
      BY <1>3, <3>1 DEF Owned
    <3>3. q[1].conn # c /\ OwnedBy(c, fd, history[fd], Tail(q), conns)
      BY <1>1, <1>2, <1>3, <2>1, <3>2, PopOther
    <3> QED
      BY <1>2, <3>1, <3>3 DEF Grows
  <2>2. CASE fd = fd0
    <3>1. OwnedBy(q[1].conn, q[1].client_id, history'[fd], Tail(q), conns)
      BY <1>1, <1>2, <1>3, <2>2, PopChunkOwned
    <3> QED
      BY <1>2, <1>5, <2>2, <3>1
  <2> QED
    BY <2>1, <2>2
<1>7. ASSUME NEW c \in 1 .. Len(conns)
      PROVE  Delivered(c, history', Tail(q), conns[c])
  <2>1. Delivered(c, history, q, conns[c])
    BY DEF IsolationInv, q
  <2>2. ASSUME NEW fd \in DOMAIN history', history'[fd].from = {c}
        PROVE  Grows(history'[fd], history, fd, c, q[1])
    <3>1. PICK e \in 1 .. Len(conns) :
            /\ OwnedBy(e, fd, history'[fd], Tail(q), conns)
            /\ Grows(history'[fd], history, fd, e, Chunk)
      BY <1>6
    <3>2. e = c
      BY <2>2, <3>1 DEF OwnedBy
    <3> QED
      BY <1>2, <3>1, <3>2
  <2>3. conns[c] \in Connection /\ conns[c].peer.stream \in Seq(Byte)
    BY ConnType
  <2> QED
    BY <1>1, <2>1, <2>2, <2>3, PopDelivered
<1>8. Owned(history', Tail(q), conns)
  BY <1>6 DEF Owned
<1> QED
  BY <1>3, <1>4, <1>7, <1>8 DEF IsolationInv, q

LEMMA EraseKeeps ==
  ASSUME TypeOK, IsolationInv, m_raw_queue # << >>, EraseClient
  PROVE  IsolationInv'
<1>1. /\ DOMAIN m_clients' = DOMAIN m_clients \ {Chunk.client_id}
      /\ history' \in [DOMAIN m_clients' -> History]
      /\ \A fd \in DOMAIN m_clients' : history'[fd] = history[fd]
  BY EraseStep
<1>2. DOMAIN history = DOMAIN m_clients /\ DOMAIN history' = DOMAIN m_clients'
  BY <1>1 DEF TypeOK
<1>3. m_raw_queue' = Tail(m_raw_queue) /\ conns' = conns
  BY DEF EraseClient
<1> QED
  BY <1>1, <1>2, <1>3, PopStep

LEMMA PopDataKeeps ==
  ASSUME TypeOK, IsolationInv, PopData
  PROVE  IsolationInv'
<1> DEFINE fd0 == Chunk.client_id
           h == FoundHistory
           h2 == [h EXCEPT !.pushed = @ \o Chunk.data, !.from = @ \cup {Chunk.conn}]
<1>1. /\ Chunk \in DataChunk /\ h \in History /\ Chunk.data \in Seq(Byte)
      /\ DOMAIN m_clients' = DOMAIN m_clients \cup {fd0}
      /\ history' \in [DOMAIN m_clients' -> History]
      /\ history'[fd0] = h2
      /\ \A fd \in DOMAIN m_clients \ {fd0} : history'[fd] = history[fd]
  BY PopDataStep
<1>2. DOMAIN history = DOMAIN m_clients /\ DOMAIN history' = DOMAIN m_clients'
  BY <1>1 DEF TypeOK
<1>3. /\ m_raw_queue' = Tail(m_raw_queue) /\ conns' = conns
      /\ m_raw_queue # << >> /\ Chunk.data # << >>
  BY DEF PopData
<1>4. h2.pushed = h.pushed \o Chunk.data /\ h2.from = h.from \cup {Chunk.conn} /\ h.pushed \in Seq(Byte)
  BY <1>1 DEF History
<1> HIDE DEF h, h2
<1>5. CASE fd0 \notin DOMAIN m_clients
  <2>1. h.pushed = << >> /\ h.from = {}
    BY <1>5 DEF h, FoundHistory, Fresh
  <2>2. << >> \o Chunk.data = Chunk.data
    BY <1>1, ConcatEmptySeq
  <2>3. h2.pushed = Chunk.data /\ h2.from = {Chunk.conn}
    BY <1>4, <2>1, <2>2
  <2>4. Grows(history'[fd0], history, fd0, Chunk.conn, Chunk)
    BY <1>1, <2>3 DEF Grows
  <2> QED
    BY <1>1, <1>2, <1>3, <2>3, <2>4, PopStep
<1>6. CASE fd0 \in DOMAIN m_clients
  <2>1. h = history[fd0] /\ fd0 \in DOMAIN history
    BY <1>2, <1>6 DEF h, FoundHistory
  <2>2. m_raw_queue \in Seq(DataChunk) /\ conns \in Seq(Connection)
    BY DEF TypeOK
  <2>3. PICK c \in 1 .. Len(conns) : OwnedBy(c, fd0, h, m_raw_queue, conns)
    BY <2>1 DEF IsolationInv, Owned
  <2>4. Chunk = m_raw_queue[1]
    BY <1>3, <2>2, Popped DEF Chunk
  <2>5. Chunk.conn = c
    BY <1>3, <2>2, <2>3, <2>4, PopSame DEF IsolationInv
  <2>6. h.from = {Chunk.conn}
    BY <2>3, <2>5 DEF OwnedBy
  <2>7. h2.from = {Chunk.conn}
    BY <1>4, <2>6
  <2>8. Grows(history'[fd0], history, fd0, Chunk.conn, Chunk)
    BY <1>1, <1>4, <2>1, <2>6 DEF Grows
  <2> QED
    BY <1>1, <1>2, <1>3, <2>7, <2>8, PopStep
<1> QED
  BY <1>5, <1>6

\* process_client pushes nothing and pops nothing.
LEMMA SameBytesKeep ==
  ASSUME IsolationInv, m_raw_queue' = m_raw_queue, conns' = conns,
         DOMAIN history' = DOMAIN history,
         \A fd \in DOMAIN history :
           history'[fd].pushed = history[fd].pushed /\ history'[fd].from = history[fd].from
  PROVE  IsolationInv'
<1>1. Owned(history', m_raw_queue, conns)
  BY DEF IsolationInv, Owned, OwnedBy
<1>2. ASSUME NEW c \in 1 .. Len(conns) PROVE Delivered(c, history', m_raw_queue, conns[c])
  <2>1. Delivered(c, history, m_raw_queue, conns[c])
    BY DEF IsolationInv
  <2>2. ASSUME NEW fd \in DOMAIN history, NEW n, PieceUpTo(history[fd], n, conns[c])
        PROVE  PieceUpTo(history'[fd], n, conns[c])
    BY <2>2 DEF PieceUpTo
  <2> QED
    BY <2>1, <2>2 DEF Delivered
<1> QED
  BY <1>1, <1>2 DEF IsolationInv

LEMMA ProcessHistory ==
  ASSUME TypeOK, process_client
  PROVE  /\ pc = "process" /\ m_raw_queue' = m_raw_queue /\ conns' = conns
         /\ DOMAIN history' = DOMAIN history
         /\ \A fd \in DOMAIN history :
              history'[fd].pushed = history[fd].pushed /\ history'[fd].from = history[fd].from
<1>1. pc = "process" /\ m_raw_queue' = m_raw_queue /\ conns' = conns
  BY DEF process_client, Return, NotEnough, HeaderMissing, HeaderFound, LengthAbsurd, LengthValid,
       CrcMismatch, TakePacket, PacketComplete, InState, queues
<1>2. client \in DOMAIN history /\ history[client] \in History /\ history \in [DOMAIN history -> History]
  BY <1>1 DEF TypeOK
<1>3. \/ history' = history
      \/ \E n : history' = [history EXCEPT ![client] = Consumed(history[client], n)]
      \/ \E n : history' = [history EXCEPT ![client] = Taken(history[client], n)]
  BY DEF process_client, Return, HeaderMissing, HeaderFound, LengthAbsurd, LengthValid,
       CrcMismatch, TakePacket, Resync
<1>4. ASSUME NEW n, NEW h \in History
      PROVE  /\ Consumed(h, n).pushed = h.pushed /\ Consumed(h, n).from = h.from
             /\ Taken(h, n).pushed = h.pushed /\ Taken(h, n).from = h.from
  BY DEF Consumed, Taken, History
<1>5. /\ DOMAIN history' = DOMAIN history
      /\ \A fd \in DOMAIN history :
           history'[fd].pushed = history[fd].pushed /\ history'[fd].from = history[fd].from
  BY <1>2, <1>3, <1>4
<1> QED
  BY <1>1, <1>5

LEMMA ProcessKeeps ==
  ASSUME TypeOK, IsolationInv, process_client
  PROVE  IsolationInv'
  BY ProcessHistory, SameBytesKeep

\* The order of chunks, markers and descriptor reuse, and the offsets of the
\* streams, hold throughout.
THEOREM IsolationCorrect == Spec => [](TypeOK /\ IsolationInv)
<1>1. Init => IsolationInv
  BY DEF Init, IsolationInv, LastIsOpen, InTurn, Owned
<1>2. TypeOK /\ IsolationInv /\ [Next]_vars => IsolationInv'
  <2> SUFFICES ASSUME TypeOK, IsolationInv, [Next]_vars PROVE IsolationInv'
    OBVIOUS
  <2>1. CASE Listen
    BY <2>1, AcceptStep, ReceiveSends, DisconnectSends, SendStep DEF Listen
  <2>2. CASE PopDisconnect \/ PopOverflow
    BY <2>2, EraseKeeps DEF PopDisconnect, PopOverflow
  <2>3. CASE PopData
    BY <2>3, PopDataKeeps
  <2>4. CASE process_client
    BY <2>4, ProcessKeeps
  <2>5. CASE RequestStop \/ CheckStop \/ PopStopped \/ UNCHANGED vars
    <3>1. m_raw_queue' = m_raw_queue /\ conns' = conns /\ history' = history
      BY <2>5 DEF RequestStop, CheckStop, PopStopped, vars, queues, parserVars
    <3> QED
      BY <3>1, SameBytesKeep
  <2> QED
    BY <2>1, <2>2, <2>3, <2>4, <2>5 DEF Next, Environment, run
<1> QED
  BY <1>1, <1>2, TypeCorrect, PTL DEF Spec

\* A ClientState never holds bytes of two connections, and those it holds are
\* one contiguous piece of the stream: for any drones and any cuts, however
\* descriptors are reused and rings overflow (src/streamingParser.cpp:61-91).
THEOREM ClientsAreIsolated == Spec => []Isolation
<1>1. TypeOK /\ IsolationInv => Isolation
  <2> SUFFICES ASSUME TypeOK, IsolationInv, NEW fd \in DOMAIN m_clients
               PROVE  \E c \in 1 .. Len(conns) :
                        /\ conns[c].fd = fd
                        /\ history[fd].from = {c}
                        /\ \E i \in 1 .. Len(conns[c].peer.stream) + 1 - Len(history[fd].pushed) :
                             history[fd].pushed =
                               SubSeq(conns[c].peer.stream, i, i + Len(history[fd].pushed) - 1)
    BY DEF Isolation
  <2>1. fd \in DOMAIN history /\ history[fd] \in History
    BY DEF TypeOK
  <2>2. PICK c \in 1 .. Len(conns) : OwnedBy(c, fd, history[fd], m_raw_queue, conns)
    BY <2>1 DEF IsolationInv, Owned
  <2>3. conns[c].fd = fd /\ history[fd].from = {c}
    BY <2>2 DEF OwnedBy
  <2>4. conns[c].sent \in Nat /\ conns[c].peer.stream \in Seq(Byte) /\ Len(m_raw_queue) \in Nat
    BY ConnType DEF TypeOK
  <2>5. Delivered(c, history, m_raw_queue, conns[c])
    BY DEF IsolationInv
  <2>6. PICK o \in [0 .. Len(m_raw_queue) -> Nat] :
          /\ Offsets(o, c, m_raw_queue, conns[c])
          /\ PieceUpTo(history[fd], o[0], conns[c])
    BY <2>1, <2>3, <2>5 DEF Delivered
  <2>7. o[0] \in Nat /\ o[0] <= conns[c].sent /\ conns[c].sent <= Len(conns[c].peer.stream)
    BY <2>4, <2>5, <2>6 DEF Offsets, Delivered
  <2>8. PICK b \in Nat :
          /\ b + Len(history[fd].pushed) = o[0]
          /\ history[fd].pushed = SubSeq(conns[c].peer.stream, b + 1, o[0])
    BY <2>6 DEF PieceUpTo
  <2>9. PICK l \in Nat, L \in Nat : l = Len(history[fd].pushed) /\ L = Len(conns[c].peer.stream)
    BY <2>1, <2>4 DEF History
  <2>10. b + 1 \in 1 .. L + 1 - l /\ b + 1 + l - 1 = o[0]
    <3>1. PICK x \in Nat, y \in Nat : x = o[0] /\ y = conns[c].sent
      BY <2>4, <2>7, Zenon
    <3>2. b + l = x /\ x <= y /\ y <= L
      BY <2>7, <2>8, <2>9, <3>1
    <3>3. b + 1 \in 1 .. L + 1 - l /\ b + 1 + l - 1 = x
      BY <3>2
    <3> QED
      BY <3>1, <3>3, Zenon
  <2> QED
    BY <2>3, <2>8, <2>9, <2>10
<1> QED
  BY <1>1, IsolationCorrect, PTL

-----------------------------------------------------------------------------
(* Delivery.  With a ring in which every chunk finds room no ClientState is *)
(* erased before its connection's marker, so it has seen the stream from    *)
(* the first byte on.                                                       *)

\* The marker of connection c is still to come and no ClientState has bytes of c.
Unseen(c) ==
  /\ EndsFrom(c, 1, m_raw_queue, conns)
  /\ \A fd \in DOMAIN history : history[fd].from # {c}

\* The first n bytes of the stream of c have been pushed.
PushedUpTo(c, n) ==
  /\ \A fd \in DOMAIN history :
       history[fd].from = {c} => history[fd].pushed = SubSeq(conns[c].peer.stream, 1, n)
  /\ Unseen(c) => n = 0

Whole(c) ==
  \E o \in [0 .. Len(m_raw_queue) -> Nat] :
    Offsets(o, c, m_raw_queue, conns[c]) /\ PushedUpTo(c, o[0])

\* What a reader of the whole stream of c collects from each offset on.
Reader(c) == Collected(conns[c].peer.stream, Readings(conns[c].peer.stream))

\* k records of c have been delivered, and the bytes that its ClientState has
\* not consumed are where the reader finds the others.
ReadUpTo(c, k) ==
  /\ \A fd \in DOMAIN history :
       history[fd].from = {c} =>
         /\ k <= Len(Reader(c)[0])
         /\ Reader(c)[history[fd].at] = SubSeq(Reader(c)[0], k + 1, Len(Reader(c)[0]))
  /\ Unseen(c) => k = 0

Attributed(owner) ==
  /\ InSentOrder(owner)
  /\ \A c \in 1 .. Len(conns) : ReadUpTo(c, Share(owner, c, Len(m_parsed_queue)))

DeliveryInv ==
  /\ \A c \in 1 .. Len(conns) : Whole(c)
  /\ \E owner \in [1 .. Len(m_parsed_queue) -> 1 .. Len(conns)] : Attributed(owner)

\* A marker that is popped was the last of its connection.
LEMMA MarkerEnds ==
  ASSUME NEW q \in Seq(DataChunk), q # << >>, NEW cs, InTurn(q, cs), q[1].data = << >>
  PROVE  ~EndsFrom(q[1].conn, 1, Tail(q), cs)
<1>1. /\ Len(q) \in Nat \ {0} /\ Len(Tail(q)) = Len(q) - 1
      /\ \A i \in 1 .. Len(q) - 1 : Tail(q)[i] = q[i + 1]
  BY Popped
<1>2. Stamped(1, q, cs)
  BY <1>1 DEF InTurn
<1>3. ASSUME NEW j \in 1 .. Len(Tail(q)) PROVE Tail(q)[j].conn # q[1].conn
  <2>1. Tail(q)[j] = q[j + 1] /\ j + 1 \in 1 .. Len(q) /\ 1 \in 1 .. Len(q) /\ 1 < j + 1
    BY <1>1
  <2>2. Before(1, j + 1, q)
    BY <2>1 DEF InTurn
  <2> QED
    BY <2>1, <2>2 DEF Before
<1> QED
  BY <1>2, <1>3 DEF EndsFrom, Stamped

\* What is behind the first chunk was behind it before.
LEMMA EndedBefore ==
  ASSUME NEW q \in Seq(DataChunk), q # << >>, NEW cs, NEW c, EndsFrom(c, 1, Tail(q), cs)
  PROVE  EndsFrom(c, 1, q, cs)
<1>1. /\ Len(q) \in Nat \ {0} /\ Len(Tail(q)) = Len(q) - 1
      /\ \A i \in 1 .. Len(q) - 1 : Tail(q)[i] = q[i + 1]
  BY Popped
<1>2. CASE cs[c].open
  BY <1>2 DEF EndsFrom
<1>3. CASE ~cs[c].open
  <2>1. PICK j \in 1 .. Len(Tail(q)) : Tail(q)[j].conn = c /\ Tail(q)[j].data = << >>
    BY <1>3 DEF EndsFrom
  <2>2. j + 1 \in 1 .. Len(q) /\ Tail(q)[j] = q[j + 1]
    BY <1>1
  <2> QED
    BY <2>1, <2>2 DEF EndsFrom
<1> QED
  BY <1>2, <1>3

\* A ClientState of connection c after a pop: as it was, or with the chunk
\* behind what it had, or new with the chunk if nothing of c was seen before.
Fed(c, fd) ==
  \/ Chunk.conn # c /\ fd \in DOMAIN history /\ history'[fd] = history[fd]
  \/ /\ Chunk.conn = c /\ fd \in DOMAIN history /\ history[fd].from = {c}
     /\ history'[fd].pushed = history[fd].pushed \o Chunk.data
     /\ history'[fd].at = history[fd].at
  \/ /\ Chunk.conn = c /\ Unseen(c)
     /\ history'[fd].pushed = Chunk.data /\ history'[fd].at = 0

LEMMA PopFeeds ==
  ASSUME TypeOK, IsolationInv, PopData, NEW c \in 1 .. Len(conns)
  PROVE  /\ Unseen(c)' => Unseen(c)
         /\ \A fd \in DOMAIN history' : history'[fd].from = {c} => Fed(c, fd)
<1> DEFINE q == m_raw_queue
           fd0 == Chunk.client_id
           h == FoundHistory
           h2 == [h EXCEPT !.pushed = @ \o Chunk.data, !.from = @ \cup {Chunk.conn}]
<1>1. /\ Chunk \in DataChunk /\ h \in History /\ Chunk.data \in Seq(Byte)
      /\ DOMAIN m_clients' = DOMAIN m_clients \cup {fd0}
      /\ history' \in [DOMAIN m_clients' -> History]
      /\ history'[fd0] = h2
      /\ \A fd \in DOMAIN m_clients \ {fd0} : history'[fd] = history[fd]
  BY PopDataStep
<1>2. DOMAIN history = DOMAIN m_clients /\ DOMAIN history' = DOMAIN m_clients'
  BY <1>1 DEF TypeOK
<1>3. /\ m_raw_queue' = Tail(q) /\ conns' = conns /\ q # << >> /\ Chunk.data # << >>
      /\ q \in Seq(DataChunk) /\ conns \in Seq(Connection)
  BY DEF PopData, TypeOK
<1>4. /\ h2.pushed = h.pushed \o Chunk.data /\ h2.from = h.from \cup {Chunk.conn}
      /\ h2.at = h.at
  BY <1>1 DEF History
<1>5. Chunk = q[1] /\ 1 \in 1 .. Len(q)
  BY <1>3, Popped DEF Chunk
<1> HIDE DEF h, h2, q
<1>6. /\ LastIsOpen(conns) /\ InTurn(q, conns) /\ Owned(history, q, conns)
      /\ Stamped(1, q, conns)
  BY <1>5 DEF IsolationInv, q, InTurn
<1>7. ASSUME NEW fd \in DOMAIN history, history[fd].from = {c}
      PROVE  fd = fd0 <=> Chunk.conn = c
  <2>1. PICK e \in 1 .. Len(conns) : OwnedBy(e, fd, history[fd], q, conns)
    BY <1>6 DEF Owned
  <2>2. e = c
    BY <1>7, <2>1 DEF OwnedBy
  <2>3. CASE fd = fd0
    BY <1>3, <1>5, <1>6, <2>1, <2>2, <2>3, PopSame
  <2>4. CASE fd # fd0
    BY <1>3, <1>5, <1>6, <2>1, <2>2, <2>4, PopOther
  <2> QED
    BY <2>3, <2>4
<1>8. ASSUME Unseen(c)' PROVE Unseen(c)
  <2>1. EndsFrom(c, 1, q, conns)
    BY <1>3, <1>8, EndedBefore DEF Unseen
  <2>2. ASSUME NEW fd \in DOMAIN history, history[fd].from = {c} PROVE FALSE
    <3>1. fd \in DOMAIN history'
      BY <1>1, <1>2
    <3>2. CASE fd # fd0
      BY <1>1, <1>2, <1>8, <2>2, <3>1, <3>2 DEF Unseen
    <3>3. CASE fd = fd0
      <4>1. h = history[fd] /\ Chunk.conn = c
        BY <1>2, <1>7, <2>2, <3>3 DEF h, FoundHistory
      <4>2. h2.from = {c}
        BY <1>4, <2>2, <4>1
      <4> QED
        BY <1>1, <1>8, <3>1, <3>3, <4>2 DEF Unseen
    <3> QED
      BY <3>2, <3>3
  <2> QED
    BY <2>1, <2>2 DEF Unseen, q
<1>9. ASSUME NEW fd \in DOMAIN history', history'[fd].from = {c} PROVE Fed(c, fd)
  <2>1. CASE fd # fd0
    <3>1. fd \in DOMAIN history /\ history'[fd] = history[fd]
      BY <1>1, <1>2, <2>1
    <3>2. Chunk.conn # c
      BY <1>7, <1>9, <2>1, <3>1
    <3> QED
      BY <3>1, <3>2 DEF Fed
  <2>2. CASE fd = fd0 /\ fd0 \in DOMAIN history
    <3>1. h = history[fd0]
      BY <1>2, <2>2 DEF h, FoundHistory
    <3>2. PICK e \in 1 .. Len(conns) : OwnedBy(e, fd0, history[fd0], q, conns)
      BY <1>6, <2>2 DEF Owned
    <3>3. Chunk.conn = e /\ h.from = {e}
      BY <1>3, <1>5, <1>6, <2>2, <3>1, <3>2, PopSame DEF OwnedBy
    <3>4. h2.from = {e}
      BY <1>4, <3>3
    <3>5. e = c
      BY <1>1, <1>9, <2>2, <3>4
    <3> QED
      BY <1>1, <1>4, <2>2, <3>1, <3>3, <3>5 DEF Fed
  <2>3. CASE fd = fd0 /\ fd0 \notin DOMAIN history
    <3>1. h.pushed = << >> /\ h.from = {} /\ h.at = 0
      BY <1>2, <2>3 DEF h, FoundHistory, Fresh
    <3>2. << >> \o Chunk.data = Chunk.data
      BY <1>1, ConcatEmptySeq
    <3>3. h2.pushed = Chunk.data /\ h2.from = {Chunk.conn} /\ h2.at = 0
      BY <1>4, <3>1, <3>2
    <3>4. Chunk.conn = c
      BY <1>1, <1>9, <2>3, <3>3
    <3>5. \A g \in DOMAIN history : history[g].from # {c}
      BY <1>7, <2>3, <3>4
    <3>6. EndsFrom(c, 1, q, conns)
      BY <1>5, <1>6, <3>4 DEF Stamped
    <3> QED
      BY <1>1, <2>3, <3>3, <3>4, <3>5, <3>6 DEF Fed, Unseen, q
  <2> QED
    BY <2>1, <2>2, <2>3
<1> QED
  BY <1>8, <1>9

\* A disconnect marker: nothing changes for the other connections, and its own
\* has neither a ClientState nor anything to come.
LEMMA PopMarkerFeeds ==
  ASSUME TypeOK, IsolationInv, PopDisconnect, NEW c \in 1 .. Len(conns)
  PROVE  /\ Unseen(c)' => Unseen(c)
         /\ \A fd \in DOMAIN history' : history'[fd].from = {c} => Fed(c, fd)
<1> DEFINE q == m_raw_queue
           fd0 == Chunk.client_id
<1>1. EraseClient /\ q # << >> /\ Chunk.data = << >>
  BY DEF PopDisconnect
<1>2. /\ DOMAIN m_clients' = DOMAIN m_clients \ {fd0}
      /\ history' \in [DOMAIN m_clients' -> History]
      /\ \A fd \in DOMAIN m_clients' : history'[fd] = history[fd]
  BY <1>1, EraseStep
<1>3. DOMAIN history = DOMAIN m_clients /\ DOMAIN history' = DOMAIN m_clients'
  BY <1>2 DEF TypeOK
<1>4. m_raw_queue' = Tail(q) /\ conns' = conns /\ q \in Seq(DataChunk) /\ conns \in Seq(Connection)
  BY <1>1 DEF EraseClient, TypeOK
<1>5. Chunk = q[1] /\ 1 \in 1 .. Len(q)
  BY <1>1, <1>4, Popped DEF Chunk
<1> HIDE DEF q
<1>6. LastIsOpen(conns) /\ InTurn(q, conns) /\ Owned(history, q, conns)
  BY DEF IsolationInv, q
<1>7. ASSUME NEW fd \in DOMAIN history, history[fd].from = {c}
      PROVE  fd = fd0 <=> Chunk.conn = c
  <2>1. PICK e \in 1 .. Len(conns) : OwnedBy(e, fd, history[fd], q, conns)
    BY <1>6 DEF Owned
  <2>2. e = c
    BY <1>7, <2>1 DEF OwnedBy
  <2>3. CASE fd = fd0
    BY <1>1, <1>4, <1>5, <1>6, <2>1, <2>2, <2>3, PopSame
  <2>4. CASE fd # fd0
    BY <1>1, <1>4, <1>5, <1>6, <2>1, <2>2, <2>4, PopOther
  <2> QED
    BY <2>3, <2>4
<1>8. ASSUME Unseen(c)' PROVE Unseen(c)
  <2>1. EndsFrom(c, 1, Tail(q), conns)
    BY <1>4, <1>8 DEF Unseen
  <2>2. Chunk.conn # c
    BY <1>1, <1>4, <1>5, <1>6, <2>1, MarkerEnds DEF q
  <2>3. EndsFrom(c, 1, q, conns)
    BY <1>1, <1>4, <2>1, EndedBefore DEF q
  <2>4. \A fd \in DOMAIN history : history[fd].from # {c}
    BY <1>2, <1>3, <1>7, <1>8, <2>2 DEF Unseen
  <2> QED
    BY <2>3, <2>4 DEF Unseen, q
<1>9. ASSUME NEW fd \in DOMAIN history', history'[fd].from = {c} PROVE Fed(c, fd)
  <2>1. fd \in DOMAIN history /\ fd # fd0 /\ history'[fd] = history[fd]
    BY <1>2, <1>3
  <2> QED
    BY <1>7, <1>9, <2>1 DEF Fed
<1> QED
  BY <1>8, <1>9

\* The whole stream up to the queue: a pop moves the next chunk over.
LEMMA PopWhole ==
  ASSUME TypeOK, IsolationInv, PopData \/ PopDisconnect, NEW c \in 1 .. Len(conns), Whole(c)
  PROVE  Whole(c)'
<1> DEFINE q == m_raw_queue
           t == conns[c].peer.stream
<1>1. /\ q # << >> /\ q \in Seq(DataChunk) /\ m_raw_queue' = Tail(q) /\ conns' = conns
      /\ conns[c] \in Connection /\ t \in Seq(Byte)
  BY ConnType DEF PopData, PopDisconnect, EraseClient, TypeOK
<1>2. /\ Unseen(c)' => Unseen(c)
      /\ \A fd \in DOMAIN history' : history'[fd].from = {c} => Fed(c, fd)
  BY PopFeeds, PopMarkerFeeds
<1>3. PICK o \in [0 .. Len(q) -> Nat] : Offsets(o, c, q, conns[c]) /\ PushedUpTo(c, o[0])
  BY DEF Whole
<1>4. Chunk = q[1] /\ conns[c].sent \in Nat /\ conns[c].sent <= Len(t)
  BY <1>1, Popped DEF Chunk, IsolationInv, Delivered, Connection
<1>5. PICK o2 \in [0 .. Len(Tail(q)) -> Nat] : Offsets(o2, c, Tail(q), conns[c]) /\ o2[0] = o[1]
  BY <1>1, <1>3, PopOffsets
<1>6. /\ o[0] \in Nat /\ o[1] \in Nat /\ o[1] <= conns[c].sent
      /\ Chunk.conn # c => o[1] = o[0]
      /\ Chunk.conn = c => o[1] = o[0] + Len(Chunk.data) /\ Chunk.data = SubSeq(t, o[0] + 1, o[1])
  <2>1. /\ o[0] \in Nat /\ o[1] \in Nat /\ o[1] <= conns[c].sent
        /\ q[1].conn # c => o[1] = o[0]
        /\ q[1].conn = c => o[1] = o[0] + Len(q[1].data) /\ q[1].data = SubSeq(t, o[0] + 1, o[1])
    BY <1>1, <1>3, PopOffsets
  <2> QED
    BY <1>4, <2>1, Zenon
<1>7. Len(Chunk.data) \in Nat /\ Chunk.data \in Seq(Byte)
  <2>1. Chunk \in DataChunk
    BY <1>1, ChunkType
  <2> QED
    BY <2>1 DEF DataChunk
<1> HIDE DEF q, t
<1>8. PICK x \in Nat, y \in Nat : x = o[0] /\ y = o[1] /\ y <= Len(t) /\ (Chunk.conn = c => x <= y)
  <2>1. PICK x \in Nat, y \in Nat, s \in Nat : x = o[0] /\ y = o[1] /\ s = conns[c].sent
    BY <1>4, <1>6, Zenon
  <2>2. y <= s /\ s <= Len(t) /\ (Chunk.conn = c => y = x + Len(Chunk.data))
    BY <1>4, <1>6, <2>1, Zenon
  <2>3. Len(t) \in Nat
    BY <1>1
  <2>4. y <= Len(t) /\ (Chunk.conn = c => x <= y)
    BY <1>7, <2>2, <2>3
  <2> QED
    BY <2>1, <2>4, Zenon
<1>9. ASSUME Chunk.conn = c PROVE SubSeq(t, 1, x) \o Chunk.data = SubSeq(t, 1, y)
  <2>1. SubSeq(t, 0 + 1, x) \o SubSeq(t, x + 1, y) = SubSeq(t, 0 + 1, y)
    <3>1. 0 \in Nat /\ 0 <= x /\ x \in Nat /\ y \in Nat
      OBVIOUS
    <3>2. x <= y /\ y <= Len(t) /\ t \in Seq(Byte)
      BY <1>1, <1>8, <1>9, Zenon
    <3> QED
      BY <3>1, <3>2, PiecesJoin, Zenon
  <2>2. 0 + 1 = 1
    OBVIOUS
  <2> QED
    BY <1>6, <1>8, <1>9, <2>1, <2>2, Zenon
<1>10. ASSUME NEW fd \in DOMAIN history', history'[fd].from = {c}
       PROVE  history'[fd].pushed = SubSeq(t, 1, y)
  <2>1. Fed(c, fd)
    BY <1>2, <1>10
  <2>2. CASE Chunk.conn # c /\ fd \in DOMAIN history /\ history'[fd] = history[fd]
    BY <1>3, <1>6, <1>8, <1>10, <2>2 DEF PushedUpTo, t
  <2>3. CASE /\ Chunk.conn = c /\ fd \in DOMAIN history /\ history[fd].from = {c}
             /\ history'[fd].pushed = history[fd].pushed \o Chunk.data
    BY <1>3, <1>8, <1>9, <2>3 DEF PushedUpTo, t
  <2>4. CASE Chunk.conn = c /\ Unseen(c) /\ history'[fd].pushed = Chunk.data
    <3>1. x = 0
      BY <1>3, <1>8, <2>4 DEF PushedUpTo
    <3>2. 0 + 1 = 1
      OBVIOUS
    <3> QED
      BY <1>6, <1>8, <2>4, <3>1, <3>2, Zenon
  <2> QED
    BY <2>1, <2>2, <2>3, <2>4 DEF Fed
<1>11. ASSUME Unseen(c)' PROVE y = 0
  <2>1. Unseen(c) /\ x = 0
    BY <1>2, <1>3, <1>8, <1>11 DEF PushedUpTo
  <2>2. Chunk.conn # c
    <3>1. PopData => \A fd \in DOMAIN history' : history'[fd].from # {c}
      BY <1>11 DEF Unseen
    <3>2. CASE PopData /\ Chunk.conn = c
      <4>1. /\ FoundHistory \in History /\ Chunk.client_id \in DOMAIN m_clients'
            /\ history' \in [DOMAIN m_clients' -> History]
            /\ history'[Chunk.client_id] =
                 [FoundHistory EXCEPT !.pushed = @ \o Chunk.data, !.from = @ \cup {Chunk.conn}]
        BY <3>2, PopDataStep
      <4>2. history'[Chunk.client_id].from = FoundHistory.from \cup {c}
        BY <3>2, <4>1 DEF History
      <4>3. FoundHistory.from = {}
        <5>1. CASE Chunk.client_id \in DOMAIN history
          <6>1. PICK e \in 1 .. Len(conns) :
                  OwnedBy(e, Chunk.client_id, history[Chunk.client_id], q, conns)
            BY <5>1 DEF IsolationInv, Owned, q
          <6>2. e = c
            BY <1>1, <1>4, <3>2, <6>1, PopSame DEF IsolationInv, q, TypeOK
          <6> QED
            BY <2>1, <5>1, <6>1, <6>2 DEF Unseen, OwnedBy
        <5>2. CASE Chunk.client_id \notin DOMAIN history
          BY <5>2 DEF FoundHistory, Fresh, TypeOK
        <5> QED
          BY <5>1, <5>2
      <4> QED
        BY <3>1, <3>2, <4>1, <4>2, <4>3
    <3>3. CASE PopDisconnect /\ Chunk.conn = c
      BY <1>1, <1>4, <1>11, <3>3, MarkerEnds DEF IsolationInv, Unseen, PopDisconnect, q
    <3> QED
      BY <3>2, <3>3
  <2> QED
    BY <1>6, <1>8, <2>1, <2>2
<1>12. PushedUpTo(c, y)'
  BY <1>1, <1>10, <1>11 DEF PushedUpTo, t
<1> QED
  BY <1>1, <1>5, <1>8, <1>12 DEF Whole, q

\* A chunk that is sent waits behind the others.
LEMMA SendUnseen ==
  ASSUME TypeOK, NEW c \in 1 .. Len(conns), NEW d \in DataChunk, SentBy(c, d),
         NEW e \in 1 .. Len(conns), Unseen(e)'
  PROVE  Unseen(e)
<1>1. m_raw_queue \in Seq(DataChunk) /\ history' = history
  BY DEF TypeOK, SentBy
<1>2. /\ Len(m_raw_queue) \in Nat /\ Len(m_raw_queue') = Len(m_raw_queue) + 1
      /\ \A i \in 1 .. Len(m_raw_queue) : m_raw_queue'[i] = m_raw_queue[i]
      /\ m_raw_queue'[Len(m_raw_queue) + 1] = d
  BY <1>1, Appended DEF SentBy
<1>3. EndsFrom(e, 1, m_raw_queue, conns)
  <2>1. EndsFrom(e, 1, m_raw_queue', conns')
    BY DEF Unseen
  <2>2. CASE e = c
    BY <2>2 DEF SentBy, Sends, EndsFrom
  <2>3. CASE e # c
    <3>1. conns'[e] = conns[e] /\ d.conn # e
      BY <2>3 DEF SentBy, Sends
    <3> QED
      BY <1>2, <2>1, <3>1 DEF EndsFrom
  <2> QED
    BY <2>2, <2>3
<1> QED
  BY <1>1, <1>3 DEF Unseen

LEMMA SendWhole ==
  ASSUME TypeOK, NEW c \in 1 .. Len(conns), NEW d \in DataChunk, SentBy(c, d),
         NEW e \in 1 .. Len(conns), Whole(e)
  PROVE  Whole(e)'
<1>1. /\ m_raw_queue \in Seq(DataChunk) /\ conns[e] \in Connection
      /\ m_raw_queue' = Append(m_raw_queue, d) /\ history' = history
      /\ conns'[e] \in Connection /\ SendsNow(e, d, conns[e], conns'[e])
  BY ConnType DEF TypeOK, SentBy, Sends
<1>2. PICK o \in [0 .. Len(m_raw_queue) -> Nat] :
        Offsets(o, e, m_raw_queue, conns[e]) /\ PushedUpTo(e, o[0])
  BY DEF Whole
<1>3. PICK o2 \in [0 .. Len(m_raw_queue') -> Nat] :
        Offsets(o2, e, m_raw_queue', conns'[e]) /\ o2[0] = o[0]
  BY <1>1, <1>2, SendsOffsets
<1>4. PushedUpTo(e, o2[0])'
  BY <1>1, <1>2, <1>3, SendUnseen DEF PushedUpTo, SendsNow
<1> QED
  BY <1>3, <1>4 DEF Whole

\* A connection that is accepted has sent nothing; for the others nothing changes.
LEMMA AcceptWhole ==
  ASSUME TypeOK, IsolationInv, NEW fd0 \in Fd, NEW peer \in Peers, Accept(fd0, peer)
  PROVE  /\ Len(conns) \in Nat /\ Len(conns') = Len(conns) + 1
         /\ \A c \in 1 .. Len(conns) :
              conns'[c] = conns[c] /\ (Unseen(c)' <=> Unseen(c)) /\ (Whole(c) => Whole(c)')
         /\ \A fd \in DOMAIN history : history[fd].from # {Len(conns) + 1}
         /\ \A c : c = Len(conns) + 1 => Whole(c)'
<1> DEFINE k == [fd |-> fd0, peer |-> peer, sent |-> 0, open |-> TRUE]
           new == Len(conns) + 1
<1>1. k \in Connection /\ k.sent = 0
  BY DEF Connection
<1>2. conns' = Append(conns, k) /\ m_raw_queue' = m_raw_queue /\ history' = history
  BY DEF Accept, parserVars
<1> HIDE DEF k
<1>3. /\ Len(conns) \in Nat /\ Len(conns') = new
      /\ \A c \in 1 .. Len(conns) : conns'[c] = conns[c]
      /\ conns'[new] = k
  BY <1>1, <1>2, Appended DEF TypeOK
<1>4. ASSUME NEW fd \in DOMAIN history PROVE history[fd].from # {new}
  <2>1. PICK c \in 1 .. Len(conns) : OwnedBy(c, fd, history[fd], m_raw_queue, conns)
    BY DEF IsolationInv, Owned
  <2>2. c # new
    BY <1>3
  <2> QED
    BY <2>1, <2>2 DEF OwnedBy
<1>5. ASSUME NEW c \in 1 .. Len(conns)
      PROVE  (Unseen(c)' <=> Unseen(c)) /\ (Whole(c) => Whole(c)')
  BY <1>2, <1>3 DEF Whole, PushedUpTo, Unseen, EndsFrom
<1>6. ASSUME NEW c, c = new PROVE Whole(c)'
  <2>1. m_raw_queue \in Seq(DataChunk) /\ Len(m_raw_queue) \in Nat
    BY DEF TypeOK
  <2>2. PICK o \in [0 .. Len(m_raw_queue) -> Nat] : \A i \in 0 .. Len(m_raw_queue) : o[i] = 0
    <3> DEFINE o == [i \in 0 .. Len(m_raw_queue) |-> 0]
    <3>1. o \in [0 .. Len(m_raw_queue) -> Nat] /\ \A i \in 0 .. Len(m_raw_queue) : o[i] = 0
      OBVIOUS
    <3> QED
      BY <3>1
  <2>3. \A i \in 1 .. Len(m_raw_queue) : m_raw_queue[i].conn # c
    BY <1>3, <1>6 DEF IsolationInv, InTurn, Stamped
  <2>4. Offsets(o, c, m_raw_queue, k)
    BY <1>1, <2>1, <2>2, <2>3 DEF Offsets
  <2>5. o[0] = 0
    BY <2>1, <2>2
  <2>6. PushedUpTo(c, o[0])'
    BY <1>2, <1>4, <1>6, <2>5 DEF PushedUpTo
  <2> QED
    BY <1>2, <1>3, <1>6, <2>1, <2>4, <2>6 DEF Whole
<1> QED
  BY <1>3, <1>4, <1>5, <1>6

-----------------------------------------------------------------------------
(* Counting the records of a connection.                                   *)

LEMMA ShareFacts ==
  ASSUME NEW owner, NEW c, NEW n \in Nat
  PROVE  /\ Share(owner, c, n) \in Nat /\ Share(owner, c, 0) = 0
         /\ owner[n + 1] = c => Share(owner, c, n + 1) = Share(owner, c, n) + 1
         /\ owner[n + 1] # c => Share(owner, c, n + 1) = Share(owner, c, n)
<1> DEFINE S(k) == {i \in 1 .. k : owner[i] = c}
<1>1. ASSUME NEW k \in Nat PROVE IsFiniteSet(S(k)) /\ Cardinality(S(k)) \in Nat
  <2>1. IsFiniteSet(1 .. k)
    BY FS_Interval
  <2>2. IsFiniteSet(S(k))
    BY <2>1, FS_Subset
  <2> QED
    BY <2>2, FS_CardinalityType
<1>2. S(0) = {} /\ Cardinality({}) = 0
  BY FS_EmptySet
<1>3. CASE owner[n + 1] = c
  <2>1. S(n + 1) = S(n) \cup {n + 1} /\ n + 1 \notin S(n)
    BY <1>3
  <2>2. Cardinality(S(n) \cup {n + 1}) = Cardinality(S(n)) + 1
    <3> HIDE DEF S
    <3> QED
      BY <1>1, <2>1, FS_AddElement
  <2> QED
    BY <1>1, <1>2, <1>3, <2>1, <2>2 DEF Share
<1>4. CASE owner[n + 1] # c
  <2>1. S(n + 1) = S(n)
    BY <1>4
  <2>2. Cardinality(S(n)) \in Nat /\ Cardinality(S(0)) = 0
    BY <1>1, <1>2
  <2> HIDE DEF S
  <2> QED
    BY <1>4, <2>1, <2>2 DEF Share, S
<1> QED
  BY <1>3, <1>4

LEMMA ShareNone ==
  ASSUME NEW owner, NEW c, NEW n \in Nat, \A i \in 1 .. n : owner[i] # c
  PROVE  Share(owner, c, n) = 0
<1>1. {i \in 1 .. n : owner[i] = c} = {}
  OBVIOUS
<1> QED
  BY <1>1, FS_EmptySet DEF Share

-----------------------------------------------------------------------------
(* What the bytes in the ring say about the whole stream.                  *)

LEMMA ReaderType ==
  ASSUME TypeOK, NEW c \in 1 .. Len(conns), NEW p \in 0 .. Len(conns[c].peer.stream)
  PROVE  Reader(c)[p] \in Seq(Telemetry)
<1> DEFINE s == conns[c].peer.stream
<1>1. s \in Seq(Byte)
  BY ConnType
<1> HIDE DEF s
<1>2. ASSUME NEW i \in Starts(s) PROVE Readings(s)[i] \in Seq(Telemetry)
  <2>1. Readings(s)[i] = deserialize_payload(PayloadAt(s, i, LengthAt(s, i)))
    BY DEF Readings
  <2>2. i \in Nat /\ PacketAt(s, i)
    BY DEF Starts
  <2>3. /\ i + PacketSize(LengthAt(s, i)) <= Len(s) /\ LengthAt(s, i) \in Nat
    <3>1. i + 2 \in Nat /\ (i + 2) + 2 <= Len(s) /\ i + PacketSize(LengthAt(s, i)) <= Len(s)
      BY <1>1, <2>2 DEF PacketAt, HEADER_SIZE, LENGTH_SIZE
    <3>2. Uint16At(s, i + 2) \in Uint16
      BY <1>1, <3>1, Uint16Range, Zenon
    <3>3. Uint16 \subseteq Nat
      BY DEF Uint16
    <3> QED
      BY <3>1, <3>2, <3>3, Zenon DEF LengthAt, HEADER_SIZE
  <2>4. PICK n \in Nat : n = LengthAt(s, i) /\ i + 4 + n <= Len(s)
    <3>1. PICK n \in Nat : n = LengthAt(s, i) /\ i + PacketSize(n) <= Len(s) /\ PacketSize(n) = n + 6
      BY <2>3, PacketSizeNat, Zenon
    <3>2. i + 4 + n <= Len(s)
      BY <1>1, <2>2, <3>1
    <3> QED
      BY <3>1, <3>2
  <2>5. SubSeq(s, i + 2 + 2 + 1, i + 2 + 2 + n) \in Seq(Byte)
    BY <1>1, <2>2, <2>4
  <2>6. PayloadAt(s, i, n) \in Seq(Byte)
    BY <2>5, Zenon DEF PayloadAt, HEADER_SIZE, LENGTH_SIZE
  <2> QED
    BY <2>1, <2>4, <2>6, DeserializeType, Zenon
<1>3. \A i \in 0 .. Len(s) : Collected(s, Readings(s))[i] \in Seq(Telemetry)
  BY <1>1, <1>2, CollectedType
<1> QED
  BY <1>3 DEF Reader, s

\* A ClientState has seen the beginning of the stream.
LEMMA SeenPrefix ==
  ASSUME TypeOK, IsolationInv, NEW c \in 1 .. Len(conns), Whole(c),
         NEW fd \in DOMAIN history, history[fd].from = {c}
  PROVE  \E n \in 0 .. Len(conns[c].peer.stream) :
           history[fd].pushed = SubSeq(conns[c].peer.stream, 1, n)
<1>1. PICK o \in [0 .. Len(m_raw_queue) -> Nat] :
        Offsets(o, c, m_raw_queue, conns[c]) /\ PushedUpTo(c, o[0])
  BY DEF Whole
<1>2. /\ conns[c].sent \in Nat /\ conns[c].peer.stream \in Seq(Byte) /\ Len(m_raw_queue) \in Nat
      /\ conns[c].sent <= Len(conns[c].peer.stream)
  BY ConnType DEF TypeOK, IsolationInv, Delivered
<1>3. o[0] \in Nat /\ o[0] <= conns[c].sent
  BY <1>1, <1>2 DEF Offsets
<1>4. PICK x \in Nat, y \in Nat, L \in Nat :
        x = o[0] /\ y = conns[c].sent /\ L = Len(conns[c].peer.stream)
  BY <1>2, <1>3
<1>5. x \in 0 .. L
  <2>1. x <= y /\ y <= L
    BY <1>2, <1>3, <1>4, Zenon
  <2> QED
    BY <2>1
<1> QED
  BY <1>1, <1>4, <1>5 DEF PushedUpTo

LEMMA PrefixVerdicts ==
  ASSUME NEW s \in Seq(Byte), NEW n \in 0 .. Len(s), NEW p \in Nat
  PROVE  /\ SubSeq(s, 1, n) \in Seq(Byte) /\ Len(SubSeq(s, 1, n)) = n
         /\ NoPacketAt(SubSeq(s, 1, n), p) => NoPacketAt(s, p)
         /\ PacketAt(SubSeq(s, 1, n), p) =>
              PacketAt(s, p) /\ LengthAt(s, p) = LengthAt(SubSeq(s, 1, n), p)
<1> DEFINE u == SubSeq(s, 1, n)
           v == SubSeq(s, n + 1, Len(s))
<1>1. u \in Seq(Byte) /\ v \in Seq(Byte) /\ Len(u) = n /\ SubSeq(s, 1, Len(s)) = s
  OBVIOUS
<1>2. u \o v = s
  <2>1. 0 \in Nat /\ n \in Nat /\ Len(s) \in Nat /\ 0 <= n /\ n <= Len(s) /\ Len(s) <= Len(s) /\ 0 + 1 = 1
    OBVIOUS
  <2>2. SubSeq(s, 0 + 1, n) \o SubSeq(s, n + 1, Len(s)) = SubSeq(s, 0 + 1, Len(s))
    BY <2>1, PiecesJoin, Zenon
  <2> QED
    BY <1>1, <2>1, <2>2, Zenon
<1> HIDE DEF u, v
<1>3. /\ NoPacketAt(u, p) => NoPacketAt(u \o v, p)
      /\ PacketAt(u, p) => PacketAt(u \o v, p) /\ LengthAt(u \o v, p) = LengthAt(u, p)
  BY <1>1, VerdictsStand, Zenon
<1> QED
  BY <1>1, <1>2, <1>3, Zenon DEF u

LEMMA PrefixPayload ==
  ASSUME NEW s \in Seq(Byte), NEW n \in 0 .. Len(s), NEW a \in 0 .. n,
         NEW len \in Nat, a + 4 + len <= n
  PROVE  PayloadAt(SubSeq(SubSeq(s, 1, n), a + 1, n), 0, len) = PayloadAt(s, a, len)
<1> DEFINE u == SubSeq(s, 1, n)
           r == SubSeq(u, a + 1, n)
<1>1. u \in Seq(Byte) /\ Len(u) = n /\ \A i \in 1 .. n : u[i] = s[i]
  OBVIOUS
<1> HIDE DEF u
<1>2. r \in Seq(Byte) /\ Len(r) = n - a /\ \A i \in 1 .. n - a : r[i] = u[a + i]
  BY <1>1
<1> HIDE DEF r
<1>3. ASSUME NEW i \in 5 .. 4 + len PROVE r[i] = s[a + i]
  BY <1>1, <1>2
<1>4. SubSeq(r, 5, 4 + len) = [i \in 1 .. len |-> r[4 + i]]
  BY <1>2
<1>5. SubSeq(s, a + 5, a + 4 + len) = [i \in 1 .. len |-> s[a + 4 + i]]
  OBVIOUS
<1>6. ASSUME NEW i \in 1 .. len PROVE r[4 + i] = s[a + 4 + i]
  <2>1. 4 + i \in 5 .. 4 + len /\ a + (4 + i) = a + 4 + i
    OBVIOUS
  <2> QED
    BY <1>3, <2>1
<1>7. SubSeq(r, 5, 4 + len) = SubSeq(s, a + 5, a + 4 + len)
  BY <1>4, <1>5, <1>6
<1>8. /\ 0 + 2 + 2 + 1 = 5 /\ 0 + 2 + 2 + len = 4 + len
      /\ a + 2 + 2 + 1 = a + 5 /\ a + 2 + 2 + len = a + 4 + len
  OBVIOUS
<1> QED
  BY <1>7, <1>8 DEF PayloadAt, HEADER_SIZE, LENGTH_SIZE, r, u

\* The client that process_client works on, and its connection.
LEMMA Working ==
  ASSUME TypeOK, ClientsInv, IsolationInv, pc = "process",
         NEW c \in 1 .. Len(conns), Whole(c), history[client].from = {c}
  PROVE  LET s == conns[c].peer.stream
             h == history[client]
         IN /\ s \in Seq(Byte) /\ h.at \in Nat /\ client \in DOMAIN history
            /\ \E n \in 0 .. Len(s) :
                 /\ h.at \in 0 .. n /\ h.pushed = SubSeq(s, 1, n)
                 /\ RestOf(Ring, h.pushed, h.at)
                 /\ Ring = SubSeq(SubSeq(s, 1, n), h.at + 1, n)
<1> DEFINE s == conns[c].peer.stream
           h == history[client]
<1>1. s \in Seq(Byte) /\ Len(s) \in Nat
  BY ConnType
<1>2. /\ client \in DOMAIN m_clients /\ m_clients[client] \in ClientState /\ h \in History
      /\ HoldsRest(m_clients[client], h)
  BY Front DEF ClientInv
<1>3. client \in DOMAIN history
  BY <1>2 DEF TypeOK
<1>4. PICK n \in 0 .. Len(s) : h.pushed = SubSeq(s, 1, n)
  BY <1>3, SeenPrefix
<1>5. RestOf(Ring, h.pushed, h.at)
  BY <1>2, RingRest DEF Ring
<1>6. h.at \in Nat /\ h.at <= Len(h.pushed) /\ Ring = SubSeq(h.pushed, h.at + 1, Len(h.pushed))
  BY <1>2 DEF HoldsRest, History, Ring
<1> HIDE DEF s, h
<1>7. Len(h.pushed) = n
  BY <1>1, <1>4
<1>8. h.at \in 0 .. n
  BY <1>6, <1>7
<1> QED
  BY <1>1, <1>3, <1>4, <1>5, <1>6, <1>7, <1>8 DEF s, h

LEMMA ResyncReads ==
  ASSUME TypeOK, ClientsInv, IsolationInv, pc = "process",
         NEW c \in 1 .. Len(conns), Whole(c), history[client].from = {c}, NoPacketAt(Ring, 0)
  PROVE  Reader(c)[history[client].at + 1] = Reader(c)[history[client].at]
<1> DEFINE s == conns[c].peer.stream
           h == history[client]
           a == h.at
<1>1. s \in Seq(Byte) /\ a \in Nat
  BY Working, Zenon
<1>2. PICK n \in 0 .. Len(s) :
        a \in 0 .. n /\ h.pushed = SubSeq(s, 1, n) /\ RestOf(Ring, h.pushed, a)
  BY Working, Zenon
<1> HIDE DEF s, h, a
<1>3. NoPacketAt(h.pushed, a)
  BY <1>1, <1>2, FrontVerdict
<1>4. NoPacketAt(s, a)
  BY <1>1, <1>2, <1>3, PrefixVerdicts
<1>5. ~PacketAt(s, a)
  BY <1>1, <1>4, ReaderMoves
<1>6. a \in 0 .. Len(s)
  BY <1>1, <1>2
<1>7. Collected(s, Readings(s))[a] = Collected(s, Readings(s))[a + 1]
  BY <1>1, <1>4, <1>5, <1>6, CollectedReads DEF Found
<1> QED
  BY <1>7 DEF Reader, s, h, a

LEMMA TakeReads ==
  ASSUME TypeOK, ClientsInv, IsolationInv, pc = "process",
         NEW c \in 1 .. Len(conns), Whole(c), history[client].from = {c},
         PacketAt(Ring, 0), payload_length = LengthAt(Ring, 0)
  PROVE  LET a == history[client].at
             next == a + PacketSize(payload_length)
         IN /\ next \in 0 .. Len(conns[c].peer.stream)
            /\ Reader(c)[a] = deserialize_payload(PayloadAt(Ring, 0, payload_length)) \o Reader(c)[next]
<1> DEFINE s == conns[c].peer.stream
           h == history[client]
           a == h.at
<1>1. s \in Seq(Byte) /\ a \in Nat
  BY Working, Zenon
<1>2. PICK n \in 0 .. Len(s) :
        /\ a \in 0 .. n /\ h.pushed = SubSeq(s, 1, n) /\ RestOf(Ring, h.pushed, a)
        /\ Ring = SubSeq(SubSeq(s, 1, n), a + 1, n)
  BY Working, Zenon
<1> HIDE DEF s, h, a
<1>3. PICK len \in Nat :
        len = payload_length /\ PacketAt(h.pushed, a) /\ LengthAt(h.pushed, a) = len
  <2>1. RestOf(Ring, h.pushed, a)
    BY <1>2
  <2>2. /\ PacketAt(h.pushed, a) /\ LengthAt(h.pushed, a) = LengthAt(Ring, 0)
        /\ LengthAt(Ring, 0) \in Nat
    BY <1>1, <2>1, FrontVerdict, Zenon
  <2> QED
    BY <2>2, Zenon
<1>4. PacketAt(h.pushed, a) /\ LengthAt(h.pushed, a) = len
  BY <1>3
<1>5. PacketAt(s, a) /\ LengthAt(s, a) = len
  BY <1>1, <1>2, <1>4, PrefixVerdicts
<1>6. a + 4 + len <= n
  <2>1. Len(h.pushed) = n
    BY <1>1, <1>2, PrefixVerdicts
  <2>2. a + PacketSize(len) <= n
    BY <1>4, <2>1 DEF PacketAt
  <2> QED
    BY <1>1, <1>2, <2>2, PacketSizeNat
<1>7. PayloadAt(Ring, 0, len) = PayloadAt(s, a, len)
  BY <1>1, <1>2, <1>6, PrefixPayload
<1>8. a \in 0 .. Len(s) /\ a + PacketSize(len) \in 0 .. Len(s)
  <2>1. a + PacketSize(len) \in a + 1 .. Len(s)
    BY <1>1, <1>5, ReaderMoves
  <2> QED
    BY <1>1, <1>2, <2>1
<1>9. Readings(s)[a] = deserialize_payload(PayloadAt(s, a, len))
  BY <1>5, <1>8, Zenon DEF Readings, Starts
<1>10. Collected(s, Readings(s))[a] =
         deserialize_payload(PayloadAt(Ring, 0, len)) \o Collected(s, Readings(s))[a + PacketSize(len)]
  BY <1>1, <1>5, <1>7, <1>8, <1>9, CollectedReads, Zenon DEF Found
<1> QED
  BY <1>3, <1>8, <1>10, Zenon DEF Reader, s, h, a

-----------------------------------------------------------------------------
(* The records that have been delivered.                                   *)

LEMMA NextOfRest ==
  ASSUME NEW V, NEW all \in Seq(V), NEW k \in Nat, k <= Len(all), NEW x \in V, NEW rest \in Seq(V),
         SubSeq(all, k + 1, Len(all)) = <<x>> \o rest
  PROVE  k + 1 <= Len(all) /\ all[k + 1] = x /\ rest = SubSeq(all, (k + 1) + 1, Len(all))
<1> DEFINE u == SubSeq(all, k + 1, Len(all))
           v == SubSeq(all, (k + 1) + 1, Len(all))
           w == <<x>> \o rest
<1>1. u \in Seq(V) /\ Len(u) = Len(all) - k /\ \A i \in 1 .. Len(all) - k : u[i] = all[k + i]
  OBVIOUS
<1>2. w \in Seq(V) /\ Len(w) = Len(rest) + 1 /\ w[1] = x /\ \A i \in 1 .. Len(rest) : w[i + 1] = rest[i]
  OBVIOUS
<1>3. u = w
  OBVIOUS
<1> HIDE DEF u, w
<1>4. Len(all) \in Nat /\ Len(rest) \in Nat /\ Len(all) - k = Len(rest) + 1
  BY <1>1, <1>2, <1>3
<1>5. k + 1 <= Len(all) /\ all[k + 1] = x
  <2>1. 1 \in 1 .. Len(all) - k
    BY <1>4
  <2>2. u[1] = all[k + 1]
    BY <1>1, <2>1
  <2> QED
    BY <1>2, <1>3, <1>4, <2>2
<1>6. v \in Seq(V) /\ Len(v) = Len(rest) /\ \A i \in 1 .. Len(rest) : v[i] = all[(k + 1) + i]
  BY <1>4
<1> HIDE DEF v
<1>7. ASSUME NEW i \in 1 .. Len(rest) PROVE v[i] = rest[i]
  <2>1. i + 1 \in 1 .. Len(all) - k /\ k + (i + 1) = (k + 1) + i
    BY <1>4
  <2>2. u[i + 1] = all[k + (i + 1)] /\ w[i + 1] = rest[i] /\ v[i] = all[(k + 1) + i]
    BY <1>1, <1>2, <1>6, <2>1
  <2> QED
    BY <1>3, <2>1, <2>2
<1>8. v = rest
  BY <1>6, <1>7, SeqEqual
<1> QED
  BY <1>5, <1>8 DEF v

\* Nothing was delivered of connection c, and its ClientState is as far as it
\* was, or is new.
LEMMA ReadKept ==
  ASSUME TypeOK, NEW c \in 1 .. Len(conns), NEW k \in Nat, ReadUpTo(c, k),
         conns'[c].peer = conns[c].peer, Unseen(c)' => Unseen(c),
         \A fd \in DOMAIN history' :
           history'[fd].from = {c} =>
             \/ /\ fd \in DOMAIN history /\ history[fd].from = {c}
                /\ history'[fd].at = history[fd].at
             \/ Unseen(c) /\ history'[fd].at = 0
  PROVE  ReadUpTo(c, k)'
<1>1. PICK R : R = Reader(c) /\ R[0] \in Seq(Telemetry)
  <2>1. 0 \in 0 .. Len(conns[c].peer.stream)
    BY ConnType
  <2> QED
    BY <2>1, ReaderType
<1>2. Reader(c)' = R
  BY <1>1 DEF Reader
<1>3. ASSUME NEW fd \in DOMAIN history', history'[fd].from = {c}
      PROVE  k <= Len(R[0]) /\ R[history'[fd].at] = SubSeq(R[0], k + 1, Len(R[0]))
  <2>1. CASE fd \in DOMAIN history /\ history[fd].from = {c} /\ history'[fd].at = history[fd].at
    BY <1>1, <2>1 DEF ReadUpTo
  <2>2. CASE Unseen(c) /\ history'[fd].at = 0
    <3>1. k = 0
      BY <2>2 DEF ReadUpTo
    <3>2. R[0] = SubSeq(R[0], 0 + 1, Len(R[0])) /\ 0 <= Len(R[0])
      BY <1>1
    <3> QED
      BY <2>2, <3>1, <3>2, Zenon
  <2> QED
    BY <1>3, <2>1, <2>2
<1>4. Unseen(c)' => k = 0
  BY DEF ReadUpTo
<1> QED
  BY <1>2, <1>3, <1>4 DEF ReadUpTo

LEMMA OwnerType ==
  ASSUME TypeOK, NEW owner \in [1 .. Len(m_parsed_queue) -> 1 .. Len(conns)]
  PROVE  /\ m_parsed_queue \in Seq(Telemetry) /\ Len(m_parsed_queue) \in Nat
         /\ \A c, n : n \in 0 .. Len(m_parsed_queue) => Share(owner, c, n) \in Nat
<1>1. m_parsed_queue \in Seq(Telemetry) /\ Len(m_parsed_queue) \in Nat
  BY DEF TypeOK
<1> QED
  BY <1>1, ShareFacts

\* Steps that deliver nothing.
LEMMA AttributedKept ==
  ASSUME TypeOK, NEW owner \in [1 .. Len(m_parsed_queue) -> 1 .. Len(conns)], Attributed(owner),
         m_parsed_queue' = m_parsed_queue,
         Len(conns') = Len(conns), \A c \in 1 .. Len(conns) : conns'[c].peer = conns[c].peer,
         \A c \in 1 .. Len(conns), k \in Nat : ReadUpTo(c, k) => ReadUpTo(c, k)'
  PROVE  \E o2 \in [1 .. Len(m_parsed_queue') -> 1 .. Len(conns')] : Attributed(o2)'
<1>1. Len(m_parsed_queue) \in Nat /\ \A c : Share(owner, c, Len(m_parsed_queue)) \in Nat
  BY OwnerType
<1>2. InSentOrder(owner)'
  BY DEF Attributed, InSentOrder
<1>3. ASSUME NEW c \in 1 .. Len(conns)
      PROVE  ReadUpTo(c, Share(owner, c, Len(m_parsed_queue)))'
  <2>1. PICK k \in Nat : k = Share(owner, c, Len(m_parsed_queue)) /\ ReadUpTo(c, k)
    BY <1>1 DEF Attributed
  <2>2. ReadUpTo(c, k)'
    BY <2>1
  <2>3. k = Share(owner, c, Len(m_parsed_queue'))
    BY <2>1
  <2> QED
    BY <2>2, <2>3
<1>4. Attributed(owner)'
  BY <1>2, <1>3 DEF Attributed
<1> QED
  BY <1>4

LEMMA PopAttributed ==
  ASSUME TypeOK, IsolationInv, PopData \/ PopDisconnect,
         NEW owner \in [1 .. Len(m_parsed_queue) -> 1 .. Len(conns)], Attributed(owner)
  PROVE  \E o2 \in [1 .. Len(m_parsed_queue') -> 1 .. Len(conns')] : Attributed(o2)'
<1>1. m_parsed_queue' = m_parsed_queue /\ conns' = conns
  BY DEF PopData, PopDisconnect, EraseClient
<1>2. ASSUME NEW c \in 1 .. Len(conns), NEW k \in Nat, ReadUpTo(c, k) PROVE ReadUpTo(c, k)'
  <2>1. /\ Unseen(c)' => Unseen(c)
        /\ \A fd \in DOMAIN history' : history'[fd].from = {c} => Fed(c, fd)
    BY PopFeeds, PopMarkerFeeds
  <2>2. ASSUME NEW fd \in DOMAIN history', history'[fd].from = {c}
        PROVE  \/ /\ fd \in DOMAIN history /\ history[fd].from = {c}
                  /\ history'[fd].at = history[fd].at
               \/ Unseen(c) /\ history'[fd].at = 0
    BY <2>1, <2>2 DEF Fed
  <2> QED
    BY <1>1, <1>2, <2>1, <2>2, ReadKept
<1> QED
  BY <1>1, <1>2, AttributedKept

LEMMA SendAttributed ==
  ASSUME TypeOK, NEW c \in 1 .. Len(conns), NEW d \in DataChunk, SentBy(c, d),
         m_parsed_queue' = m_parsed_queue,
         NEW owner \in [1 .. Len(m_parsed_queue) -> 1 .. Len(conns)], Attributed(owner)
  PROVE  \E o2 \in [1 .. Len(m_parsed_queue') -> 1 .. Len(conns')] : Attributed(o2)'
<1>1. /\ Len(conns') = Len(conns) /\ history' = history
      /\ \A e \in 1 .. Len(conns) : conns'[e].peer = conns[e].peer
  BY DEF SentBy, Sends
<1>2. ASSUME NEW e \in 1 .. Len(conns), NEW k \in Nat, ReadUpTo(e, k) PROVE ReadUpTo(e, k)'
  BY <1>1, <1>2, SendUnseen, ReadKept
<1> QED
  BY <1>1, <1>2, AttributedKept

LEMMA AcceptAttributed ==
  ASSUME TypeOK, IsolationInv, NEW fd0 \in Fd, NEW peer \in Peers, Accept(fd0, peer),
         NEW owner \in [1 .. Len(m_parsed_queue) -> 1 .. Len(conns)], Attributed(owner)
  PROVE  \E o2 \in [1 .. Len(m_parsed_queue') -> 1 .. Len(conns')] : Attributed(o2)'
<1>1. m_parsed_queue' = m_parsed_queue /\ history' = history
  BY DEF Accept, parserVars
<1>2. /\ Len(conns) \in Nat /\ Len(conns') = Len(conns) + 1
      /\ \A c \in 1 .. Len(conns) : conns'[c] = conns[c] /\ (Unseen(c)' <=> Unseen(c))
      /\ \A fd \in DOMAIN history : history[fd].from # {Len(conns) + 1}
  BY AcceptWhole
<1>3. Len(m_parsed_queue) \in Nat /\ \A c : Share(owner, c, Len(m_parsed_queue)) \in Nat
  BY OwnerType
<1>4. InSentOrder(owner)'
  BY <1>1, <1>2 DEF Attributed, InSentOrder
<1>5. ASSUME NEW c \in 1 .. Len(conns) + 1
      PROVE  ReadUpTo(c, Share(owner, c, Len(m_parsed_queue)))'
  <2>1. PICK k \in Nat : k = Share(owner, c, Len(m_parsed_queue))
    BY <1>3
  <2>2. CASE c \in 1 .. Len(conns)
    <3>1. ReadUpTo(c, k)
      BY <2>1, <2>2 DEF Attributed
    <3>2. ReadUpTo(c, k)'
      BY <1>1, <1>2, <2>2, <3>1, ReadKept
    <3> QED
      BY <1>1, <2>1, <3>2
  <2>3. CASE c = Len(conns) + 1
    <3>1. \A i \in 1 .. Len(m_parsed_queue) : owner[i] # c
      BY <1>2, <2>3
    <3>2. k = 0
      BY <1>3, <2>1, <3>1, ShareNone
    <3>3. ReadUpTo(c, k)'
      BY <1>1, <1>2, <2>3, <3>2 DEF ReadUpTo
    <3> QED
      BY <1>1, <2>1, <3>3
  <2> QED
    BY <1>2, <2>2, <2>3
<1>6. Attributed(owner)'
  BY <1>2, <1>4, <1>5 DEF Attributed
<1>7. owner \in [1 .. Len(m_parsed_queue') -> 1 .. Len(conns')]
  BY <1>1, <1>2
<1> QED
  BY <1>6, <1>7

\* process_client disturbs only the client it works on, and only how far it is.
LEMMA WorkingReads ==
  ASSUME TypeOK, IsolationInv, pc = "process", NEW h2, h2.from = history[client].from,
         m_raw_queue' = m_raw_queue, conns' = conns, history' = [history EXCEPT ![client] = h2],
         NEW c \in 1 .. Len(conns), NEW k \in Nat
  PROVE  /\ history[client].from # {c} /\ ReadUpTo(c, k) => ReadUpTo(c, k)'
         /\ /\ history[client].from = {c}
            /\ k <= Len(Reader(c)[0])
            /\ Reader(c)[h2.at] = SubSeq(Reader(c)[0], k + 1, Len(Reader(c)[0]))
            => ReadUpTo(c, k)'
<1>1. /\ client \in DOMAIN history /\ DOMAIN history' = DOMAIN history /\ history'[client] = h2
      /\ \A fd \in DOMAIN history : fd # client => history'[fd] = history[fd]
  BY DEF TypeOK
<1>2. Unseen(c)' <=> Unseen(c)
  BY <1>1 DEF Unseen
<1>3. ASSUME history[client].from # {c}, ReadUpTo(c, k) PROVE ReadUpTo(c, k)'
  <2>1. ASSUME NEW fd \in DOMAIN history', history'[fd].from = {c}
        PROVE  fd \in DOMAIN history /\ history[fd].from = {c} /\ history'[fd].at = history[fd].at
    BY <1>1, <1>3, <2>1
  <2> QED
    BY <1>2, <1>3, <2>1, ReadKept
<1>4. ASSUME history[client].from = {c}, k <= Len(Reader(c)[0]),
             Reader(c)[h2.at] = SubSeq(Reader(c)[0], k + 1, Len(Reader(c)[0]))
      PROVE  ReadUpTo(c, k)'
  <2>1. ASSUME NEW fd \in DOMAIN history, history[fd].from = {c} PROVE fd = client
    <3>1. PICK e \in 1 .. Len(conns) : OwnedBy(e, fd, history[fd], m_raw_queue, conns)
      BY DEF IsolationInv, Owned
    <3>2. PICK f \in 1 .. Len(conns) : OwnedBy(f, client, history[client], m_raw_queue, conns)
      BY <1>1 DEF IsolationInv, Owned
    <3>3. e = c /\ f = c
      BY <1>4, <2>1, <3>1, <3>2 DEF OwnedBy
    <3> QED
      BY <3>1, <3>2, <3>3 DEF OwnedBy
  <2>2. Reader(c)' = Reader(c)
    BY DEF Reader
  <2>3. ASSUME NEW fd \in DOMAIN history', history'[fd].from = {c} PROVE history'[fd].at = h2.at
    BY <1>1, <2>1, <2>3
  <2>4. ~Unseen(c)'
    BY <1>1, <1>2, <1>4 DEF Unseen
  <2>5. \A fd \in DOMAIN history' : history'[fd].from = {c} =>
          /\ k <= Len(Reader(c)[0])
          /\ Reader(c)[history'[fd].at] = SubSeq(Reader(c)[0], k + 1, Len(Reader(c)[0]))
    BY <1>4, <2>3
  <2> QED
    BY <2>2, <2>4, <2>5 DEF ReadUpTo
<1> QED
  BY <1>3, <1>4

\* The connection of the client that process_client works on.
LEMMA WorkingOwner ==
  ASSUME TypeOK, IsolationInv, pc = "process"
  PROVE  \E c \in 1 .. Len(conns) : history[client].from = {c}
<1>1. client \in DOMAIN history
  BY DEF TypeOK
<1> QED
  BY <1>1 DEF IsolationInv, Owned, OwnedBy

\* A byte is dropped: the reader of the stream drops it too.
LEMMA ResyncAttributed ==
  ASSUME TypeOK, ClientsInv, IsolationInv, \A c \in 1 .. Len(conns) : Whole(c),
         pc = "process", NoPacketAt(Ring, 0),
         m_raw_queue' = m_raw_queue, conns' = conns, m_parsed_queue' = m_parsed_queue,
         history' = [history EXCEPT ![client] = Consumed(@, 1)],
         NEW owner \in [1 .. Len(m_parsed_queue) -> 1 .. Len(conns)], Attributed(owner)
  PROVE  \E o2 \in [1 .. Len(m_parsed_queue') -> 1 .. Len(conns')] : Attributed(o2)'
<1>1. client \in DOMAIN history /\ history[client] \in History
  BY DEF TypeOK
<1>2. PICK h2 : h2 = Consumed(history[client], 1)
  OBVIOUS
<1>3. h2.from = history[client].from /\ h2.at = history[client].at + 1
  BY <1>1, <1>2 DEF Consumed, History
<1>4. history' = [history EXCEPT ![client] = h2]
  BY <1>2
<1>5. ASSUME NEW c \in 1 .. Len(conns), NEW k \in Nat, ReadUpTo(c, k) PROVE ReadUpTo(c, k)'
  <2>1. CASE history[client].from # {c}
    BY <1>3, <1>4, <1>5, <2>1, WorkingReads
  <2>2. CASE history[client].from = {c}
    <3>1. Reader(c)[h2.at] = Reader(c)[history[client].at]
      BY <1>3, <2>2, ResyncReads
    <3>2. /\ k <= Len(Reader(c)[0])
          /\ Reader(c)[h2.at] = SubSeq(Reader(c)[0], k + 1, Len(Reader(c)[0]))
      BY <1>1, <1>5, <2>2, <3>1 DEF ReadUpTo
    <3> QED
      BY <1>3, <1>4, <2>2, <3>2, WorkingReads
  <2> QED
    BY <2>1, <2>2
<1> QED
  BY <1>5, AttributedKept

\* What a drone is said to have sent is what a reader of its stream collects.
SentIsRead == \A peer \in Peers : peer.packets = TelemetryIn(peer.stream)

\* A packet is taken: the record, if it has one, is the next of its connection.
LEMMA TakeAttributed ==
  ASSUME SentIsRead, TypeOK, ClientsInv, IsolationInv, \A c \in 1 .. Len(conns) : Whole(c),
         TakePacket,
         NEW owner \in [1 .. Len(m_parsed_queue) -> 1 .. Len(conns)], Attributed(owner)
  PROVE  \E o2 \in [1 .. Len(m_parsed_queue') -> 1 .. Len(conns')] : Attributed(o2)'
<1> DEFINE got == deserialize_payload(PayloadAt(Ring, 0, payload_length))
           size == PacketSize(payload_length)
           N == Len(m_parsed_queue)
<1>1. /\ pc = "process" /\ m_raw_queue' = m_raw_queue /\ conns' = conns
      /\ m_parsed_queue' = m_parsed_queue \o got
      /\ history' = [history EXCEPT ![client] = Taken(@, size)]
  BY DEF TakePacket, PacketComplete, InState
<1>2. PacketAt(Ring, 0) /\ payload_length = LengthAt(Ring, 0)
  BY <1>1, Front, Verdicts, Zenon DEF TakePacket, PacketComplete, InState, Ring, payload_length
<1>3. client \in DOMAIN history /\ history[client] \in History
  BY <1>1 DEF TypeOK
<1>4. PICK h2 : h2 = Taken(history[client], size)
  OBVIOUS
<1>5. h2.from = history[client].from /\ h2.at = history[client].at + size
  BY <1>3, <1>4 DEF Taken, History
<1>6. history' = [history EXCEPT ![client] = h2]
  BY <1>1, <1>4
<1>7. PICK c \in 1 .. Len(conns) : history[client].from = {c}
  BY <1>1, WorkingOwner
<1>8. PICK R : R = Reader(c)
  OBVIOUS
<1>9. /\ h2.at \in 0 .. Len(conns[c].peer.stream)
      /\ R[history[client].at] = got \o R[h2.at]
  BY <1>1, <1>2, <1>5, <1>7, <1>8, TakeReads
<1>10. R[0] \in Seq(Telemetry) /\ R[h2.at] \in Seq(Telemetry)
  <2>1. 0 \in 0 .. Len(conns[c].peer.stream)
    BY ConnType
  <2> QED
    BY <1>8, <1>9, <2>1, ReaderType
<1>11. conns[c].peer.packets = R[0]
  <2>1. conns[c].peer \in Peers
    BY ConnType
  <2> QED
    BY <1>8, <2>1 DEF SentIsRead, TelemetryIn, Reader
<1>12. /\ m_parsed_queue \in Seq(Telemetry) /\ N \in Nat
       /\ \A e, n : n \in 0 .. N => Share(owner, e, n) \in Nat
  BY OwnerType
<1>13. PICK k \in Nat : /\ k = Share(owner, c, N) /\ k <= Len(R[0])
                        /\ R[history[client].at] = SubSeq(R[0], k + 1, Len(R[0]))
  <2>1. PICK k \in Nat : k = Share(owner, c, N) /\ ReadUpTo(c, k)
    BY <1>12 DEF Attributed
  <2> QED
    BY <1>3, <1>7, <1>8, <2>1 DEF ReadUpTo
<1>14. CASE got = << >>
  <2>1. m_parsed_queue' = m_parsed_queue
    BY <1>1, <1>12, <1>14
  <2>2. R[h2.at] = SubSeq(R[0], k + 1, Len(R[0]))
    <3>1. << >> \o R[h2.at] = R[h2.at]
      BY <1>10, ConcatEmptySeq
    <3> QED
      BY <1>9, <1>13, <1>14, <3>1, Zenon
  <2>3. ASSUME NEW e \in 1 .. Len(conns), NEW j \in Nat, j = Share(owner, e, N), ReadUpTo(e, j)
        PROVE  ReadUpTo(e, j)'
    <3>1. CASE e # c
      BY <1>1, <1>5, <1>6, <1>7, <2>3, <3>1, WorkingReads
    <3>2. CASE e = c
      BY <1>1, <1>5, <1>6, <1>7, <1>8, <1>13, <2>2, <2>3, <3>2, WorkingReads
    <3> QED
      BY <3>1, <3>2
  <2>4. InSentOrder(owner)'
    BY <1>1, <2>1 DEF Attributed, InSentOrder
  <2>5. ASSUME NEW e \in 1 .. Len(conns) PROVE ReadUpTo(e, Share(owner, e, N))'
    <3>1. PICK j \in Nat : j = Share(owner, e, N) /\ ReadUpTo(e, j)
      BY <1>12 DEF Attributed
    <3>2. ReadUpTo(e, j)'
      BY <2>3, <3>1
    <3>3. j = Share(owner, e, Len(m_parsed_queue'))
      BY <2>1, <3>1
    <3> QED
      BY <3>2, <3>3
  <2> QED
    BY <1>1, <2>1, <2>4, <2>5 DEF Attributed
<1>15. CASE got # << >>
  <2>1. PICK x \in Telemetry : got = <<x>>
    <3>1. PayloadAt(Ring, 0, payload_length) \in Seq(Byte)
      <4>1. Ring \in Seq(Byte) /\ payload_length \in Uint16
        BY <1>1, FrontType
      <4>2. PICK r \in Seq(Byte), len \in Nat : r = Ring /\ len = payload_length
        BY <4>1 DEF Uint16
      <4>3. SubSeq(r, 0 + 2 + 2 + 1, 0 + 2 + 2 + len) \in Seq(Byte)
        <5>1. CASE 4 + len <= Len(r)
          BY <5>1
        <5>2. CASE ~(4 + len <= Len(r))
          <6>1. PacketSize(len) <= Len(r)
            BY <4>2 DEF TakePacket, PacketComplete
          <6> QED
            BY <5>2, <6>1, PacketSizeNat
        <5> QED
          BY <5>1, <5>2
      <4> QED
        BY <4>2, <4>3, Zenon DEF PayloadAt, HEADER_SIZE, LENGTH_SIZE
    <3>2. got \in Seq(Telemetry)
      BY <3>1, DeserializeType
    <3>3. got = << Fields(PayloadAt(Ring, 0, payload_length)) >>
      BY <1>15 DEF deserialize_payload
    <3> HIDE DEF got
    <3>4. got[1] \in Telemetry /\ got = << got[1] >>
      BY <3>2, <3>3
    <3> QED
      BY <3>4
  <2> HIDE DEF got
  <2>2. k + 1 <= Len(R[0]) /\ R[0][k + 1] = x /\ R[h2.at] = SubSeq(R[0], (k + 1) + 1, Len(R[0]))
    <3>1. PICK all \in Seq(Telemetry), rest \in Seq(Telemetry) : all = R[0] /\ rest = R[h2.at]
      BY <1>10, Zenon
    <3>2. k <= Len(all) /\ SubSeq(all, k + 1, Len(all)) = <<x>> \o rest
      BY <1>9, <1>13, <2>1, <3>1, Zenon
    <3>3. k + 1 <= Len(all) /\ all[k + 1] = x /\ rest = SubSeq(all, (k + 1) + 1, Len(all))
      BY <3>2, NextOfRest
    <3> QED
      BY <3>1, <3>3, Zenon
  <2>3. /\ Len(m_parsed_queue') = N + 1 /\ m_parsed_queue'[N + 1] = x
        /\ \A i \in 1 .. N : m_parsed_queue'[i] = m_parsed_queue[i]
    BY <1>1, <1>12, <2>1
  <2>4. PICK o2 \in [1 .. N + 1 -> 1 .. Len(conns)] :
          o2[N + 1] = c /\ \A i \in 1 .. N : o2[i] = owner[i]
    <3> DEFINE o2 == [i \in 1 .. N + 1 |-> IF i <= N THEN owner[i] ELSE c]
    <3>1. o2 \in [1 .. N + 1 -> 1 .. Len(conns)]
      BY <1>12
    <3>2. o2[N + 1] = c /\ \A i \in 1 .. N : o2[i] = owner[i]
      BY <1>12
    <3> QED
      BY <3>1, <3>2
  <2>5. ASSUME NEW e, NEW n \in 0 .. N PROVE Share(o2, e, n) = Share(owner, e, n)
    <3>1. n \in Nat /\ \A i \in 1 .. n : o2[i] = owner[i]
      BY <1>12, <2>4
    <3>2. {i \in 1 .. n : o2[i] = e} = {i \in 1 .. n : owner[i] = e}
      BY <3>1
    <3> QED
      BY <3>2, Zenon DEF Share
  <2>6. ASSUME NEW e
        PROVE  /\ e = c => Share(o2, e, N + 1) = Share(owner, e, N) + 1
               /\ e # c => Share(o2, e, N + 1) = Share(owner, e, N)
    <3>1. Share(o2, e, N) = Share(owner, e, N)
      BY <1>12, <2>5
    <3>2. /\ o2[N + 1] = e => Share(o2, e, N + 1) = Share(o2, e, N) + 1
          /\ o2[N + 1] # e => Share(o2, e, N + 1) = Share(o2, e, N)
      BY <1>12, ShareFacts, Zenon
    <3> QED
      BY <2>4, <3>1, <3>2, Zenon
  <2>7. Share(o2, c, N + 1) = k + 1 /\ \A e : e # c => Share(o2, e, N + 1) = Share(owner, e, N)
    BY <1>13, <2>6, Zenon
  <2>8. InSentOrder(o2)'
    <3> SUFFICES ASSUME NEW i \in 1 .. N + 1
                 PROVE  /\ Share(o2, o2[i], i) <= Len(conns[o2[i]].peer.packets)
                        /\ m_parsed_queue'[i] = conns[o2[i]].peer.packets[Share(o2, o2[i], i)]
      BY <1>1, <2>3 DEF InSentOrder
    <3>1. CASE i \in 1 .. N
      <4>1. o2[i] = owner[i] /\ m_parsed_queue'[i] = m_parsed_queue[i] /\ i \in 0 .. N
        BY <1>12, <2>3, <2>4, <3>1
      <4>2. Share(o2, o2[i], i) = Share(owner, owner[i], i)
        BY <2>5, <4>1
      <4> QED
        BY <3>1, <4>1, <4>2 DEF Attributed, InSentOrder
    <3>2. CASE i = N + 1
      BY <1>11, <2>2, <2>3, <2>4, <2>7, <3>2
    <3> QED
      BY <1>12, <3>1, <3>2
  <2>9. ASSUME NEW e \in 1 .. Len(conns) PROVE ReadUpTo(e, Share(o2, e, Len(m_parsed_queue)))'
    <3>1. CASE e # c
      <4>1. PICK j \in Nat : j = Share(owner, e, N) /\ ReadUpTo(e, j)
        BY <1>12 DEF Attributed
      <4>2. ReadUpTo(e, j)'
        BY <1>1, <1>5, <1>6, <1>7, <3>1, <4>1, WorkingReads
      <4>3. j = Share(o2, e, Len(m_parsed_queue'))
        BY <2>3, <2>7, <3>1, <4>1
      <4> QED
        BY <4>2, <4>3
    <3>2. CASE e = c
      <4>1. k + 1 \in Nat
        OBVIOUS
      <4>2. ReadUpTo(c, k + 1)'
        BY <1>1, <1>5, <1>6, <1>7, <1>8, <2>2, <4>1, WorkingReads
      <4>3. k + 1 = Share(o2, c, Len(m_parsed_queue'))
        BY <2>3, <2>7
      <4> QED
        BY <3>2, <4>2, <4>3
    <3> QED
      BY <3>1, <3>2
  <2>10. Attributed(o2)'
    BY <1>1, <2>8, <2>9 DEF Attributed
  <2>11. o2 \in [1 .. Len(m_parsed_queue') -> 1 .. Len(conns')]
    BY <1>1, <2>3
  <2> QED
    BY <2>10, <2>11
<1> QED
  BY <1>14, <1>15

LEMMA SameWhole ==
  ASSUME m_raw_queue' = m_raw_queue, conns' = conns, DOMAIN history' = DOMAIN history,
         \A fd \in DOMAIN history :
           history'[fd].pushed = history[fd].pushed /\ history'[fd].from = history[fd].from,
         NEW c, Whole(c)
  PROVE  Whole(c)'
<1>1. Unseen(c)' <=> Unseen(c)
  BY DEF Unseen
<1>2. ASSUME NEW n, PushedUpTo(c, n) PROVE PushedUpTo(c, n)'
  BY <1>1, <1>2 DEF PushedUpTo
<1> QED
  BY <1>2 DEF Whole

LEMMA ProcessWhole ==
  ASSUME TypeOK, process_client, NEW c, Whole(c)
  PROVE  Whole(c)'
  BY ProcessHistory, SameWhole

LEMMA SameAttributed ==
  ASSUME TypeOK, UNCHANGED <<m_raw_queue, m_parsed_queue, conns, history>>,
         NEW owner \in [1 .. Len(m_parsed_queue) -> 1 .. Len(conns)], Attributed(owner)
  PROVE  \E o2 \in [1 .. Len(m_parsed_queue') -> 1 .. Len(conns')] : Attributed(o2)'
<1>1. ASSUME NEW c \in 1 .. Len(conns), NEW k \in Nat, ReadUpTo(c, k) PROVE ReadUpTo(c, k)'
  BY <1>1 DEF ReadUpTo, Unseen, Reader
<1> QED
  BY <1>1, AttributedKept

LEMMA ProcessAttributed ==
  ASSUME SentIsRead, TypeOK, ClientsInv, IsolationInv, \A c \in 1 .. Len(conns) : Whole(c),
         process_client,
         NEW owner \in [1 .. Len(m_parsed_queue) -> 1 .. Len(conns)], Attributed(owner)
  PROVE  \E o2 \in [1 .. Len(m_parsed_queue') -> 1 .. Len(conns')] : Attributed(o2)'
<1>1. CASE Return \/ HeaderFound \/ LengthValid
  BY <1>1, SameAttributed DEF Return, HeaderFound, LengthValid, queues
<1>2. CASE HeaderMissing \/ LengthAbsurd \/ CrcMismatch
  <2>1. /\ pc = "process" /\ m_raw_queue' = m_raw_queue /\ conns' = conns
        /\ m_parsed_queue' = m_parsed_queue
        /\ history' = [history EXCEPT ![client] = Consumed(@, 1)]
    BY <1>2 DEF HeaderMissing, LengthAbsurd, CrcMismatch, PacketComplete, InState, Resync, queues
  <2>2. m_clients[client] \in ClientState /\ LengthIsFresh(m_clients[client])
    BY <2>1, Front
  <2>3. NoPacketAt(Ring, 0)
    BY <1>2, <2>2, Verdicts, Zenon
       DEF HeaderMissing, LengthAbsurd, CrcMismatch, PacketComplete, InState, Ring, payload_length
  <2> QED
    BY <2>1, <2>3, ResyncAttributed
<1>3. CASE TakePacket
  BY <1>3, TakeAttributed
<1> QED
  BY <1>1, <1>2, <1>3 DEF process_client

LEMMA DeliveryStep ==
  ASSUME SentIsRead, TypeOK, ClientsInv, IsolationInv, RoomForEveryChunk, DeliveryInv, [Next]_vars
  PROVE  DeliveryInv'
<1> DEFINE Owners == [1 .. Len(m_parsed_queue) -> 1 .. Len(conns)]
<1>1. PICK owner \in Owners : Attributed(owner)
  BY DEF DeliveryInv
<1>2. \A c \in 1 .. Len(conns) : Whole(c)
  BY DEF DeliveryInv
<1>3. ASSUME NEW fd0 \in Fd, NEW peer \in Peers, Accept(fd0, peer) PROVE DeliveryInv'
  <2>1. /\ Len(conns) \in Nat /\ Len(conns') = Len(conns) + 1
        /\ \A c \in 1 .. Len(conns) : Whole(c) => Whole(c)'
        /\ \A c : c = Len(conns) + 1 => Whole(c)'
    BY <1>3, AcceptWhole
  <2>2. \A c \in 1 .. Len(conns') : Whole(c)'
    BY <1>2, <2>1
  <2>3. \E o2 \in Owners' : Attributed(o2)'
    BY <1>1, <1>3, AcceptAttributed
  <2> QED
    BY <2>2, <2>3 DEF DeliveryInv
<1>4. ASSUME NEW c \in 1 .. Len(conns), \E d \in DataChunk : SentBy(c, d),
             m_parsed_queue' = m_parsed_queue
      PROVE  DeliveryInv'
  <2>1. PICK d \in DataChunk : SentBy(c, d)
    BY <1>4
  <2>2. Len(conns') = Len(conns)
    BY <2>1 DEF SentBy, Sends
  <2>3. \A e \in 1 .. Len(conns') : Whole(e)'
    BY <1>2, <2>1, <2>2, SendWhole
  <2>4. \E o2 \in Owners' : Attributed(o2)'
    BY <1>1, <1>4, <2>1, SendAttributed
  <2> QED
    BY <2>3, <2>4 DEF DeliveryInv
<1>5. CASE Listen
  <2>1. m_parsed_queue' = m_parsed_queue
    BY <1>5 DEF Listen, Accept, ReceiveChunk, Disconnect, parserVars
  <2> QED
    BY <1>3, <1>4, <1>5, <2>1, ReceiveSends, DisconnectSends DEF Listen
<1>6. CASE PopData \/ PopDisconnect
  <2>1. conns' = conns
    BY <1>6 DEF PopData, PopDisconnect, EraseClient
  <2>2. \A c \in 1 .. Len(conns') : Whole(c)'
    BY <1>2, <1>6, <2>1, PopWhole
  <2>3. \E o2 \in Owners' : Attributed(o2)'
    BY <1>1, <1>6, PopAttributed
  <2> QED
    BY <2>2, <2>3 DEF DeliveryInv
<1>7. ~PopOverflow
  <2> SUFFICES ASSUME PopOverflow PROVE FALSE
    OBVIOUS
  <2>1. FoundClient \in ClientState /\ Chunk \in DataChunk
    BY ChunkType DEF PopOverflow
  <2>2. PICK a \in Nat, b \in Nat : a = Len(FoundClient.ring_buffer) /\ b = Len(Chunk.data)
    BY <2>1 DEF ClientState, DataChunk
  <2>3. a + b > Capacity /\ a + b <= Capacity
    BY <2>2 DEF PopOverflow, RoomForEveryChunk
  <2> QED
    BY <2>3, ParserAssumption
<1>8. CASE process_client
  <2>1. conns' = conns
    BY <1>8 DEF process_client, Return, HeaderMissing, HeaderFound, LengthAbsurd, LengthValid,
         CrcMismatch, TakePacket
  <2>2. \A c \in 1 .. Len(conns') : Whole(c)'
    BY <1>2, <1>8, <2>1, ProcessWhole
  <2>3. \E o2 \in Owners' : Attributed(o2)'
    BY <1>1, <1>2, <1>8, ProcessAttributed
  <2> QED
    BY <2>2, <2>3 DEF DeliveryInv
<1>9. CASE RequestStop \/ CheckStop \/ PopStopped \/ UNCHANGED vars
  <2>1. UNCHANGED <<m_raw_queue, m_parsed_queue, conns, history>>
    BY <1>9 DEF RequestStop, CheckStop, PopStopped, vars, queues, parserVars
  <2>2. \A c \in 1 .. Len(conns') : Whole(c)'
    BY <1>2, <2>1, SameWhole
  <2>3. \E o2 \in Owners' : Attributed(o2)'
    BY <1>1, <2>1, SameAttributed
  <2> QED
    BY <2>2, <2>3 DEF DeliveryInv
<1> QED
  BY <1>5, <1>6, <1>7, <1>8, <1>9 DEF Next, Environment, run

\* If nothing of connection c is left in the queue but the marker, all of its
\* stream has been pushed.
LEMMA AllPushed ==
  ASSUME TypeOK, NEW c \in 1 .. Len(conns), Whole(c), AllPopped(c),
         NEW fd \in DOMAIN history, history[fd].from = {c}
  PROVE  history[fd].pushed = conns[c].peer.stream
<1> DEFINE q == m_raw_queue
           t == conns[c].peer.stream
<1>1. PICK o \in [0 .. Len(q) -> Nat] : Offsets(o, c, q, conns[c]) /\ PushedUpTo(c, o[0])
  BY DEF Whole
<1>2. Len(q) \in Nat /\ t \in Seq(Byte)
  BY ConnType DEF TypeOK
<1> DEFINE S == {i \in Nat : i <= Len(q) => o[i] = o[0]}
<1>3. ASSUME NEW i \in Nat, i \in S PROVE i + 1 \in S
  <2> SUFFICES ASSUME i + 1 <= Len(q) PROVE o[i + 1] = o[0]
    OBVIOUS
  <2>1. i + 1 \in 1 .. Len(q) /\ (i + 1) - 1 = i /\ i \in 0 .. Len(q) /\ o[i] = o[0] /\ o[i] \in Nat
    BY <1>1, <1>2, <1>3
  <2>2. CASE q[i + 1].conn # c
    BY <1>1, <2>1, <2>2 DEF Offsets
  <2>3. CASE q[i + 1].conn = c
    <3>1. o[i + 1] = o[i] + Len(q[i + 1].data)
      BY <1>1, <2>1, <2>3 DEF Offsets
    <3>2. q[i + 1].data = << >>
      BY <2>1, <2>3 DEF AllPopped
    <3>3. Len(<< >>) = 0
      OBVIOUS
    <3> QED
      BY <2>1, <3>1, <3>2, <3>3
  <2> QED
    BY <2>2, <2>3
<1>4. 0 \in S
  OBVIOUS
<1> HIDE DEF S
<1>5. Len(q) \in S
  BY <1>2, <1>3, <1>4, Induction
<1>6. o[Len(q)] = o[0]
  BY <1>2, <1>5 DEF S
<1>7. o[0] = Len(t)
  BY <1>1, <1>6 DEF Offsets, AllPopped
<1>8. history[fd].pushed = SubSeq(t, 1, Len(t))
  BY <1>1, <1>7 DEF PushedUpTo
<1>9. SubSeq(t, 1, Len(t)) = t
  BY <1>2
<1> QED
  BY <1>8, <1>9

\* Then the reader of the stream has nothing left where the ClientState waits.
LEMMA NothingLeft ==
  ASSUME TypeOK, ClientsInv, IdleUndecided, NEW c \in 1 .. Len(conns), Whole(c), AllPopped(c),
         NEW fd \in DOMAIN history, history[fd].from = {c}, Idle(fd)
  PROVE  Reader(c)[history[fd].at] = << >>
<1> DEFINE s == conns[c].peer.stream
           a == history[fd].at
<1>1. history[fd].pushed = s /\ s \in Seq(Byte)
  BY AllPushed, ConnType
<1>2. fd \in DOMAIN m_clients /\ history[fd] \in History
  BY DEF TypeOK
<1>3. a \in Nat /\ a <= Len(s)
  BY <1>1, <1>2 DEF ClientsInv, ClientInv, HoldsRest, History
<1>4. ~PacketAt(s, a) /\ ~NoPacketAt(s, a)
  BY <1>1, <1>2 DEF IdleUndecided, Undecided
<1> HIDE DEF s, a
<1>5. a \in 0 .. Len(s)
  BY <1>1, <1>3
<1>6. Collected(s, Readings(s))[a] = << >>
  BY <1>1, <1>4, <1>5, CollectedReads, Zenon DEF Found
<1> QED
  BY <1>6 DEF Reader, s, a

\* The business logic gets the telemetry the drones sent: with any number of
\* connections, any streams, cuts and reuse of descriptors, each connection's in
\* order, without a gap or a repetition, and all of it once its stream has been
\* handled (src/streamingParser.cpp:50-98 and 105-243).
THEOREM TelemetryIsDelivered ==
  ASSUME Capacity >= RECV_BUF_SIZE + PacketSize(MAX_PAYLOAD_SIZE) - 1, SentIsRead
  PROVE  Spec => []DeliversWhatWasSent
<1>1. Init => DeliveryInv /\ IdleUndecided
  <2>0. Init => IdleUndecided
    BY DEF Init, IdleUndecided
  <2> SUFFICES ASSUME Init PROVE DeliveryInv
    BY <2>0
  <2>1. Len(conns) = 0 /\ Len(m_parsed_queue) = 0
    BY DEF Init
  <2>2. PICK owner : owner \in [1 .. 0 -> 1 .. 0]
    <3>1. [i \in 1 .. 0 |-> i] \in [1 .. 0 -> 1 .. 0]
      OBVIOUS
    <3> QED
      BY <3>1
  <2>3. Attributed(owner)
    BY <2>1 DEF Attributed, InSentOrder
  <2>4. \A c \in 1 .. Len(conns) : Whole(c)
    BY <2>1
  <2>5. owner \in [1 .. Len(m_parsed_queue) -> 1 .. Len(conns)]
    BY <2>1, <2>2, Zenon
  <2> QED
    BY <2>3, <2>4, <2>5, Zenon DEF DeliveryInv
<1>2. /\ TypeOK /\ ClientsInv /\ IsolationInv /\ RoomForEveryChunk /\ DeliveryInv /\ IdleUndecided
      /\ [Next]_vars
      => DeliveryInv' /\ IdleUndecided'
  BY DeliveryStep, IdleStayUndecided
<1>3. TypeOK /\ ClientsInv /\ DeliveryInv /\ IdleUndecided => DeliversWhatWasSent
  <2> SUFFICES ASSUME TypeOK, ClientsInv, DeliveryInv, IdleUndecided PROVE DeliversWhatWasSent
    OBVIOUS
  <2>1. PICK owner \in [1 .. Len(m_parsed_queue) -> 1 .. Len(conns)] : Attributed(owner)
    BY DEF DeliveryInv
  <2>2. NothingMissing(owner)
    <3> SUFFICES ASSUME NEW fd \in DOMAIN m_clients, NEW c \in 1 .. Len(conns),
                        history[fd].from = {c}, Idle(fd), AllPopped(c)
                 PROVE  Share(owner, c, Len(m_parsed_queue)) = Len(conns[c].peer.packets)
      BY DEF NothingMissing
    <3>1. fd \in DOMAIN history /\ Whole(c) /\ conns[c].peer \in Peers
      BY ConnType DEF TypeOK, DeliveryInv
    <3>2. PICK R : R = Reader(c)
      OBVIOUS
    <3>3. R[history[fd].at] = << >>
      BY <3>1, <3>2, NothingLeft
    <3>4. conns[c].peer.packets = R[0]
      BY <3>1, <3>2 DEF SentIsRead, TelemetryIn, Reader
    <3>5. R[0] \in Seq(Telemetry)
      <4>1. 0 \in 0 .. Len(conns[c].peer.stream)
        BY ConnType
      <4> QED
        BY <3>2, <4>1, ReaderType
    <3>6. PICK k \in Nat : k = Share(owner, c, Len(m_parsed_queue)) /\ ReadUpTo(c, k)
      BY <2>1, OwnerType DEF Attributed
    <3>7. k <= Len(R[0]) /\ << >> = SubSeq(R[0], k + 1, Len(R[0]))
      BY <3>1, <3>2, <3>3, <3>6 DEF ReadUpTo
    <3>8. k = Len(R[0])
      <4>1. PICK all \in Seq(Telemetry) : all = R[0]
        BY <3>5
      <4>2. k <= Len(all) /\ Len(SubSeq(all, k + 1, Len(all))) = 0
        BY <3>7, <4>1
      <4>3. Len(SubSeq(all, k + 1, Len(all))) = Len(all) - k
        BY <4>2
      <4> QED
        BY <4>1, <4>2, <4>3
    <3> QED
      BY <3>4, <3>6, <3>8
  <2> QED
    BY <2>1, <2>2 DEF DeliversWhatWasSent, Attributed
<1> QED
  BY <1>1, <1>2, <1>3, TypeCorrect, ClientsCorrect, IsolationCorrect, NoOverflow, PTL DEF Spec

-----------------------------------------------------------------------------
(* The parser reads what build_packet writes.                              *)

\* The second part of x \o y is y, and reads in the first part are reads in x.
LEMMA Parts ==
  ASSUME NEW x \in Seq(Byte), NEW y \in Seq(Byte)
  PROVE  /\ x \o y \in Seq(Byte) /\ Len(x) \in Nat /\ Len(y) \in Nat
         /\ Len(x \o y) = Len(x) + Len(y)
         /\ \A i \in 1 .. Len(x) : (x \o y)[i] = x[i]
         /\ \A i \in 1 .. Len(y) : (x \o y)[Len(x) + i] = y[i]
         /\ SubSeq(x \o y, Len(x) + 1, Len(x) + Len(y)) = y
         /\ \A p, q \in Nat : q <= Len(x) => SubSeq(x \o y, p + 1, q) = SubSeq(x, p + 1, q)
<1> DEFINE z == x \o y
           u == SubSeq(z, Len(x) + 1, Len(x) + Len(y))
<1>1. /\ z \in Seq(Byte) /\ Len(z) = Len(x) + Len(y) /\ Len(x) \in Nat /\ Len(y) \in Nat
      /\ \A i \in 1 .. Len(x) : z[i] = x[i]
      /\ \A i \in 1 .. Len(y) : z[Len(x) + i] = y[i]
  OBVIOUS
<1>2. \A p, q \in Nat : q <= Len(x) => SubSeq(z, p + 1, q) = SubSeq(x, p + 1, q)
  BY PrefixReads, Zenon
<1> HIDE DEF z
<1>3. u \in Seq(Byte) /\ Len(u) = Len(y) /\ \A i \in 1 .. Len(y) : u[i] = z[Len(x) + i]
  BY <1>1
<1> HIDE DEF u
<1>4. u = y
  BY <1>1, <1>3, SeqEqual
<1> QED
  BY <1>1, <1>2, <1>4 DEF u, z

\* struct.pack(">H", n) and the big-endian read.
LEMMA PackedReads ==
  ASSUME NEW n \in Uint16
  PROVE  /\ Packed(n) \in Seq(Byte) /\ Len(Packed(n)) = 2
         /\ 256 * Packed(n)[1] + Packed(n)[2] = n
<1>1. n \div 256 \in Byte /\ n % 256 \in Byte /\ 256 * (n \div 256) + (n % 256) = n
  BY DEF Uint16, Byte
<1> QED
  BY <1>1 DEF Packed

LEMMA WireReads ==
  ASSUME NEW f \in Field
  PROVE  /\ WireOrder(f) \in Seq(Byte) /\ Len(WireOrder(f)) = FIELD_SIZE
         /\ HostOrder(WireOrder(f)) = f
<1> DEFINE w == WireOrder(f)
<1>1. FIELD_SIZE \in Nat /\ f = [i \in 1 .. FIELD_SIZE |-> f[i]]
  BY PacketAssumption DEF Field
<1>2. \A i \in 1 .. FIELD_SIZE : /\ FIELD_SIZE + 1 - i \in 1 .. FIELD_SIZE
                                 /\ FIELD_SIZE + 1 - (FIELD_SIZE + 1 - i) = i
  BY <1>1
<1>3. w \in [1 .. FIELD_SIZE -> Byte] /\ \A i \in 1 .. FIELD_SIZE : w[i] = f[FIELD_SIZE + 1 - i]
  BY <1>2 DEF WireOrder, Field
<1> HIDE DEF w
<1>4. w \in Seq(Byte) /\ Len(w) = FIELD_SIZE
  BY <1>1, <1>3
<1>5. HostOrder(w) = [i \in 1 .. FIELD_SIZE |-> w[FIELD_SIZE + 1 - i]]
  BY <1>4 DEF HostOrder
<1>6. \A i \in 1 .. FIELD_SIZE : w[FIELD_SIZE + 1 - i] = f[i]
  BY <1>2, <1>3
<1>7. HostOrder(w) = f
  BY <1>1, <1>5, <1>6, Zenon
<1> QED
  BY <1>4, <1>7 DEF w

\* Packing one more field behind d.
LEMMA FieldPacked ==
  ASSUME NEW d \in Seq(Byte), NEW f \in Field
  PROVE  /\ d \o WireOrder(f) \in Seq(Byte) /\ Len(d) \in Nat
         /\ Len(d \o WireOrder(f)) = Len(d) + FIELD_SIZE
         /\ HostOrder(SubSeq(d \o WireOrder(f), Len(d) + 1, Len(d) + FIELD_SIZE)) = f
         /\ \A p, q \in Nat : q <= Len(d) =>
              SubSeq(d \o WireOrder(f), p + 1, q) = SubSeq(d, p + 1, q)
         /\ \A i \in 1 .. Len(d) : (d \o WireOrder(f))[i] = d[i]
<1>1. WireOrder(f) \in Seq(Byte) /\ Len(WireOrder(f)) = FIELD_SIZE /\ HostOrder(WireOrder(f)) = f
  BY WireReads, Zenon
<1> DEFINE w == WireOrder(f)
<1>2. w \in Seq(Byte) /\ Len(w) = FIELD_SIZE /\ HostOrder(w) = f
  BY <1>1
<1> HIDE DEF w
<1>3. /\ d \o w \in Seq(Byte) /\ Len(d) \in Nat
      /\ Len(d \o w) = Len(d) + Len(w)
      /\ SubSeq(d \o w, Len(d) + 1, Len(d) + Len(w)) = w
      /\ \A p, q \in Nat : q <= Len(d) => SubSeq(d \o w, p + 1, q) = SubSeq(d, p + 1, q)
      /\ \A i \in 1 .. Len(d) : (d \o w)[i] = d[i]
  BY <1>2, Parts, Zenon
<1>4. Len(d \o w) = Len(d) + FIELD_SIZE /\ HostOrder(SubSeq(d \o w, Len(d) + 1, Len(d) + FIELD_SIZE)) = f
  BY <1>2, <1>3, Zenon
<1> QED
  BY <1>3, <1>4, Zenon DEF w

\* The length of the id, and the id behind it.
LEMMA IdPacked ==
  ASSUME NEW id \in Seq(Byte), Len(id) \in Uint16
  PROVE  LET d == Packed(Len(id)) \o id IN
           /\ d \in Seq(Byte) /\ Len(d) = 2 + Len(id) /\ SubSeq(d, 3, 2 + Len(id)) = id
           /\ 256 * d[1] + d[2] = Len(id)
<1> DEFINE x == Packed(Len(id))
           d == x \o id
<1>1. x \in Seq(Byte) /\ Len(x) = 2 /\ 256 * x[1] + x[2] = Len(id)
  BY PackedReads
<1> HIDE DEF x
<1>2. /\ d \in Seq(Byte) /\ Len(d) = Len(x) + Len(id)
      /\ \A i \in 1 .. Len(x) : d[i] = x[i]
      /\ SubSeq(d, Len(x) + 1, Len(x) + Len(id)) = id
  BY <1>1, Parts, Zenon
<1> HIDE DEF d
<1>3. d \in Seq(Byte) /\ Len(d) = 2 + Len(id) /\ SubSeq(d, 3, 2 + Len(id)) = id
  BY <1>1, <1>2
<1>4. d[1] = x[1] /\ d[2] = x[2]
  BY <1>1, <1>2
<1>5. 256 * d[1] + d[2] = Len(id)
  BY <1>1, <1>4, Zenon
<1> QED
  BY <1>3, <1>5 DEF d, x

LEMMA IdFits ==
  ASSUME NEW l \in Nat, 2 + l + 5 * FIELD_SIZE <= MAX_PAYLOAD_SIZE
  PROVE  l \in Uint16 /\ FIELD_SIZE \in Nat /\ MAX_PAYLOAD_SIZE \in Nat
<1>1. FIELD_SIZE \in Nat /\ MAX_PAYLOAD_SIZE \in Nat /\ MAX_PAYLOAD_SIZE <= 65535
  BY PacketAssumption DEF Uint16
<1>2. 5 * FIELD_SIZE \in Nat
  BY <1>1
<1>3. l <= 65535
  BY <1>1, <1>2
<1> QED
  BY <1>1, <1>3 DEF Uint16

\* deserialize_payload undoes serialize_payload.
LEMMA PayloadReads ==
  ASSUME NEW t \in Sendable
  PROVE  /\ serialize_payload(t) \in Seq(Byte)
         /\ Len(serialize_payload(t)) \in 1 .. MAX_PAYLOAD_SIZE
         /\ deserialize_payload(serialize_payload(t)) = <<t>>
<1> DEFINE id == t.drone_id
           l == Len(id)
<1>2. /\ id \in Seq(Byte) /\ t.latitude \in Field /\ t.longitude \in Field /\ t.altitude \in Field
      /\ t.speed \in Field /\ t.timestamp \in Field
      /\ t = [drone_id |-> id, latitude |-> t.latitude, longitude |-> t.longitude,
              altitude |-> t.altitude, speed |-> t.speed, timestamp |-> t.timestamp]
      /\ 2 + l + 5 * FIELD_SIZE <= MAX_PAYLOAD_SIZE
  BY DEF Sendable, Telemetry
<1> HIDE DEF id
<1>3. l \in Nat
  BY <1>2
<1> HIDE DEF l
<1>4. l \in Uint16 /\ FIELD_SIZE \in Nat /\ MAX_PAYLOAD_SIZE \in Nat
  BY <1>2, <1>3, IdFits, Zenon
<1> DEFINE d1 == Packed(l) \o id
           d2 == d1 \o WireOrder(t.latitude)
           d3 == d2 \o WireOrder(t.longitude)
           d4 == d3 \o WireOrder(t.altitude)
           d5 == d4 \o WireOrder(t.speed)
           d6 == d5 \o WireOrder(t.timestamp)
<1>1. serialize_payload(t) = d6
  BY Zenon DEF serialize_payload, l, id
<1>5. d1 \in Seq(Byte) /\ Len(d1) = 2 + l /\ SubSeq(d1, 3, 2 + l) = id /\ 256 * d1[1] + d1[2] = l
  BY <1>2, <1>4, IdPacked, Zenon DEF l
<1> HIDE DEF d1
<1> DEFINE o(k) == 2 + l + k * FIELD_SIZE
           Says(d, n) == /\ d \in Seq(Byte) /\ Len(d) = o(n) /\ 256 * d[1] + d[2] = l
                         /\ SubSeq(d, 2 + 1, o(0)) = id
           Reads(d, k, f) == HostOrder(SubSeq(d, o(k) + 1, o(k + 1))) = f
<1>6. o(0) = 2 + l /\ \A k \in 0 .. 5 : o(k) \in Nat /\ o(k + 1) \in Nat /\ o(k + 1) = o(k) + FIELD_SIZE
                                        /\ o(k) <= o(k + 1) /\ o(k) >= 2 + l
  BY <1>3, <1>4
<1> HIDE DEF o
<1>7. ASSUME NEW d, NEW n \in 0 .. 5, Says(d, n), NEW f \in Field
      PROVE  /\ Says(d \o WireOrder(f), n + 1) /\ Reads(d \o WireOrder(f), n, f)
             /\ \A k \in 0 .. 5 : \A g : o(k + 1) <= o(n) /\ Reads(d, k, g) => Reads(d \o WireOrder(f), k, g)
  <2> DEFINE e == d \o WireOrder(f)
  <2>1. /\ e \in Seq(Byte) /\ Len(e) = Len(d) + FIELD_SIZE
        /\ HostOrder(SubSeq(e, Len(d) + 1, Len(d) + FIELD_SIZE)) = f
        /\ \A p, q \in Nat : q <= Len(d) => SubSeq(e, p + 1, q) = SubSeq(d, p + 1, q)
        /\ \A i \in 1 .. Len(d) : e[i] = d[i]
    BY <1>7, FieldPacked, Zenon
  <2> HIDE DEF e
  <2>2. Len(e) = o(n + 1) /\ Reads(e, n, f)
    BY <1>6, <1>7, <2>1, Zenon
  <2>3. 1 \in 1 .. Len(d) /\ 2 \in 1 .. Len(d) /\ o(0) <= Len(d) /\ o(0) \in Nat /\ 2 \in Nat
    <3>1. Len(d) = o(n) /\ o(n) \in Nat /\ o(n) >= 2 + l /\ o(0) = 2 + l
      BY <1>6, <1>7, Zenon
    <3> QED
      BY <1>3, <3>1
  <2>4. e[1] = d[1] /\ e[2] = d[2] /\ SubSeq(e, 2 + 1, o(0)) = SubSeq(d, 2 + 1, o(0))
    BY <2>1, <2>3, Zenon
  <2>5. Says(e, n + 1)
    BY <1>7, <2>1, <2>2, <2>4, Zenon
  <2>6. ASSUME NEW k \in 0 .. 5, NEW g, o(k + 1) <= o(n), Reads(d, k, g)
        PROVE  Reads(e, k, g)
    BY <1>6, <1>7, <2>1, <2>6, Zenon
  <2> QED
    BY <2>2, <2>5, <2>6 DEF e
<1>8. Says(d1, 0)
  BY <1>5, <1>6
<1> HIDE DEF Says, Reads
<1>9. /\ 0 \in 0 .. 5 /\ 1 \in 0 .. 5 /\ 2 \in 0 .. 5 /\ 3 \in 0 .. 5 /\ 4 \in 0 .. 5
      /\ 0 + 1 = 1 /\ 1 + 1 = 2 /\ 2 + 1 = 3 /\ 3 + 1 = 4 /\ 4 + 1 = 5
      /\ o(1) <= o(1) /\ o(1) <= o(2) /\ o(1) <= o(3) /\ o(1) <= o(4)
      /\ o(2) <= o(2) /\ o(2) <= o(3) /\ o(2) <= o(4)
      /\ o(3) <= o(3) /\ o(3) <= o(4) /\ o(4) <= o(4)
  BY <1>3, <1>4 DEF o
<1>10. Says(d2, 1) /\ Reads(d2, 0, t.latitude)
  BY <1>2, <1>7, <1>8, <1>9, Zenon
<1>11. Says(d3, 2) /\ Reads(d3, 0, t.latitude) /\ Reads(d3, 1, t.longitude)
  <2> HIDE DEF d2
  <2> QED
    BY <1>2, <1>7, <1>10, <1>9, Zenon
<1>12. Says(d4, 3) /\ Reads(d4, 0, t.latitude) /\ Reads(d4, 1, t.longitude) /\ Reads(d4, 2, t.altitude)
  <2> HIDE DEF d3
  <2> QED
    BY <1>2, <1>7, <1>11, <1>9, Zenon
<1>13. /\ Says(d5, 4) /\ Reads(d5, 0, t.latitude) /\ Reads(d5, 1, t.longitude)
       /\ Reads(d5, 2, t.altitude) /\ Reads(d5, 3, t.speed)
  <2> HIDE DEF d4
  <2> QED
    BY <1>2, <1>7, <1>12, <1>9, Zenon
<1>14. /\ Says(d6, 5) /\ Reads(d6, 0, t.latitude) /\ Reads(d6, 1, t.longitude)
       /\ Reads(d6, 2, t.altitude) /\ Reads(d6, 3, t.speed) /\ Reads(d6, 4, t.timestamp)
  <2> HIDE DEF d5
  <2> QED
    BY <1>2, <1>7, <1>13, <1>9, Zenon
<1> HIDE DEF d6
<1>15. /\ d6 \in Seq(Byte) /\ Len(d6) = o(5) /\ Uint16At(d6, 0) = l /\ SubSeq(d6, 3, o(0)) = id
  <2>1. d6 \in Seq(Byte) /\ Len(d6) = o(5) /\ 256 * d6[1] + d6[2] = l /\ SubSeq(d6, 2 + 1, o(0)) = id
    BY <1>14, Zenon DEF Says
  <2> QED
    BY <2>1 DEF Uint16At
<1>16. \A k \in 0 .. 5 : FieldOffset(d6, k) = o(k)
  BY <1>15, Zenon DEF FieldOffset, o
<1>17. ASSUME NEW k \in 0 .. 4, NEW f, Reads(d6, k, f)
       PROVE  ReadField(d6, k) = f
  <2>1. k \in 0 .. 5
    OBVIOUS
  <2> QED
    BY <1>6, <1>16, <1>17, <2>1, Zenon DEF Reads, ReadField
<1>18. /\ 0 \in 0 .. 4 /\ 1 \in 0 .. 4 /\ 2 \in 0 .. 4 /\ 3 \in 0 .. 4 /\ 4 \in 0 .. 4
       /\ 0 \in 0 .. 5 /\ 5 \in 0 .. 5
  OBVIOUS
<1>19. /\ ReadField(d6, 0) = t.latitude /\ ReadField(d6, 1) = t.longitude /\ ReadField(d6, 2) = t.altitude
       /\ ReadField(d6, 3) = t.speed /\ ReadField(d6, 4) = t.timestamp
  BY <1>14, <1>17, <1>18, Zenon
<1>20. SubSeq(d6, 3, FieldOffset(d6, 0)) = id
  BY <1>15, <1>16, <1>18, Zenon
<1>21. Fields(d6) = t
  BY <1>2, <1>19, <1>20, Zenon DEF Fields
<1>22. ~Truncated(d6) /\ Len(d6) \in 1 .. MAX_PAYLOAD_SIZE
  <2>1. /\ o(0) = 2 + l /\ o(5) = 2 + l + 5 * FIELD_SIZE
        /\ FieldOffset(d6, 0) = o(0) /\ FieldOffset(d6, 5) = o(5) /\ Len(d6) = o(5)
    BY <1>6, <1>15, <1>16, <1>18, Zenon DEF o
  <2> QED
    BY <1>2, <1>3, <1>4, <2>1 DEF Truncated
<1> QED
  BY <1>1, <1>15, <1>21, <1>22, Zenon DEF deserialize_payload

\* compute_crc16 returns a uint16_t.
CrcIsUint16 == \A s \in Seq(Byte) : compute_crc16(s) \in Uint16

LEMMA PayloadFits ==
  ASSUME NEW n \in Nat, n <= MAX_PAYLOAD_SIZE
  PROVE  n \in Uint16 /\ PACKET_HEADER \in Uint16
<1>1. MAX_PAYLOAD_SIZE \in Nat /\ MAX_PAYLOAD_SIZE <= 65535
  BY PacketAssumption DEF Uint16
<1>2. n \in Uint16 /\ n \in Nat
  BY <1>1 DEF Uint16
<1>3. PACKET_HEADER \in Uint16
  BY DEF Uint16, PACKET_HEADER
<1> QED
  BY <1>2, <1>3

LEMMA PacketEnd ==
  ASSUME NEW a \in Nat, NEW n \in Nat, NEW b, b = a + (n + 6), NEW m, m = n + 6
  PROVE  a + 4 + n <= b /\ a + m = b /\ a < b
  OBVIOUS

\* A built packet is a packet, and its payload is the telemetry's.
LEMMA PacketReads ==
  ASSUME CrcIsUint16, NEW t \in Sendable, NEW w, w = build_packet(t)
  PROVE  LET d == serialize_payload(t) IN
           /\ w \in Seq(Byte) /\ Len(w) = Len(d) + 6 /\ Len(d) \in Nat
           /\ PacketAt(w, 0) /\ LengthAt(w, 0) = Len(d) /\ PayloadAt(w, 0, Len(d)) = d
<1> DEFINE d == serialize_payload(t)
           n == Len(d)
           h == Packed(PACKET_HEADER)
           g == Packed(n)
           hg == h \o g
           raw == hg \o d
           c == Packed(compute_crc16(raw))
<1>1. d \in Seq(Byte) /\ n \in 1 .. MAX_PAYLOAD_SIZE
  BY PayloadReads, Zenon
<1>2. w = raw \o c
  BY Zenon DEF build_packet
<1> HIDE DEF d
<1>3. n \in Nat /\ n # 0 /\ n <= MAX_PAYLOAD_SIZE
  BY <1>1, LongestPacket
<1> HIDE DEF n
<1>4. n \in Uint16 /\ PACKET_HEADER \in Uint16
  BY <1>3, PayloadFits, Zenon
<1>5. h \in Seq(Byte) /\ Len(h) = 2 /\ Uint16At(h, 0) = PACKET_HEADER
  <2>1. h \in Seq(Byte) /\ Len(h) = 2 /\ 256 * h[1] + h[2] = PACKET_HEADER
    BY <1>4, PackedReads, Zenon
  <2> HIDE DEF h
  <2> QED
    BY <2>1 DEF Uint16At
<1>6. g \in Seq(Byte) /\ Len(g) = 2 /\ 256 * g[1] + g[2] = n
  BY <1>4, PackedReads, Zenon
<1> HIDE DEF h, g
<1>7. /\ hg \in Seq(Byte) /\ Len(hg) = 4 /\ Uint16At(hg, 0) = PACKET_HEADER /\ Uint16At(hg, 2) = n
  <2>1. /\ hg \in Seq(Byte) /\ Len(hg) = Len(h) + Len(g)
        /\ \A i \in 1 .. Len(g) : hg[Len(h) + i] = g[i]
        /\ \A p \in Nat : p + 2 <= Len(h) => Uint16At(hg, p) = Uint16At(h, p)
    BY <1>5, <1>6, Parts, PrefixReads, Zenon
  <2> HIDE DEF hg
  <2>2. Uint16At(hg, 0) = PACKET_HEADER /\ Len(hg) = 4
    BY <1>5, <1>6, <2>1
  <2>3. hg[2 + 1] = g[1] /\ hg[2 + 2] = g[2]
    BY <1>5, <1>6, <2>1
  <2>4. Uint16At(hg, 2) = n
    BY <1>6, <2>3, Zenon DEF Uint16At
  <2> QED
    BY <2>1, <2>2, <2>4
<1> HIDE DEF hg
<1>8. /\ raw \in Seq(Byte) /\ Len(raw) = 4 + n /\ Uint16At(raw, 0) = PACKET_HEADER /\ Uint16At(raw, 2) = n
      /\ SubSeq(raw, 5, 4 + n) = d
  <2>1. /\ raw \in Seq(Byte) /\ Len(raw) = Len(hg) + Len(d)
        /\ SubSeq(raw, Len(hg) + 1, Len(hg) + Len(d)) = d
        /\ \A p \in Nat : p + 2 <= Len(hg) => Uint16At(raw, p) = Uint16At(hg, p)
    BY <1>1, <1>7, Parts, PrefixReads, Zenon
  <2> HIDE DEF raw
  <2>2. Uint16At(raw, 0) = PACKET_HEADER /\ Uint16At(raw, 2) = n
    BY <1>7, <2>1
  <2>3. Len(raw) = 4 + n /\ SubSeq(raw, 4 + 1, 4 + n) = d
    BY <1>7, <2>1, Zenon DEF n
  <2>4. 4 + 1 = 5
    OBVIOUS
  <2> QED
    BY <2>1, <2>2, <2>3, <2>4, Zenon
<1>9. compute_crc16(raw) \in Uint16
  BY <1>8, Zenon DEF CrcIsUint16
<1>10. c \in Seq(Byte) /\ Len(c) = 2 /\ 256 * c[1] + c[2] = compute_crc16(raw)
  BY <1>9, PackedReads, Zenon
<1> HIDE DEF c, raw
<1>11. /\ w \in Seq(Byte) /\ Len(w) = Len(raw) + Len(c)
       /\ \A i \in 1 .. Len(c) : w[Len(raw) + i] = c[i]
       /\ \A p \in Nat : p + 2 <= Len(raw) => Uint16At(w, p) = Uint16At(raw, p)
       /\ \A p, q \in Nat : q <= Len(raw) => SubSeq(w, p + 1, q) = SubSeq(raw, p + 1, q)
  <2> DEFINE z == raw \o c
  <2>1. /\ z \in Seq(Byte) /\ Len(z) = Len(raw) + Len(c)
        /\ \A i \in 1 .. Len(c) : z[Len(raw) + i] = c[i]
        /\ \A p, q \in Nat : q <= Len(raw) => SubSeq(z, p + 1, q) = SubSeq(raw, p + 1, q)
    BY <1>8, <1>10, Parts, Zenon
  <2>2. \A p \in Nat : p + 2 <= Len(raw) => Uint16At(z, p) = Uint16At(raw, p)
    BY <1>8, <1>10, PrefixReads, Zenon
  <2>3. w = z
    BY <1>2
  <2> HIDE DEF z
  <2> QED
    BY <2>1, <2>2, <2>3, Zenon
<1>12. Uint16At(w, 0) = PACKET_HEADER /\ Uint16At(w, 2) = n /\ Len(w) = n + 6
  <2>1. Len(w) = 4 + n + 2 /\ Len(raw) = 4 + n
    BY <1>8, <1>10, <1>11, Zenon
  <2>2. Len(w) = n + 6 /\ 0 \in Nat /\ 2 \in Nat /\ 0 + 2 <= Len(raw) /\ 2 + 2 <= Len(raw)
    BY <1>3, <2>1
  <2> QED
    BY <1>8, <1>11, <2>2, Zenon
<1>13. /\ SubSeq(w, 5, 4 + n) = d
       /\ SubSeq(w, 1, 4 + n) = raw
  <2>1. /\ 4 \in Nat /\ 4 + n \in Nat /\ 4 + n <= Len(raw) /\ 4 + 1 = 5 /\ 0 \in Nat /\ 0 + 1 = 1
    BY <1>3, <1>8
  <2>2. SubSeq(w, 4 + 1, 4 + n) = SubSeq(raw, 4 + 1, 4 + n) /\ SubSeq(w, 0 + 1, 4 + n) = SubSeq(raw, 0 + 1, 4 + n)
    BY <1>11, <2>1, Zenon
  <2>3. SubSeq(raw, 1, Len(raw)) = raw
    BY <1>8
  <2> QED
    BY <1>8, <2>1, <2>2, <2>3, Zenon
<1>14. Uint16At(w, 4 + n) = compute_crc16(raw)
  <2>1. 1 \in 1 .. Len(c) /\ 2 \in 1 .. Len(c)
    BY <1>10
  <2>2. w[4 + n + 1] = c[1] /\ w[4 + n + 2] = c[2]
    BY <1>8, <1>11, <2>1, Zenon
  <2> QED
    BY <1>10, <2>2, Zenon DEF Uint16At
<1>15. /\ 0 + 2 + 2 <= Len(w) /\ 2 + 2 + n = 4 + n /\ 0 + (2 + 2 + n) = 4 + n /\ 0 + 1 = 1 /\ 0 + 2 = 2
       /\ 0 + 2 + 2 + 1 = 5 /\ 0 + 2 + 2 + n = 4 + n /\ 0 + PacketSize(n) <= Len(w)
  <2>1. PacketSize(n) = n + 6
    BY <1>3, PacketSizeNat, Zenon
  <2> QED
    BY <1>3, <1>12, <2>1
<1>16. LengthAt(w, 0) = n /\ PayloadAt(w, 0, n) = d
  BY <1>12, <1>13, <1>15, Zenon DEF LengthAt, PayloadAt, HEADER_SIZE, LENGTH_SIZE
<1>17. HeaderAt(w, 0) /\ GoodLength(n)
  BY <1>3, <1>12, Zenon DEF HeaderAt, GoodLength
<1>18. CrcMatchesAt(w, 0, n)
  BY <1>13, <1>14, <1>15, Zenon DEF CrcMatchesAt, HEADER_SIZE, LENGTH_SIZE
<1>19. PacketAt(w, 0)
  BY <1>15, <1>16, <1>17, <1>18, Zenon DEF PacketAt, HEADER_SIZE, LENGTH_SIZE
<1> QED
  BY <1>3, <1>11, <1>12, <1>16, <1>19 DEF d, n

\* The same at an offset of a longer string.
LEMMA PlacedReads ==
  ASSUME CrcIsUint16, NEW t \in Sendable, NEW s \in Seq(Byte),
         NEW b \in 0 .. Len(s), NEW a \in 0 .. b, b = a + Len(build_packet(t)),
         SubSeq(s, a + 1, b) = build_packet(t)
  PROVE  /\ PacketAt(s, a) /\ a + PacketSize(LengthAt(s, a)) = b /\ a < b
         /\ deserialize_payload(PayloadAt(s, a, LengthAt(s, a))) = <<t>>
<1> DEFINE w == build_packet(t)
           d == serialize_payload(t)
           u == SubSeq(s, 1, b)
           n == Len(d)
<1>1. /\ w \in Seq(Byte) /\ Len(w) = n + 6 /\ n \in Nat
      /\ PacketAt(w, 0) /\ LengthAt(w, 0) = n /\ PayloadAt(w, 0, n) = d
  BY PacketReads, Zenon
<1>2. deserialize_payload(d) = <<t>>
  BY PayloadReads, Zenon
<1>3. b = a + Len(w) /\ SubSeq(s, a + 1, b) = w
  OBVIOUS
<1> HIDE DEF w, d, n
<1>4. /\ u \in Seq(Byte) /\ Len(u) = b
      /\ PacketAt(u, a) => PacketAt(s, a) /\ LengthAt(s, a) = LengthAt(u, a)
  <2>1. a \in Nat
    OBVIOUS
  <2> QED
    BY <2>1, PrefixVerdicts, Zenon
<1>5. SubSeq(u, a + 1, b) = w
  <2>1. SubSeq(u, a + 1, b) = SubSeq(s, a + 1, b)
    OBVIOUS
  <2> QED
    BY <1>3, <2>1
<1> HIDE DEF u
<1>6. RestOf(w, u, a) /\ a \in Nat
  <2>1. a \in 0 .. Len(u) /\ a \in Nat
    BY <1>4
  <2> QED
    BY <1>4, <1>5, <2>1, RestReads, Zenon
<1>7. PacketAt(u, a) /\ LengthAt(u, a) = n
  BY <1>1, <1>6, FrontVerdict, Zenon
<1>8. PacketAt(s, a) /\ LengthAt(s, a) = n
  BY <1>4, <1>7, Zenon
<1>9. a + 4 + n <= b /\ a + PacketSize(n) = b /\ a < b
  <2>1. PacketSize(n) = n + 6
    BY <1>1, PacketSizeNat, Zenon
  <2>2. n \in Nat /\ a \in Nat /\ b = a + (n + 6)
    BY <1>1, <1>3, <1>6, Zenon
  <2> QED
    BY <2>1, <2>2, PacketEnd, Zenon
<1>10. PayloadAt(s, a, n) = d
  <2>1. PayloadAt(SubSeq(SubSeq(s, 1, b), a + 1, b), 0, n) = PayloadAt(s, a, n)
    BY <1>1, <1>9, PrefixPayload, Zenon
  <2> QED
    BY <1>1, <1>5, <2>1, Zenon DEF u
<1> QED
  BY <1>2, <1>8, <1>9, <1>10, Zenon

\* A suffix is its first element and the next suffix.
LEMMA SuffixStep ==
  ASSUME NEW V, NEW q \in Seq(V), NEW i \in 1 .. Len(q)
  PROVE  <<q[i]>> \o SubSeq(q, i + 1, Len(q)) = SubSeq(q, i, Len(q))
<1> DEFINE x == SubSeq(q, i + 1, Len(q))
           y == <<q[i]>> \o x
           z == SubSeq(q, i, Len(q))
           n == Len(q)
<1>1. /\ x \in Seq(V) /\ Len(x) = n - i /\ \A j \in 1 .. n - i : x[j] = q[i + j]
      /\ z \in Seq(V) /\ Len(z) = n - i + 1 /\ \A j \in 1 .. n - i + 1 : z[j] = q[i + j - 1]
      /\ q[i] \in V /\ n \in Nat
  OBVIOUS
<1> HIDE DEF x, z, n
<1>2. /\ y \in Seq(V) /\ Len(y) = n - i + 1
      /\ y[1] = q[i] /\ \A j \in 2 .. n - i + 1 : y[j] = x[j - 1]
  <2>1. PICK v \in V : v = q[i]
    BY <1>1
  <2>2. PICK m \in Nat : m = n - i
    BY <1>1
  <2>3. /\ <<v>> \o x \in Seq(V) /\ Len(<<v>> \o x) = 1 + Len(x)
        /\ (<<v>> \o x)[1] = v /\ \A j \in 1 .. Len(x) : (<<v>> \o x)[j + 1] = x[j]
    BY <1>1
  <2>4. y \in Seq(V) /\ y[1] = q[i] /\ Len(y) = 1 + m /\ \A j \in 1 .. m : y[j + 1] = x[j]
    BY <1>1, <2>1, <2>2, <2>3, Zenon
  <2> HIDE DEF y
  <2>5. ASSUME NEW j \in 2 .. m + 1 PROVE y[j] = x[j - 1]
    <3>1. j - 1 \in 1 .. m /\ j - 1 + 1 = j
      OBVIOUS
    <3> QED
      BY <2>4, <3>1, Zenon
  <2>6. 1 + m = m + 1
    OBVIOUS
  <2> QED
    BY <2>2, <2>4, <2>5, <2>6, Zenon
<1> HIDE DEF y
<1>3. ASSUME NEW j \in 1 .. n - i + 1 PROVE y[j] = z[j]
  <2>1. CASE j = 1
    <3>1. z[1] = q[i + 1 - 1] /\ i + 1 - 1 = i
      BY <1>1, <2>1
    <3> QED
      BY <1>2, <2>1, <3>1
  <2>2. CASE j # 1
    <3>1. j \in 2 .. n - i + 1 /\ j - 1 \in 1 .. n - i /\ i + (j - 1) = i + j - 1
      BY <1>1, <2>2
    <3> QED
      BY <1>1, <1>2, <3>1, Zenon
  <2> QED
    BY <2>1, <2>2
<1>4. y = z
  BY <1>1, <1>2, <1>3, SeqEqual
<1> QED
  BY <1>4 DEF x, y, z, n

\* What the parser makes of a stream is the telemetry the stream was built from:
\* a header inside a payload, a float or an id never misleads the reader of
\* packets that follow each other.
THEOREM RoundTrip ==
  ASSUME CrcIsUint16, NEW s \in Seq(Byte), NEW ts \in Seq(Sendable), IsStreamOf(s, ts)
  PROVE  TelemetryIn(s) = ts
<1> DEFINE N == Len(ts)
           e == Readings(s)
           C == Collected(s, e)
<1>1. PICK o \in [0 .. Len(ts) -> 0 .. Len(s)] :
        /\ o[0] = 0 /\ o[Len(ts)] = Len(s)
        /\ \A i \in 1 .. Len(ts) : /\ o[i] = o[i - 1] + Len(build_packet(ts[i]))
                                   /\ SubSeq(s, o[i - 1] + 1, o[i]) = build_packet(ts[i])
  BY Zenon DEF IsStreamOf
<1>2. N \in Nat /\ Len(s) \in Nat
  OBVIOUS
<1>3. ASSUME NEW i \in 1 .. N
      PROVE  C[o[i - 1]] = <<ts[i]>> \o C[o[i]]
  <2>1. ts[i] \in Sendable /\ i \in 0 .. N /\ i - 1 \in 0 .. N
    BY <1>2
  <2>2. o[i] \in 0 .. Len(s) /\ o[i - 1] \in 0 .. Len(s)
    BY <2>1, Zenon
  <2>3. PICK a \in 0 .. Len(s), b \in 0 .. Len(s), t \in Sendable : a = o[i - 1] /\ b = o[i] /\ t = ts[i]
    BY <2>1, <2>2, Zenon
  <2>4. b = a + Len(build_packet(t)) /\ SubSeq(s, a + 1, b) = build_packet(t)
    BY <1>1, <2>3, Zenon
  <2>5. Len(build_packet(t)) \in Nat
    <3>1. /\ build_packet(t) \in Seq(Byte)
      BY PacketReads, Zenon
    <3> QED
      BY <3>1
  <2>6. a \in 0 .. b
    BY <2>4, <2>5
  <2>7. /\ PacketAt(s, a) /\ a + PacketSize(LengthAt(s, a)) = b
        /\ deserialize_payload(PayloadAt(s, a, LengthAt(s, a))) = <<t>>
    BY <2>4, <2>6, PlacedReads, Zenon
  <2>8. a \in Starts(s)
    BY <2>7, Zenon DEF Starts
  <2>9. e[a] = <<t>>
    BY <2>7, <2>8, Zenon DEF Readings
  <2>10. C[a] = Found(s, e, C, a)
    BY CollectedReads, Zenon
  <2>11. Found(s, e, C, a) = e[a] \o C[b]
    BY <2>7, Zenon DEF Found
  <2> QED
    BY <2>3, <2>9, <2>10, <2>11, Zenon
<1>4. C[o[N]] = << >>
  <2>1. Len(s) \in 0 .. Len(s)
    BY <1>2
  <2>2. C[Len(s)] = Found(s, e, C, Len(s))
    BY <2>1, CollectedReads, Zenon
  <2>3. Len(s) + 1 .. Len(s) = {}
    BY <1>2
  <2>4. ~PacketAt(s, Len(s)) /\ ~NoPacketAt(s, Len(s))
    BY <1>2, <2>3, ReaderMoves, Zenon
  <2> QED
    BY <1>1, <2>2, <2>4, Zenon DEF Found
<1> HIDE DEF C
<1> DEFINE S == {k \in Nat : k <= N => C[o[N - k]] = SubSeq(ts, N - k + 1, N)}
<1>5. 0 \in S
  <2>1. SubSeq(ts, N - 0 + 1, N) = << >> /\ N - 0 = N
    BY <1>2
  <2> QED
    BY <1>4, <2>1
<1>6. ASSUME NEW k \in Nat, k \in S PROVE k + 1 \in S
  <2> SUFFICES ASSUME k + 1 <= N PROVE C[o[N - (k + 1)]] = SubSeq(ts, N - (k + 1) + 1, N)
    OBVIOUS
  <2>1. PICK i \in 1 .. N : i = N - k /\ N - (k + 1) = i - 1 /\ i - 1 + 1 = i /\ k <= N
    <3>1. N - k \in 1 .. N /\ N - (k + 1) = (N - k) - 1 /\ (N - k) - 1 + 1 = N - k /\ k <= N
      BY <1>2
    <3> QED
      BY <3>1, Zenon
  <2>2. C[o[i]] = SubSeq(ts, i + 1, N)
    BY <1>6, <2>1
  <2>3. C[o[i - 1]] = <<ts[i]>> \o SubSeq(ts, i + 1, N)
    BY <1>3, <2>2, Zenon
  <2>4. C[o[i - 1]] = SubSeq(ts, i, N)
    BY <2>3, SuffixStep, Zenon
  <2> QED
    BY <2>1, <2>4, Zenon
<1>7. N \in S
  <2> HIDE DEF S
  <2>1. Nat \subseteq S
    BY <1>5, <1>6, Induction, Zenon
  <2> QED
    BY <1>2, <2>1, Zenon
<1>8. C[o[0]] = SubSeq(ts, 1, N)
  <2>1. N - N = 0 /\ 0 + 1 = 1 /\ N <= N
    BY <1>2
  <2> QED
    BY <1>7, <2>1, Zenon
<1>9. SubSeq(ts, 1, N) = ts
  OBVIOUS
<1> QED
  BY <1>1, <1>8, <1>9, Zenon DEF TelemetryIn, C

\* The telemetry of drones that send what build_packet builds arrives: in a ring
\* with room for every chunk, the output queue hands over each connection's
\* telemetry in the order in which its drone sent it, and nothing is missing
\* once the connection has ended and the queues are empty.
THEOREM BuiltPacketsAreDelivered ==
  ASSUME Capacity >= RECV_BUF_SIZE + PacketSize(MAX_PAYLOAD_SIZE) - 1, CrcIsUint16,
         \A peer \in Peers : peer.packets \in Seq(Sendable) /\ IsStreamOf(peer.stream, peer.packets)
  PROVE  Spec => []DeliversWhatWasSent
<1>1. ASSUME NEW peer \in Peers PROVE peer.packets = TelemetryIn(peer.stream)
  <2>1. peer.stream \in Seq(Byte)
    BY ParserAssumption, Zenon
  <2>2. peer.packets \in Seq(Sendable) /\ IsStreamOf(peer.stream, peer.packets)
    OBVIOUS
  <2>3. TelemetryIn(peer.stream) = peer.packets
    BY <2>1, <2>2, RoundTrip, Zenon
  <2> QED
    BY <2>3
<1>2. SentIsRead
  BY <1>1, Zenon DEF SentIsRead
<1> QED
  BY <1>2, TelemetryIsDelivered
=============================================================================
