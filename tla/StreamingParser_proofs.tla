----------------------- MODULE StreamingParser_proofs -----------------------
(***************************************************************************)
(* Proofs about StreamingParser for every set of drones and streams, every *)
(* cut of the streams into chunks, every checksum function, and every      *)
(* payload limit, field size, chunk size and ring capacity.                *)
(***************************************************************************)
EXTENDS StreamingParser, SequenceLemmas, SequenceTheorems, TLAPS

-----------------------------------------------------------------------------
(* The wire format.                                                        *)

\* Two bytes make a number of 16 bits.
LEMMA TwoBytes ==
  ASSUME NEW x \in Byte, NEW y \in Byte
  PROVE  256 * x + y \in Uint16
  BY DEF Byte, Uint16

LEMMA Uint16Range ==
  ASSUME NEW s \in Seq(Byte), NEW p \in Nat, p + 2 <= Len(s)
  PROVE  Uint16At(s, p) \in Uint16
<1>1. p + 1 \in 1 .. Len(s) /\ p + 2 \in 1 .. Len(s)
  OBVIOUS
<1>2. s[p + 1] \in Byte /\ s[p + 2] \in Byte
  BY <1>1, ElementOfSeq
<1>3. PICK x \in Byte, y \in Byte : x = s[p + 1] /\ y = s[p + 2]
  BY <1>2, Zenon
<1>4. Uint16At(s, p) = 256 * x + y
  BY <1>3 DEF Uint16At
<1>5. 256 * x + y \in Uint16
  BY TwoBytes
<1> QED
  BY <1>4, <1>5

LEMMA PacketSizeNat ==
  ASSUME NEW n \in Nat
  PROVE  PacketSize(n) \in Nat /\ PacketSize(n) = n + 6
  BY DEF PacketSize, HEADER_SIZE, LENGTH_SIZE, CRC_SIZE

LEMMA LongestPacket ==
  /\ MAX_PAYLOAD_SIZE \in Nat
  /\ PacketSize(MAX_PAYLOAD_SIZE) = MAX_PAYLOAD_SIZE + 6
  /\ PacketSize(MAX_PAYLOAD_SIZE) \in Nat
<1>1. Uint16 \subseteq Nat
  BY DEF Uint16
<1>2. MAX_PAYLOAD_SIZE \in Nat
  BY <1>1, PacketAssumption, Zenon
<1> QED
  BY <1>2, PacketSizeNat, Zenon

\* r reads like the rest of s from offset a on.
RestOf(r, s, a) ==
  /\ r \in Seq(Byte) /\ Len(r) \in Nat /\ Len(s) = a + Len(r)
  /\ \A p \in Nat : p + 2 <= Len(r) => Uint16At(r, p) = Uint16At(s, a + p)
  /\ \A n \in 0 .. Len(r) : SubSeq(r, 1, n) = SubSeq(s, a + 1, a + n)

LEMMA TwoIndices ==
  ASSUME NEW p \in Nat, NEW a \in Nat, NEW L \in Nat, p + 2 <= L
  PROVE  /\ p + 1 \in 1 .. L /\ a + (p + 1) = (a + p) + 1
         /\ p + 2 \in 1 .. L /\ a + (p + 2) = (a + p) + 2
  OBVIOUS

LEMMA RestReads ==
  ASSUME NEW s \in Seq(Byte), NEW a \in 0 .. Len(s), NEW r,
         r = SubSeq(s, a + 1, Len(s))
  PROVE  /\ RestOf(r, s, a)
         /\ \A n \in 0 .. Len(r) : SubSeq(r, n + 1, Len(r)) = SubSeq(s, (a + n) + 1, Len(s))
<1>1. r \in Seq(Byte) /\ Len(r) = Len(s) - a /\ \A i \in 1 .. Len(r) : r[i] = s[a + i]
  OBVIOUS
<1>2. ASSUME NEW p \in Nat, p + 2 <= Len(r)
      PROVE  Uint16At(r, p) = Uint16At(s, a + p)
  <2>0. /\ p + 1 \in 1 .. Len(r) /\ a + (p + 1) = (a + p) + 1
        /\ p + 2 \in 1 .. Len(r) /\ a + (p + 2) = (a + p) + 2
    <3>1. Len(r) \in Nat /\ a \in Nat
      BY <1>1
    <3> QED
      BY <1>2, <3>1, TwoIndices, Zenon
  <2>1. r[p + 1] = s[(a + p) + 1] /\ r[p + 2] = s[(a + p) + 2]
    BY <1>1, <2>0, Zenon
  <2> QED
    BY <2>1 DEF Uint16At
<1>3. ASSUME NEW n \in 0 .. Len(r)
      PROVE  SubSeq(r, 1, n) = SubSeq(s, a + 1, a + n)
  <2>1. SubSeq(r, 1, n) = [i \in 1 .. n |-> r[i]]
    BY <1>1
  <2>2. SubSeq(s, a + 1, a + n) = [i \in 1 .. n |-> s[a + i]]
    BY <1>1
  <2>3. \A i \in 1 .. n : r[i] = s[a + i]
    BY <1>1
  <2> QED
    BY <2>1, <2>2, <2>3, Zenon
<1>4. ASSUME NEW n \in 0 .. Len(r)
      PROVE  SubSeq(r, n + 1, Len(r)) = SubSeq(s, (a + n) + 1, Len(s))
  BY <1>1
<1> QED
  BY <1>1, <1>2, <1>3, <1>4 DEF RestOf

\* Reads inside s are not changed by what follows it.
LEMMA PrefixReads ==
  ASSUME NEW s \in Seq(Byte), NEW t \in Seq(Byte)
  PROVE  /\ s \o t \in Seq(Byte) /\ Len(s \o t) = Len(s) + Len(t)
         /\ \A p \in Nat : p + 2 <= Len(s) => Uint16At(s \o t, p) = Uint16At(s, p)
         /\ \A p, q \in Nat : q <= Len(s) => SubSeq(s \o t, p + 1, q) = SubSeq(s, p + 1, q)
<1>1. /\ s \o t \in Seq(Byte) /\ Len(s \o t) = Len(s) + Len(t)
      /\ \A i \in 1 .. Len(s) : (s \o t)[i] = s[i]
  OBVIOUS
<1>2. ASSUME NEW p \in Nat, p + 2 <= Len(s)
      PROVE  Uint16At(s \o t, p) = Uint16At(s, p)
  BY <1>1, <1>2 DEF Uint16At
<1>3. ASSUME NEW p \in Nat, NEW q \in Nat, q <= Len(s)
      PROVE  SubSeq(s \o t, p + 1, q) = SubSeq(s, p + 1, q)
  BY <1>1, <1>3
<1> QED
  BY <1>1, <1>2, <1>3

\* A verdict on an offset stands whatever bytes follow.
LEMMA VerdictsStand ==
  ASSUME NEW s \in Seq(Byte), NEW t \in Seq(Byte), NEW p \in Nat
  PROVE  /\ NoPacketAt(s, p) => NoPacketAt(s \o t, p)
         /\ PacketAt(s, p) => PacketAt(s \o t, p) /\ LengthAt(s \o t, p) = LengthAt(s, p)
<1> USE DEF HEADER_SIZE, LENGTH_SIZE
<1>1. /\ Len(s) \in Nat /\ Len(s \o t) >= Len(s) /\ Len(s \o t) \in Nat
      /\ \A q \in Nat : q + 2 <= Len(s) => Uint16At(s \o t, q) = Uint16At(s, q)
      /\ \A q, k \in Nat : k <= Len(s) => SubSeq(s \o t, q + 1, k) = SubSeq(s, q + 1, k)
  BY PrefixReads
<1>2. p + 2 <= Len(s) => (HeaderAt(s \o t, p) <=> HeaderAt(s, p))
  BY <1>1 DEF HeaderAt
<1>3. p + 4 <= Len(s) => LengthAt(s \o t, p) = LengthAt(s, p) /\ LengthAt(s, p) \in Nat
  <2> SUFFICES ASSUME p + 4 <= Len(s)
               PROVE  LengthAt(s \o t, p) = LengthAt(s, p) /\ LengthAt(s, p) \in Nat
    OBVIOUS
  <2>1. p + 2 \in Nat /\ (p + 2) + 2 <= Len(s)
    BY <1>1
  <2>2. Uint16At(s, p + 2) \in Uint16
    BY <2>1, Uint16Range, Zenon
  <2>3. Uint16At(s \o t, p + 2) = Uint16At(s, p + 2)
    BY <1>1, <2>1
  <2>4. Uint16 \subseteq Nat
    BY DEF Uint16
  <2> QED
    BY <2>2, <2>3, <2>4, Zenon DEF LengthAt
<1>4. ASSUME NEW n \in Nat, p + PacketSize(n) <= Len(s)
      PROVE  CrcMatchesAt(s \o t, p, n) <=> CrcMatchesAt(s, p, n)
  <2>1. PICK k \in Nat : k = 2 + 2 + n /\ p + k \in Nat /\ (p + k) + 2 <= Len(s)
    BY <1>1, <1>4, PacketSizeNat
  <2>2. /\ Uint16At(s \o t, p + k) = Uint16At(s, p + k)
        /\ SubSeq(s \o t, p + 1, p + k) = SubSeq(s, p + 1, p + k)
    BY <1>1, <2>1
  <2> QED
    BY <2>1, <2>2, Zenon DEF CrcMatchesAt
<1>5. p + 4 <= Len(s) => PacketSize(LengthAt(s, p)) \in Nat
  BY <1>3, PacketSizeNat
<1>6. NoPacketAt(s, p) => NoPacketAt(s \o t, p)
  BY <1>1, <1>2, <1>3, <1>4, <1>5 DEF NoPacketAt
<1>7. PacketAt(s, p) => PacketAt(s \o t, p) /\ LengthAt(s \o t, p) = LengthAt(s, p)
  BY <1>1, <1>2, <1>3, <1>4, <1>5 DEF PacketAt
<1> QED
  BY <1>6, <1>7

\* What the front of the ring shows is what the stream shows at the offset that
\* has been reached.
LEMMA FrontIsOffset ==
  ASSUME NEW s, NEW a \in Nat, NEW r, RestOf(r, s, a)
  PROVE  /\ Len(r) >= 2 => (HeaderAt(r, 0) <=> HeaderAt(s, a))
         /\ Len(r) >= 4 => LengthAt(r, 0) = LengthAt(s, a) /\ LengthAt(r, 0) \in Uint16
         /\ \A n \in Nat : Len(r) >= PacketSize(n) =>
              (CrcMatchesAt(r, 0, n) <=> CrcMatchesAt(s, a, n))
<1> USE DEF HEADER_SIZE, LENGTH_SIZE
<1>1. /\ r \in Seq(Byte) /\ Len(r) \in Nat
      /\ \A p \in Nat : p + 2 <= Len(r) => Uint16At(r, p) = Uint16At(s, a + p)
      /\ \A n \in 0 .. Len(r) : SubSeq(r, 1, n) = SubSeq(s, a + 1, a + n)
  BY Zenon DEF RestOf
<1>2. Len(r) >= 2 => (HeaderAt(r, 0) <=> HeaderAt(s, a))
  <2>1. Len(r) >= 2 => Uint16At(r, 0) = Uint16At(s, a + 0)
    BY <1>1
  <2> QED
    BY <2>1 DEF HeaderAt
<1>3. ASSUME Len(r) >= 4
      PROVE  LengthAt(r, 0) = LengthAt(s, a) /\ LengthAt(r, 0) \in Uint16
  <2>1. LengthAt(r, 0) = Uint16At(r, 2)
    BY DEF LengthAt
  <2>2. Uint16At(r, 2) = Uint16At(s, a + 2)
    BY <1>1, <1>3
  <2>3. 2 \in Nat /\ 2 + 2 <= Len(r)
    BY <1>1, <1>3
  <2>4. Uint16At(r, 2) \in Uint16
    BY <1>1, <2>3, Uint16Range, Zenon
  <2> QED
    BY <2>1, <2>2, <2>4, Zenon DEF LengthAt
<1>4. ASSUME NEW n \in Nat, Len(r) >= PacketSize(n)
      PROVE  CrcMatchesAt(r, 0, n) <=> CrcMatchesAt(s, a, n)
  <2>1. PICK k \in 0 .. Len(r) : k = 2 + 2 + n /\ k + 2 <= Len(r)
    BY <1>1, <1>4, PacketSizeNat
  <2>2. Uint16At(r, k) = Uint16At(s, a + k) /\ SubSeq(r, 1, k) = SubSeq(s, a + 1, a + k)
    BY <1>1, <2>1
  <2>3. /\ CrcMatchesAt(r, 0, n) <=> Uint16At(r, 0 + k) = compute_crc16(SubSeq(r, 0 + 1, 0 + k))
        /\ CrcMatchesAt(s, a, n) <=> Uint16At(s, a + k) = compute_crc16(SubSeq(s, a + 1, a + k))
    BY <2>1, Zenon DEF CrcMatchesAt
  <2>4. 0 + k = k /\ 0 + 1 = 1
    BY <2>1
  <2> QED
    BY <2>2, <2>3, <2>4, Zenon
<1> QED
  BY <1>2, <1>3, <1>4, Zenon

\* A field that ends inside the payload is made of FIELD_SIZE payload bytes.
LEMMA FieldType ==
  ASSUME NEW data \in Seq(Byte), NEW o \in Nat, NEW e \in Nat,
         e = o + FIELD_SIZE, e <= Len(data)
  PROVE  HostOrder(SubSeq(data, o + 1, e)) \in Field
<1> USE PacketAssumption
<1> DEFINE f == SubSeq(data, o + 1, e)
<1>1. f \in Seq(Byte) /\ Len(f) = FIELD_SIZE
  OBVIOUS
<1>2. \A i \in 1 .. FIELD_SIZE : f[FIELD_SIZE + 1 - i] \in Byte
  <2> HIDE DEF f
  <2> TAKE i \in 1 .. FIELD_SIZE
  <2>1. FIELD_SIZE + 1 - i \in 1 .. Len(f)
    BY <1>1
  <2> QED
    BY <1>1, <2>1, ElementOfSeq
<1>3. HostOrder(f) \in Field
  <2> HIDE DEF f
  <2> QED BY <1>1, <1>2 DEF HostOrder, Field
<1> QED
  BY <1>3

LEMMA OffsetSteps ==
  ASSUME NEW u \in Nat, NEW F \in Nat, NEW L \in Nat, 2 + u + 5 * F <= L
  PROVE  /\ 2 + u + 0 * F \in Nat /\ (2 + u + 0 * F) + F <= L
         /\ 2 + u + 1 * F \in Nat /\ (2 + u + 1 * F) + F <= L
         /\ 2 + u + 2 * F \in Nat /\ (2 + u + 2 * F) + F <= L
         /\ 2 + u + 3 * F \in Nat /\ (2 + u + 3 * F) + F <= L
         /\ 2 + u + 4 * F \in Nat /\ (2 + u + 4 * F) + F <= L
  OBVIOUS

\* deserialize_payload reads nothing outside the payload.
LEMMA DeserializeType ==
  ASSUME NEW data \in Seq(Byte)
  PROVE  deserialize_payload(data) \in Seq(Telemetry)
<1>0. Len(data) \in Nat /\ FIELD_SIZE \in Nat
  BY PacketAssumption
<1>1. CASE Truncated(data)
  BY <1>1 DEF deserialize_payload
<1>2. CASE ~Truncated(data)
  <2>0. PICK u \in Nat : u = Uint16At(data, 0)
    <3>1. 0 \in Nat /\ 0 + 2 <= Len(data)
      BY <1>0, <1>2 DEF Truncated
    <3>2. Uint16At(data, 0) \in Uint16
      BY <3>1, Uint16Range, Zenon
    <3>3. Uint16 \subseteq Nat
      BY DEF Uint16
    <3> QED
      BY <3>2, <3>3, Zenon
  <2>1. \A k : FieldOffset(data, k) = 2 + u + k * FIELD_SIZE
    BY <2>0, Zenon DEF FieldOffset
  <2>2. 2 + u + 5 * FIELD_SIZE <= Len(data) /\ 2 + u + 0 * FIELD_SIZE <= Len(data)
    BY <1>0, <1>2, <2>1 DEF Truncated
  <2>3. ASSUME NEW k \in {0, 1, 2, 3, 4}
        PROVE  FieldOffset(data, k) \in Nat /\ FieldOffset(data, k) + FIELD_SIZE <= Len(data)
    BY <1>0, <2>1, <2>2, OffsetSteps
  <2>4. ASSUME NEW k \in {0, 1, 2, 3, 4}
        PROVE  ReadField(data, k) \in Field
    <3>1. PICK o \in Nat, e \in Nat :
             /\ o = FieldOffset(data, k) /\ e = o + FIELD_SIZE /\ e <= Len(data)
      BY <1>0, <2>3
    <3>2. HostOrder(SubSeq(data, o + 1, e)) \in Field
      BY <3>1, FieldType
    <3> QED
      BY <3>1, <3>2, Zenon DEF ReadField
  <2>5. SubSeq(data, 3, FieldOffset(data, 0)) \in Seq(Byte)
    BY <1>0, <2>3
  <2>6. Fields(data) \in Telemetry
    BY <2>4, <2>5 DEF Fields, Telemetry
  <2> QED
    BY <1>2, <2>6 DEF deserialize_payload
<1> QED
  BY <1>1, <1>2

-----------------------------------------------------------------------------
(* Type correctness.                                                       *)

\* What pop found, and what is left of the queue.
LEMMA ChunkType ==
  ASSUME TypeOK, m_raw_queue # << >>
  PROVE  /\ Chunk \in DataChunk /\ Tail(m_raw_queue) \in Seq(DataChunk)
         /\ FoundClient \in ClientState /\ FoundHistory \in History
<1>1. m_raw_queue \in Seq(DataChunk)
  BY DEF TypeOK
<1>2. Chunk \in DataChunk /\ Tail(m_raw_queue) \in Seq(DataChunk)
  BY <1>1, HeadTailProperties DEF Chunk
<1>3. NewClient \in ClientState /\ Fresh \in History
  BY DEF NewClient, ClientState, Uint16, Fresh, History
<1>4. FoundClient \in ClientState
  BY <1>3 DEF TypeOK, FoundClient
<1>5. FoundHistory \in History
  BY <1>3 DEF TypeOK, FoundHistory
<1> QED
  BY <1>2, <1>4, <1>5

\* A step of process_client: what Advance and the update of the history make of
\* the client it works on, the others unchanged.
LEMMA AdvanceType ==
  ASSUME TypeOK, pc = "process", NEW n \in Nat, NEW len \in Uint16,
         NEW st \in {"WAIT_HEADER", "WAIT_LENGTH", "WAIT_PAYLOAD_AND_CRC"},
         Advance(n, st, len)
  PROVE  /\ client \in DOMAIN m_clients
         /\ DOMAIN m_clients' = DOMAIN m_clients
         /\ m_clients' \in [DOMAIN m_clients -> ClientState]
         /\ m_clients'[client] = [state |-> st, ring_buffer |-> SubSeq(Ring, n + 1, Len(Ring)),
                                  payload_length |-> len]
         /\ \A fd \in DOMAIN m_clients \ {client} : m_clients'[fd] = m_clients[fd]
<1>1. client \in DOMAIN m_clients /\ m_clients \in [DOMAIN m_clients -> ClientState]
  BY DEF TypeOK
<1>2. Ring \in Seq(Byte)
  BY <1>1 DEF Ring, ClientState
<1>3. SubSeq(Ring, n + 1, Len(Ring)) \in Seq(Byte)
  BY <1>2
<1>4. [state |-> st, ring_buffer |-> SubSeq(Ring, n + 1, Len(Ring)), payload_length |-> len]
        \in ClientState
  BY <1>3 DEF ClientState
<1> QED
  BY <1>1, <1>4 DEF Advance

\* The steps that change neither the clients nor the history.
LEMMA FrontType ==
  ASSUME TypeOK, pc = "process"
  PROVE  /\ Ring \in Seq(Byte) /\ Len(Ring) \in Nat
         /\ payload_length \in Uint16
         /\ history[client] \in History
         /\ client \in DOMAIN m_clients
  BY DEF TypeOK, Ring, payload_length, ClientState

LEMMA LengthType ==
  ASSUME TypeOK, pc = "process", Len(Ring) >= HEADER_SIZE + LENGTH_SIZE
  PROVE  LengthAt(Ring, 0) \in Uint16
<1>1. Ring \in Seq(Byte) /\ Len(Ring) >= 4
  BY FrontType DEF HEADER_SIZE, LENGTH_SIZE
<1>2. 2 \in Nat /\ 2 + 2 <= Len(Ring) /\ 0 + 2 = 2
  BY <1>1
<1> QED
  BY <1>1, <1>2, Uint16Range, Zenon DEF LengthAt, HEADER_SIZE

-----------------------------------------------------------------------------
(* One client: what pushing, resynchronising and taking a packet preserve. *)

ClientInv(cs, h) ==
  /\ LengthIsFresh(cs)
  /\ HoldsRest(cs, h)
  /\ Accounted(h)
  /\ DisjointPackets(h)

LEMMA HistoryType ==
  ASSUME NEW h \in History
  PROVE  /\ h.pushed \in Seq(Byte) /\ Len(h.pushed) \in Nat /\ h.at \in Nat
         /\ h.taken \in SUBSET [at : Nat, size : Nat]
  BY DEF History

LEMMA FrontVerdict ==
  ASSUME NEW s, NEW a \in Nat, NEW r, RestOf(r, s, a)
  PROVE  /\ NoPacketAt(r, 0) => NoPacketAt(s, a)
         /\ PacketAt(r, 0) => PacketAt(s, a) /\ LengthAt(s, a) = LengthAt(r, 0)
                                            /\ LengthAt(r, 0) \in Nat
<1>1. Len(r) \in Nat /\ Len(s) = a + Len(r)
  BY Zenon DEF RestOf
<1>2. /\ Len(r) >= 2 => (HeaderAt(r, 0) <=> HeaderAt(s, a))
      /\ Len(r) >= 4 => LengthAt(r, 0) = LengthAt(s, a) /\ LengthAt(r, 0) \in Nat
      /\ \A n \in Nat : Len(r) >= PacketSize(n) =>
           (CrcMatchesAt(r, 0, n) <=> CrcMatchesAt(s, a, n))
  <2>1. Uint16 \subseteq Nat
    BY DEF Uint16
  <2> QED
    BY <2>1, FrontIsOffset, Zenon
<1>3. \A n \in Nat : PacketSize(n) \in Nat
  BY PacketSizeNat
<1>a. /\ 0 + 2 <= Len(r) => Len(r) >= 2 /\ a + 2 <= Len(s)
      /\ 0 + 2 + 2 <= Len(r) => Len(r) >= 4 /\ a + 2 + 2 <= Len(s)
      /\ \A k \in Nat : 0 + k <= Len(r) => Len(r) >= k /\ a + k <= Len(s)
  BY <1>1
<1>4. NoPacketAt(r, 0) => NoPacketAt(s, a)
  BY <1>2, <1>3, <1>a, Zenon DEF NoPacketAt, HEADER_SIZE, LENGTH_SIZE
<1>5. PacketAt(r, 0) => PacketAt(s, a) /\ LengthAt(s, a) = LengthAt(r, 0) /\ LengthAt(r, 0) \in Nat
  <2> SUFFICES ASSUME PacketAt(r, 0)
               PROVE  PacketAt(s, a) /\ LengthAt(s, a) = LengthAt(r, 0) /\ LengthAt(r, 0) \in Nat
    OBVIOUS
  <2>1. 0 + 2 + 2 <= Len(r) /\ HeaderAt(r, 0)
    BY DEF PacketAt, HEADER_SIZE, LENGTH_SIZE
  <2>2. PICK n \in Nat : n = LengthAt(r, 0)
    BY <1>2, <1>a, <2>1, Zenon
  <2>3. GoodLength(n) /\ 0 + PacketSize(n) <= Len(r) /\ CrcMatchesAt(r, 0, n)
    BY <2>2, Zenon DEF PacketAt
  <2>4. HeaderAt(s, a) /\ LengthAt(s, a) = n
    BY <1>1, <1>2, <2>1, <2>2
  <2>5. a + PacketSize(n) <= Len(s) /\ CrcMatchesAt(s, a, n)
    BY <1>2, <1>3, <1>a, <2>3, Zenon
  <2> QED
    BY <1>a, <2>1, <2>2, <2>3, <2>4, <2>5, Zenon DEF PacketAt, HEADER_SIZE, LENGTH_SIZE
<1> QED
  BY <1>4, <1>5

LEMMA RingRest ==
  ASSUME NEW cs \in ClientState, NEW h \in History, HoldsRest(cs, h)
  PROVE  /\ RestOf(cs.ring_buffer, h.pushed, h.at)
         /\ \A n \in 0 .. Len(cs.ring_buffer) :
              SubSeq(cs.ring_buffer, n + 1, Len(cs.ring_buffer))
                = SubSeq(h.pushed, (h.at + n) + 1, Len(h.pushed))
<1>1. /\ h.pushed \in Seq(Byte) /\ h.at \in 0 .. Len(h.pushed)
      /\ cs.ring_buffer = SubSeq(h.pushed, h.at + 1, Len(h.pushed))
  BY HistoryType DEF HoldsRest
<1> QED
  BY <1>1, RestReads, Zenon

LEMMA RestConcat ==
  ASSUME NEW u \in Seq(Byte), NEW t \in Seq(Byte), NEW b \in 0 .. Len(u)
  PROVE  SubSeq(u, b + 1, Len(u)) \o t = SubSeq(u \o t, b + 1, Len(u \o t))
<1> DEFINE x == SubSeq(u, b + 1, Len(u))
           w == u \o t
           y == SubSeq(w, b + 1, Len(w))
<1>1. x \in Seq(Byte) /\ Len(x) = Len(u) - b /\ \A i \in 1 .. Len(u) - b : x[i] = u[b + i]
  OBVIOUS
<1>2. /\ w \in Seq(Byte) /\ Len(w) = Len(u) + Len(t)
      /\ \A i \in 1 .. Len(u) : w[i] = u[i]
      /\ \A i \in 1 .. Len(t) : w[Len(u) + i] = t[i]
  OBVIOUS
<1> HIDE DEF w, x
<1>3. y \in Seq(Byte) /\ Len(y) = Len(w) - b /\ \A i \in 1 .. Len(w) - b : y[i] = w[b + i]
  BY <1>2
<1>4. /\ x \o t \in Seq(Byte) /\ Len(x \o t) = Len(x) + Len(t)
      /\ \A i \in 1 .. Len(x) : (x \o t)[i] = x[i]
      /\ \A i \in 1 .. Len(t) : (x \o t)[Len(x) + i] = t[i]
  <2>1. x \in Seq(Byte)
    BY <1>1
  <2> QED
    BY <2>1
<1> HIDE DEF y
<1>5. ASSUME NEW i \in 1 .. Len(x \o t)
      PROVE  (x \o t)[i] = y[i]
  <2>1. CASE i <= Len(x)
    <3>1. i \in 1 .. Len(x) /\ b + i \in 1 .. Len(u) /\ i \in 1 .. Len(w) - b
      BY <1>1, <1>2, <2>1
    <3> QED
      BY <1>1, <1>2, <1>3, <1>4, <3>1
  <2>2. CASE i > Len(x)
    <3>1. PICK j \in 1 .. Len(t) : i = Len(x) + j /\ b + i = Len(u) + j /\ i \in 1 .. Len(w) - b
      <4>1. i - Len(x) \in 1 .. Len(t) /\ i = Len(x) + (i - Len(x))
            /\ b + i = Len(u) + (i - Len(x)) /\ i \in 1 .. Len(w) - b
        BY <1>1, <1>2, <1>4, <2>2
      <4> QED
        BY <4>1, Zenon
    <3> QED
      BY <1>2, <1>3, <1>4, <3>1, Zenon
  <2> QED
    BY <1>1, <2>1, <2>2
<1>6. Len(x \o t) = Len(y)
  BY <1>1, <1>2, <1>3, <1>4
<1>7. x \o t = y
  BY <1>3, <1>4, <1>5, <1>6, SeqEqual
<1> QED
  BY <1>7 DEF x, y, w

\* RingBuffer::push appends a chunk.
LEMMA PushKeeps ==
  ASSUME NEW cs \in ClientState, NEW h \in History, ClientInv(cs, h),
         NEW data \in Seq(Byte), NEW F
  PROVE  ClientInv([cs EXCEPT !.ring_buffer = @ \o data],
                   [h EXCEPT !.pushed = @ \o data, !.from = F])
<1> DEFINE cs2 == [cs EXCEPT !.ring_buffer = @ \o data]
           h2 == [h EXCEPT !.pushed = @ \o data, !.from = F]
           s == h.pushed
           r == cs.ring_buffer
<1>1. /\ s \in Seq(Byte) /\ Len(s) \in Nat /\ h.at \in Nat /\ r \in Seq(Byte)
      /\ h.taken \in SUBSET [at : Nat, size : Nat]
  BY HistoryType DEF ClientState
<1>2. /\ cs2.ring_buffer = r \o data /\ cs2.state = cs.state
      /\ cs2.payload_length = cs.payload_length
  BY DEF ClientState
<1>3. h2.pushed = s \o data /\ h2.at = h.at /\ h2.taken = h.taken
  BY DEF History
<1>4. LengthIsFresh(cs) /\ HoldsRest(cs, h) /\ Accounted(h) /\ DisjointPackets(h)
  BY DEF ClientInv
<1> HIDE DEF cs2, h2
<1>5. LengthIsFresh(cs2)
  <2>1. /\ Len(r) \in Nat /\ Len(r \o data) \in Nat /\ Len(r \o data) >= Len(r)
        /\ \A p \in Nat : p + 2 <= Len(r) => Uint16At(r \o data, p) = Uint16At(r, p)
    <3> HIDE DEF r
    <3> QED BY <1>1, PrefixReads
  <2> HIDE DEF r
  <2>2. Len(r) >= 2 => Uint16At(r \o data, 0) = Uint16At(r, 0)
    BY <2>1
  <2>3. Len(r) >= 4 => Uint16At(r \o data, 0 + 2) = Uint16At(r, 0 + 2)
    BY <2>1
  <2> QED
    BY <1>2, <1>4, <2>1, <2>2, <2>3
       DEF LengthIsFresh, HeaderAt, LengthAt, HEADER_SIZE, LENGTH_SIZE, r
<1>6. HoldsRest(cs2, h2)
  <2>1. h.at <= Len(s) /\ r = SubSeq(s, h.at + 1, Len(s))
    BY <1>4 DEF HoldsRest
  <2>2. PICK a \in 0 .. Len(s) : a = h.at
    BY <1>1, <2>1
  <2>4. Len(s \o data) >= Len(s) /\ Len(s \o data) \in Nat
    BY <1>1
  <2>5. r \o data = SubSeq(s \o data, h.at + 1, Len(s \o data))
    <3>1. r = SubSeq(s, a + 1, Len(s)) /\ s \in Seq(Byte) /\ data \in Seq(Byte)
      BY <1>1, <2>1, <2>2, Zenon
    <3> QED
      BY <2>2, <3>1, RestConcat, Zenon
  <2>6. h.at <= Len(s \o data)
    <3> HIDE DEF s, r
    <3> QED BY <1>1, <2>1, <2>4
  <2> QED
    BY <1>2, <1>3, <2>5, <2>6, Zenon DEF HoldsRest
<1>7. Accounted(h2)
  <2>1. \A p \in 0 .. h.at - 1 : p \in Nat
    BY <1>1
  <2>2. \A p \in Nat : NoPacketAt(s, p) => NoPacketAt(s \o data, p)
    BY <1>1, VerdictsStand, Zenon
  <2> QED
    BY <1>3, <1>4, <2>1, <2>2, Zenon DEF Accounted
<1>8. DisjointPackets(h2)
  <2>1. \A p \in Nat : PacketAt(s, p) =>
          PacketAt(s \o data, p) /\ LengthAt(s \o data, p) = LengthAt(s, p)
    BY <1>1, VerdictsStand, Zenon
  <2>2. \A f \in h.taken : f.at \in Nat
    BY <1>1
  <2> QED
    BY <1>3, <1>4, <2>1, <2>2, Zenon DEF DisjointPackets
<1> QED
  BY <1>5, <1>6, <1>7, <1>8 DEF ClientInv, cs2, h2

\* consume(1) and back to WAIT_HEADER, once no packet can start at the front.
LEMMA ResyncKeeps ==
  ASSUME NEW cs \in ClientState, NEW h \in History, ClientInv(cs, h),
         NoPacketAt(cs.ring_buffer, 0), Len(cs.ring_buffer) >= 1, NEW len
  PROVE  ClientInv([state |-> "WAIT_HEADER",
                    ring_buffer |-> SubSeq(cs.ring_buffer, 1 + 1, Len(cs.ring_buffer)),
                    payload_length |-> len],
                   Consumed(h, 1))
<1> DEFINE r == cs.ring_buffer
           cs2 == [state |-> "WAIT_HEADER", ring_buffer |-> SubSeq(r, 1 + 1, Len(r)),
                   payload_length |-> len]
           h2 == Consumed(h, 1)
<1>1. /\ h.pushed \in Seq(Byte) /\ Len(h.pushed) \in Nat /\ h.at \in Nat
      /\ h.taken \in SUBSET [at : Nat, size : Nat]
  BY HistoryType
<1>2. h2.pushed = h.pushed /\ h2.at = h.at + 1 /\ h2.taken = h.taken
  BY DEF Consumed, History
<1>3. HoldsRest(cs, h) /\ Accounted(h) /\ DisjointPackets(h)
  BY DEF ClientInv
<1>4. RestOf(r, h.pushed, h.at) /\ Len(r) \in Nat /\ Len(h.pushed) = h.at + Len(r)
  BY <1>3, RingRest, Zenon DEF RestOf
<1>5. SubSeq(r, 1 + 1, Len(r)) = SubSeq(h.pushed, (h.at + 1) + 1, Len(h.pushed))
  <2>1. 1 \in 0 .. Len(r)
    BY <1>4
  <2> QED
    BY <1>3, <2>1, RingRest, Zenon
<1>6. NoPacketAt(h.pushed, h.at)
  BY <1>1, <1>4, FrontVerdict, Zenon
<1> HIDE DEF h2
<1>7. LengthIsFresh(cs2)
  BY DEF LengthIsFresh
<1>8. HoldsRest(cs2, h2)
  <2>1. h.at + 1 <= Len(h.pushed)
    BY <1>1, <1>4
  <2> QED
    BY <1>2, <1>5, <2>1 DEF HoldsRest
<1>9. Accounted(h2)
  <2>1. \A p \in 0 .. (h.at + 1) - 1 : p \in 0 .. h.at - 1 \/ p = h.at
    BY <1>1
  <2> QED
    BY <1>2, <1>3, <1>6, <2>1, Zenon DEF Accounted
<1>10. DisjointPackets(h2)
  <2>1. \A f \in h.taken : f.at + f.size <= h.at => f.at + f.size <= h.at + 1
    BY <1>1
  <2> QED
    BY <1>2, <1>3, <2>1, Zenon DEF DisjointPackets
<1> QED
  BY <1>7, <1>8, <1>9, <1>10 DEF ClientInv, h2

\* The same with a valid header, or a valid length, seen and nothing consumed.
LEMMA WaitKeeps ==
  ASSUME NEW cs \in ClientState, NEW h \in History, ClientInv(cs, h), NEW st, NEW len,
         LengthIsFresh([state |-> st, ring_buffer |-> cs.ring_buffer, payload_length |-> len])
  PROVE  ClientInv([state |-> st,
                    ring_buffer |-> SubSeq(cs.ring_buffer, 0 + 1, Len(cs.ring_buffer)),
                    payload_length |-> len], h)
<1>1. SubSeq(cs.ring_buffer, 0 + 1, Len(cs.ring_buffer)) = cs.ring_buffer
  <2>1. cs.ring_buffer \in Seq(Byte)
    BY DEF ClientState
  <2>2. 0 + 1 = 1
    OBVIOUS
  <2> QED
    BY <2>1, <2>2, SubSeqFull, Zenon
<1> QED
  BY <1>1 DEF ClientInv, HoldsRest

\* consume(total): the packet at the front is taken.
LEMMA TakeKeeps ==
  ASSUME NEW cs \in ClientState, NEW h \in History, ClientInv(cs, h),
         PacketAt(cs.ring_buffer, 0), NEW size,
         size = PacketSize(LengthAt(cs.ring_buffer, 0)), NEW len
  PROVE  ClientInv([state |-> "WAIT_HEADER",
                    ring_buffer |-> SubSeq(cs.ring_buffer, size + 1, Len(cs.ring_buffer)),
                    payload_length |-> len],
                   Taken(h, size))
<1> DEFINE r == cs.ring_buffer
           cs2 == [state |-> "WAIT_HEADER", ring_buffer |-> SubSeq(r, size + 1, Len(r)),
                   payload_length |-> len]
           g == [at |-> h.at, size |-> size]
           h2 == Taken(h, size)
<1>1. /\ h.pushed \in Seq(Byte) /\ Len(h.pushed) \in Nat /\ h.at \in Nat
      /\ h.taken \in SUBSET [at : Nat, size : Nat]
  BY HistoryType
<1>2. h2.pushed = h.pushed /\ h2.at = h.at + size /\ h2.taken = h.taken \cup {g}
  BY DEF Taken, History
<1>3. HoldsRest(cs, h) /\ Accounted(h) /\ DisjointPackets(h)
  BY DEF ClientInv
<1>4. RestOf(r, h.pushed, h.at) /\ Len(r) \in Nat /\ Len(h.pushed) = h.at + Len(r)
  BY <1>3, RingRest, Zenon DEF RestOf
<1>6. /\ PacketAt(h.pushed, h.at) /\ LengthAt(h.pushed, h.at) = LengthAt(r, 0)
      /\ LengthAt(r, 0) \in Nat
  BY <1>1, <1>4, FrontVerdict, Zenon
<1>7. size \in Nat /\ size = PacketSize(LengthAt(h.pushed, h.at)) /\ size <= Len(r)
  <2>1. size \in Nat
    BY <1>6, PacketSizeNat
  <2>2. 0 + size <= Len(r)
    BY Zenon DEF PacketAt
  <2> QED
    BY <1>4, <1>6, <2>1, <2>2
<1>5. SubSeq(r, size + 1, Len(r)) = SubSeq(h.pushed, (h.at + size) + 1, Len(h.pushed))
  <2>1. size \in 0 .. Len(r)
    BY <1>4, <1>7
  <2> QED
    BY <1>3, <2>1, RingRest, Zenon
<1>8. g.at = h.at /\ g.size = size
  OBVIOUS
<1> HIDE DEF h2, g
<1>9. HoldsRest(cs2, h2)
  <2>1. h.at + size <= Len(h.pushed)
    BY <1>1, <1>4, <1>7
  <2> QED
    BY <1>2, <1>5, <2>1 DEF HoldsRest
<1>10. Accounted(h2)
  <2>1. \A p \in 0 .. (h.at + size) - 1 : p \in 0 .. h.at - 1 \/ p \in h.at .. h.at + size - 1
    BY <1>1, <1>7
  <2> QED
    BY <1>2, <1>3, <1>8, <2>1, Zenon DEF Accounted
<1>11. DisjointPackets(h2)
  <2>1. \A f \in h.taken : f.at + f.size <= h.at => f.at + f.size <= h.at + size
    BY <1>1, <1>7
  <2>2. h.at + size <= h.at + size
    BY <1>1, <1>7
  <2> QED
    BY <1>2, <1>3, <1>6, <1>7, <1>8, <2>1, <2>2, Zenon DEF DisjointPackets
<1>12. LengthIsFresh(cs2)
  BY DEF LengthIsFresh
<1> QED
  BY <1>9, <1>10, <1>11, <1>12 DEF ClientInv, h2, g

-----------------------------------------------------------------------------
(* The specification.                                                      *)

LEMMA ConnectionStep ==
  ASSUME NEW B, NEW b \in B, NEW n \in Nat,
         NEW k \in [fd : Fd, peer : Peers, sent : Nat, open : B]
  PROVE  /\ [k EXCEPT !.sent = @ + n] \in [fd : Fd, peer : Peers, sent : Nat, open : B]
         /\ [k EXCEPT !.open = b] \in [fd : Fd, peer : Peers, sent : Nat, open : B]
  OBVIOUS

LEMMA SeqStep ==
  ASSUME NEW S, NEW s \in Seq(S), NEW i \in 1 .. Len(s), NEW v \in S
  PROVE  [s EXCEPT ![i] = v] \in Seq(S)
  OBVIOUS

\* A step of process_client leaves a well-formed state, given what it does to
\* the clients and to the history.
LEMMA ProcessType ==
  ASSUME TypeOK, pc = "process", pc' = pc, client' = client,
         UNCHANGED <<m_raw_queue, stop_requested, conns>>,
         NEW n \in Nat, NEW len \in Uint16,
         NEW st \in {"WAIT_HEADER", "WAIT_LENGTH", "WAIT_PAYLOAD_AND_CRC"},
         Advance(n, st, len),
         history' \in [DOMAIN m_clients -> History],
         m_parsed_queue' \in Seq(Telemetry), m_crc_failures' \in Nat
  PROVE  TypeOK'
<1>1. /\ DOMAIN m_clients' = DOMAIN m_clients /\ client \in DOMAIN m_clients
      /\ m_clients' \in [DOMAIN m_clients -> ClientState]
  BY AdvanceType
<1> QED
  BY <1>1 DEF TypeOK

LEMMA HistoryStep ==
  ASSUME TypeOK, client \in DOMAIN m_clients, NEW h2 \in History,
         history' = [history EXCEPT ![client] = h2]
  PROVE  /\ history' \in [DOMAIN m_clients -> History]
         /\ history'[client] = h2
         /\ \A fd \in DOMAIN m_clients \ {client} : history'[fd] = history[fd]
<1>1. history \in [DOMAIN m_clients -> History]
  BY DEF TypeOK
<1> QED
  BY <1>1

LEMMA ConsumedType ==
  ASSUME NEW h \in History, NEW n \in Nat
  PROVE  Consumed(h, n) \in History
  BY DEF Consumed, History

LEMMA TakenType ==
  ASSUME NEW h \in History, NEW n \in Nat
  PROVE  Taken(h, n) \in History
<1> DEFINE T == h.taken \cup {[at |-> h.at, size |-> n]}
<1>1. h.at \in Nat /\ T \in SUBSET [at : Nat, size : Nat]
  BY HistoryType
<1>2. h.at + n \in Nat
  BY <1>1
<1> HIDE DEF T
<1>3. [h EXCEPT !.at = h.at + n, !.taken = T] \in History
  BY <1>1, <1>2 DEF History
<1> QED
  BY <1>3, Zenon DEF Taken, T

\* m_clients.erase.
LEMMA EraseStep ==
  ASSUME TypeOK, EraseClient
  PROVE  /\ DOMAIN m_clients' = DOMAIN m_clients \ {Chunk.client_id}
         /\ m_clients' \in [DOMAIN m_clients' -> ClientState]
         /\ history' \in [DOMAIN m_clients' -> History]
         /\ \A fd \in DOMAIN m_clients' :
              m_clients'[fd] = m_clients[fd] /\ history'[fd] = history[fd]
<1>1. /\ m_clients \in [DOMAIN m_clients -> ClientState]
      /\ history \in [DOMAIN history -> History] /\ DOMAIN history = DOMAIN m_clients
  BY DEF TypeOK
<1>2. /\ m_clients' = Without(m_clients, Chunk.client_id)
      /\ history' = Without(history, Chunk.client_id)
  BY Zenon DEF EraseClient
<1>3. /\ DOMAIN m_clients' = DOMAIN m_clients \ {Chunk.client_id}
      /\ m_clients' \in [DOMAIN m_clients \ {Chunk.client_id} -> ClientState]
      /\ \A fd \in DOMAIN m_clients \ {Chunk.client_id} : m_clients'[fd] = m_clients[fd]
  BY <1>1, <1>2 DEF Without
<1>4. /\ history' \in [DOMAIN history \ {Chunk.client_id} -> History]
      /\ \A fd \in DOMAIN history \ {Chunk.client_id} : history'[fd] = history[fd]
  BY <1>1, <1>2 DEF Without
<1> QED
  BY <1>1, <1>3, <1>4, Zenon

LEMMA PushedType ==
  ASSUME NEW cs \in ClientState, NEW h \in History, NEW data \in Seq(Byte), NEW c \in Nat
  PROVE  /\ [cs EXCEPT !.ring_buffer = @ \o data] \in ClientState
         /\ [h EXCEPT !.pushed = @ \o data, !.from = @ \cup {c}] \in History
<1>1. ASSUME NEW u \in Seq(Byte)
      PROVE  [cs EXCEPT !.ring_buffer = u] \in ClientState
  BY DEF ClientState
<1>2. /\ cs.ring_buffer \o data \in Seq(Byte)
      /\ h.pushed \o data \in Seq(Byte) /\ h.from \cup {c} \in SUBSET Nat
  BY DEF ClientState, History
<1>3. ASSUME NEW u \in Seq(Byte), NEW w \in SUBSET Nat
      PROVE  [h EXCEPT !.pushed = u, !.from = w] \in History
  BY DEF History
<1> QED
  BY <1>1, <1>2, <1>3, Zenon

\* m_clients[chunk.client_id] and the push into its ring.
LEMMA PopDataStep ==
  ASSUME TypeOK, PopData
  PROVE  /\ Chunk \in DataChunk /\ Tail(m_raw_queue) \in Seq(DataChunk)
         /\ FoundClient \in ClientState /\ FoundHistory \in History
         /\ Chunk.client_id \in Fd /\ Chunk.data \in Seq(Byte)
         /\ DOMAIN m_clients' = DOMAIN m_clients \cup {Chunk.client_id}
         /\ m_clients' \in [DOMAIN m_clients' -> ClientState]
         /\ history' \in [DOMAIN m_clients' -> History]
         /\ m_clients'[Chunk.client_id] = [FoundClient EXCEPT !.ring_buffer = @ \o Chunk.data]
         /\ history'[Chunk.client_id] = [FoundHistory EXCEPT !.pushed = @ \o Chunk.data,
                                                            !.from = @ \cup {Chunk.conn}]
         /\ \A fd \in DOMAIN m_clients \ {Chunk.client_id} :
              m_clients'[fd] = m_clients[fd] /\ history'[fd] = history[fd]
<1> DEFINE cs2 == [FoundClient EXCEPT !.ring_buffer = @ \o Chunk.data]
           h2 == [FoundHistory EXCEPT !.pushed = @ \o Chunk.data, !.from = @ \cup {Chunk.conn}]
<1>0. m_raw_queue # << >>
  BY Zenon DEF PopData
<1>1. /\ Chunk \in DataChunk /\ Tail(m_raw_queue) \in Seq(DataChunk)
      /\ FoundClient \in ClientState /\ FoundHistory \in History
  BY <1>0, ChunkType, Zenon
<1>2. Chunk.client_id \in Fd /\ Chunk.data \in Seq(Byte) /\ Chunk.conn \in Nat
  BY <1>1 DEF DataChunk
<1>3. cs2 \in ClientState /\ h2 \in History
  BY <1>1, <1>2, PushedType, Zenon
<1>4. /\ m_clients' = With(m_clients, Chunk.client_id, cs2)
      /\ history' = With(history, Chunk.client_id, h2)
  BY Zenon DEF PopData
<1> HIDE DEF cs2, h2
<1>5. /\ m_clients \in [DOMAIN m_clients -> ClientState]
      /\ history \in [DOMAIN history -> History] /\ DOMAIN history = DOMAIN m_clients
  BY DEF TypeOK
<1>6. /\ DOMAIN m_clients' = DOMAIN m_clients \cup {Chunk.client_id}
      /\ m_clients' \in [DOMAIN m_clients \cup {Chunk.client_id} -> ClientState]
      /\ m_clients'[Chunk.client_id] = cs2
      /\ \A fd \in DOMAIN m_clients \ {Chunk.client_id} : m_clients'[fd] = m_clients[fd]
  BY <1>3, <1>4, <1>5 DEF With
<1>7. /\ history' \in [DOMAIN history \cup {Chunk.client_id} -> History]
      /\ history'[Chunk.client_id] = h2
      /\ \A fd \in DOMAIN history \ {Chunk.client_id} : history'[fd] = history[fd]
  BY <1>3, <1>4, <1>5 DEF With
<1>8. /\ m_clients' \in [DOMAIN m_clients' -> ClientState]
      /\ history' \in [DOMAIN m_clients' -> History]
      /\ \A fd \in DOMAIN m_clients \ {Chunk.client_id} :
           m_clients'[fd] = m_clients[fd] /\ history'[fd] = history[fd]
  BY <1>5, <1>6, <1>7, Zenon
<1> QED
  BY <1>1, <1>2, <1>6, <1>7, <1>8 DEF cs2, h2

\* Every state of the parser is well formed; in particular no read leaves a
\* payload and the length cached for a client is a 16-bit number.
THEOREM TypeCorrect == Spec => []TypeOK
<1>1. Init => TypeOK
  <2> SUFFICES ASSUME Init PROVE TypeOK
    OBVIOUS
  <2>1. DOMAIN m_clients = {} /\ m_clients \in [{} -> ClientState] /\ history \in [{} -> History]
    BY DEF Init
  <2>2. << >> \in Seq(DataChunk) /\ << >> \in Seq(Telemetry) /\ << >> \in Seq(Connection)
    OBVIOUS
  <2>3. 0 \in Nat /\ "while" # "process"
    OBVIOUS
  <2> QED
    BY <2>1, <2>2, <2>3, Zenon DEF Init, TypeOK
<1>2. TypeOK /\ [Next]_vars => TypeOK'
  <2> SUFFICES ASSUME TypeOK, [Next]_vars PROVE TypeOK'
    OBVIOUS
  <2>1. ASSUME NEW fd \in Fd, NEW peer \in Peers, Accept(fd, peer)
        PROVE  TypeOK'
    <3>1. [fd |-> fd, peer |-> peer, sent |-> 0, open |-> TRUE] \in Connection
      BY DEF Connection
    <3>2. conns' \in Seq(Connection)
      BY <2>1, <3>1 DEF Accept, TypeOK
    <3> QED
      BY <2>1, <3>2 DEF Accept, parserVars, TypeOK
  <2>2. ASSUME NEW c \in 1 .. Len(conns), NEW n \in 1 .. RECV_BUF_SIZE, ReceiveChunk(c, n)
        PROVE  TypeOK'
    <3>1. conns \in Seq(Connection) /\ conns[c] \in Connection
      BY DEF TypeOK
    <3>2. /\ conns[c].fd \in Fd /\ conns[c].sent \in Nat
          /\ conns[c].peer.stream \in Seq(Byte)
      BY <3>1, ParserAssumption DEF Connection
    <3>3. SubSeq(conns[c].peer.stream, conns[c].sent + 1, conns[c].sent + n) \in Seq(Byte)
      <4>1. conns[c].sent + n <= Len(conns[c].peer.stream)
        BY <2>2, <3>2 DEF ReceiveChunk
      <4> QED
        BY <3>2, <4>1
    <3>4. [client_id |-> conns[c].fd, conn |-> c,
           data |-> SubSeq(conns[c].peer.stream, conns[c].sent + 1, conns[c].sent + n)] \in DataChunk
      BY <3>2, <3>3 DEF DataChunk
    <3>5. m_raw_queue' \in Seq(DataChunk)
      BY <2>2, <3>4 DEF ReceiveChunk, TypeOK
    <3>6. conns' \in Seq(Connection)
      <4>1. n \in Nat /\ FALSE \in BOOLEAN
        BY ParserAssumption
      <4>2. [conns[c] EXCEPT !.sent = @ + n] \in Connection
        BY <3>1, <4>1, ConnectionStep, Zenon DEF Connection
      <4> QED
        BY <2>2, <3>1, <4>2, SeqStep, Zenon DEF ReceiveChunk
    <3> QED
      BY <2>2, <3>5, <3>6 DEF ReceiveChunk, parserVars, TypeOK
  <2>3. ASSUME NEW c \in 1 .. Len(conns), Disconnect(c)
        PROVE  TypeOK'
    <3>1. conns \in Seq(Connection) /\ conns[c] \in Connection
      BY DEF TypeOK
    <3>4. [client_id |-> conns[c].fd, conn |-> c, data |-> << >>] \in DataChunk
      BY <3>1 DEF DataChunk, Connection
    <3>5. m_raw_queue' \in Seq(DataChunk)
      BY <2>3, <3>4 DEF Disconnect, TypeOK
    <3>6. conns' \in Seq(Connection)
      <4>1. 0 \in Nat /\ FALSE \in BOOLEAN
        OBVIOUS
      <4>2. [conns[c] EXCEPT !.open = FALSE] \in Connection
        BY <3>1, <4>1, ConnectionStep, Zenon DEF Connection
      <4> QED
        BY <2>3, <3>1, <4>2, SeqStep, Zenon DEF Disconnect
    <3> QED
      BY <2>3, <3>5, <3>6 DEF Disconnect, parserVars, TypeOK
  <2>4. CASE RequestStop
    BY <2>4 DEF RequestStop, parserVars, TypeOK
  <2>5. CASE CheckStop
    BY <2>5 DEF CheckStop, queues, TypeOK
  <2>6. CASE PopStopped
    BY <2>6 DEF PopStopped, queues, TypeOK
  <2>7. ASSUME m_raw_queue # << >>, EraseClient
        PROVE  TypeOK'
    <3>1. Tail(m_raw_queue) \in Seq(DataChunk)
      BY <2>7, ChunkType
    <3>2. /\ DOMAIN m_clients' \subseteq DOMAIN m_clients
          /\ m_clients' \in [DOMAIN m_clients' -> ClientState]
          /\ history' \in [DOMAIN m_clients' -> History]
      BY <2>7, EraseStep
    <3> QED
      BY <2>7, <3>1, <3>2 DEF EraseClient, TypeOK
  <2>8. CASE PopDisconnect
    BY <2>7, <2>8 DEF PopDisconnect
  <2>9. CASE PopOverflow
    BY <2>7, <2>9 DEF PopOverflow
  <2>10. CASE PopData
    <3>1. /\ Tail(m_raw_queue) \in Seq(DataChunk) /\ Chunk.client_id \in Fd
          /\ DOMAIN m_clients' = DOMAIN m_clients \cup {Chunk.client_id}
          /\ m_clients' \in [DOMAIN m_clients' -> ClientState]
          /\ history' \in [DOMAIN m_clients' -> History]
      BY <2>10, PopDataStep, Zenon
    <3> QED
      BY <2>10, <3>1 DEF PopData, TypeOK
  <2>11. CASE Return
    BY <2>11 DEF Return, queues, TypeOK
  <2>12. CASE HeaderMissing
    <3>1. pc = "process" /\ pc' = pc /\ client' = client /\ UNCHANGED <<m_raw_queue, stop_requested, conns>>
      BY <2>12 DEF HeaderMissing, InState, queues
    <3>2. Advance(1, "WAIT_HEADER", payload_length) /\ history' = [history EXCEPT ![client] = Consumed(@, 1)]
      BY <2>12 DEF HeaderMissing, Resync
    <3>3. m_parsed_queue' \in Seq(Telemetry) /\ m_crc_failures' \in Nat
      BY <2>12 DEF HeaderMissing, queues, TypeOK
    <3>4. history' \in [DOMAIN m_clients -> History]
      BY <3>1, <3>2, FrontType, ConsumedType, HistoryStep
    <3>5. payload_length \in Uint16
      BY <2>12, <3>1, FrontType
    <3> QED
      BY <3>1, <3>2, <3>3, <3>4, <3>5, ProcessType
  <2>13. CASE HeaderFound
    <3>1. pc = "process" /\ pc' = pc /\ client' = client /\ UNCHANGED <<m_raw_queue, stop_requested, conns>>
      BY <2>13 DEF HeaderFound, InState, queues
    <3>2. Advance(0, "WAIT_LENGTH", payload_length)
      BY <2>13 DEF HeaderFound
    <3>3. m_parsed_queue' \in Seq(Telemetry) /\ m_crc_failures' \in Nat
      BY <2>13 DEF HeaderFound, queues, TypeOK
    <3>4. history' \in [DOMAIN m_clients -> History]
      BY <2>13 DEF HeaderFound, TypeOK
    <3>5. payload_length \in Uint16
      BY <2>13, <3>1, FrontType
    <3> QED
      BY <3>1, <3>2, <3>3, <3>4, <3>5, ProcessType
  <2>14. CASE LengthAbsurd
    <3>1. pc = "process" /\ pc' = pc /\ client' = client /\ UNCHANGED <<m_raw_queue, stop_requested, conns>>
      BY <2>14 DEF LengthAbsurd, InState, queues
    <3>2. Advance(1, "WAIT_HEADER", LengthAt(Ring, 0)) /\ history' = [history EXCEPT ![client] = Consumed(@, 1)]
      BY <2>14 DEF LengthAbsurd, Resync
    <3>3. m_parsed_queue' \in Seq(Telemetry) /\ m_crc_failures' \in Nat
      BY <2>14 DEF LengthAbsurd, queues, TypeOK
    <3>4. history' \in [DOMAIN m_clients -> History]
      BY <3>1, <3>2, FrontType, ConsumedType, HistoryStep
    <3>5. LengthAt(Ring, 0) \in Uint16
      BY <2>14, <3>1, LengthType DEF LengthAbsurd
    <3> QED
      BY <3>1, <3>2, <3>3, <3>4, <3>5, ProcessType
  <2>15. CASE LengthValid
    <3>1. pc = "process" /\ pc' = pc /\ client' = client /\ UNCHANGED <<m_raw_queue, stop_requested, conns>>
      BY <2>15 DEF LengthValid, InState, queues
    <3>2. Advance(0, "WAIT_PAYLOAD_AND_CRC", LengthAt(Ring, 0))
      BY <2>15 DEF LengthValid
    <3>3. m_parsed_queue' \in Seq(Telemetry) /\ m_crc_failures' \in Nat
      BY <2>15 DEF LengthValid, queues, TypeOK
    <3>4. history' \in [DOMAIN m_clients -> History]
      BY <2>15 DEF LengthValid, TypeOK
    <3>5. LengthAt(Ring, 0) \in Uint16
      BY <2>15, <3>1, LengthType DEF LengthValid
    <3> QED
      BY <3>1, <3>2, <3>3, <3>4, <3>5, ProcessType
  <2>16. CASE CrcMismatch
    <3>1. pc = "process" /\ pc' = pc /\ client' = client /\ UNCHANGED <<m_raw_queue, stop_requested, conns>>
      BY <2>16 DEF CrcMismatch, PacketComplete, InState, queues
    <3>2. Advance(1, "WAIT_HEADER", payload_length) /\ history' = [history EXCEPT ![client] = Consumed(@, 1)]
      BY <2>16 DEF CrcMismatch, Resync
    <3>3. m_parsed_queue' \in Seq(Telemetry) /\ m_crc_failures' \in Nat
      BY <2>16 DEF CrcMismatch, queues, TypeOK
    <3>4. history' \in [DOMAIN m_clients -> History]
      BY <3>1, <3>2, FrontType, ConsumedType, HistoryStep
    <3>5. payload_length \in Uint16
      BY <2>16, <3>1, FrontType
    <3> QED
      BY <3>1, <3>2, <3>3, <3>4, <3>5, ProcessType
  <2>17. CASE TakePacket
    <3>1. /\ pc = "process" /\ client \in DOMAIN m_clients /\ history[client] \in History
          /\ Ring \in Seq(Byte) /\ payload_length \in Uint16
          /\ Len(Ring) >= PacketSize(payload_length)
      BY <2>17, FrontType DEF TakePacket, PacketComplete, InState
    <3>2. payload_length \in Nat /\ PacketSize(payload_length) \in Nat
      <4>1. payload_length \in Nat
        BY <3>1 DEF Uint16
      <4> QED
        BY <4>1, PacketSizeNat
    <3>3. PayloadAt(Ring, 0, payload_length) \in Seq(Byte)
      <4>1. 4 + payload_length <= Len(Ring)
        BY <3>1, <3>2, PacketSizeNat
      <4> QED
        BY <3>1, <3>2, <4>1 DEF PayloadAt, HEADER_SIZE, LENGTH_SIZE
    <3>4. deserialize_payload(PayloadAt(Ring, 0, payload_length)) \in Seq(Telemetry)
      BY <3>3, DeserializeType
    <3>5. m_parsed_queue' \in Seq(Telemetry) /\ m_crc_failures' \in Nat
      BY <2>17, <3>4 DEF TakePacket, TypeOK
    <3>6. history' \in [DOMAIN m_clients -> History]
      <4>1. history' = [history EXCEPT ![client] = Taken(@, PacketSize(payload_length))]
        BY <2>17 DEF TakePacket
      <4> QED
        BY <3>1, <3>2, <4>1, TakenType, HistoryStep
    <3>7. Advance(PacketSize(payload_length), "WAIT_HEADER", payload_length)
      BY <2>17 DEF TakePacket
    <3>8. pc' = pc /\ client' = client /\ UNCHANGED <<m_raw_queue, stop_requested, conns>>
      BY <2>17 DEF TakePacket
    <3> QED
      BY <3>1, <3>2, <3>5, <3>6, <3>7, <3>8, ProcessType
  <2>18. CASE UNCHANGED vars
    BY <2>18 DEF vars, queues, TypeOK
  <2> QED
    BY <2>1, <2>2, <2>3, <2>4, <2>5, <2>6, <2>8, <2>9, <2>10, <2>11, <2>12, <2>13, <2>14,
       <2>15, <2>16, <2>17, <2>18
       DEF Next, Environment, Listen, run, process_client
<1> QED
  BY <1>1, <1>2, PTL DEF Spec

-----------------------------------------------------------------------------
(* What process_client concludes from the front of the ring is what        *)
(* PacketAt and NoPacketAt say about it.                                   *)

LEMMA Verdicts ==
  ASSUME NEW cs \in ClientState, LengthIsFresh(cs)
  PROVE  LET r == cs.ring_buffer IN
         /\ Len(r) >= HEADER_SIZE /\ ~HeaderAt(r, 0) => NoPacketAt(r, 0) /\ Len(r) >= 1
         /\ Len(r) >= HEADER_SIZE + LENGTH_SIZE /\ ~GoodLength(LengthAt(r, 0)) =>
              NoPacketAt(r, 0) /\ Len(r) >= 1
         /\ /\ cs.state = "WAIT_PAYLOAD_AND_CRC"
            /\ Len(r) >= PacketSize(cs.payload_length)
            => /\ Len(r) >= 1 /\ cs.payload_length = LengthAt(r, 0)
               /\ IF CrcMatchesAt(r, 0, cs.payload_length) THEN PacketAt(r, 0) ELSE NoPacketAt(r, 0)
<1> DEFINE r == cs.ring_buffer
<1>1. Len(r) \in Nat /\ cs.payload_length \in Nat
  <2>1. cs.ring_buffer \in Seq(Byte) /\ cs.payload_length \in Uint16
    BY DEF ClientState
  <2>2. Uint16 \subseteq Nat
    BY DEF Uint16
  <2> QED
    BY <2>1, <2>2, LenProperties, Zenon
<1>2. ASSUME Len(r) >= HEADER_SIZE, ~HeaderAt(r, 0)
      PROVE  NoPacketAt(r, 0) /\ Len(r) >= 1
  <2>1. 0 + HEADER_SIZE <= Len(r) /\ Len(r) >= 1
    BY <1>1, <1>2 DEF HEADER_SIZE
  <2> QED
    BY <1>2, <2>1, Zenon DEF NoPacketAt
<1>3. ASSUME Len(r) >= HEADER_SIZE + LENGTH_SIZE, ~GoodLength(LengthAt(r, 0))
      PROVE  NoPacketAt(r, 0) /\ Len(r) >= 1
  <2>1. 0 + HEADER_SIZE + LENGTH_SIZE <= Len(r) /\ Len(r) >= 1
    BY <1>1, <1>3 DEF HEADER_SIZE, LENGTH_SIZE
  <2> QED
    BY <1>3, <2>1, Zenon DEF NoPacketAt
<1>4. ASSUME cs.state = "WAIT_PAYLOAD_AND_CRC", Len(r) >= PacketSize(cs.payload_length)
      PROVE  /\ Len(r) >= 1 /\ cs.payload_length = LengthAt(r, 0)
             /\ IF CrcMatchesAt(r, 0, cs.payload_length) THEN PacketAt(r, 0) ELSE NoPacketAt(r, 0)
  <2>1. /\ HeaderAt(r, 0) /\ cs.payload_length = LengthAt(r, 0)
        /\ GoodLength(cs.payload_length) /\ Len(r) >= HEADER_SIZE + LENGTH_SIZE
    <3>1. "WAIT_PAYLOAD_AND_CRC" # "WAIT_HEADER"
      OBVIOUS
    <3> QED
      BY <1>4, <3>1, Zenon DEF LengthIsFresh
  <2>2. 0 + HEADER_SIZE + LENGTH_SIZE <= Len(r) /\ Len(r) >= 1
    BY <1>1, <2>1 DEF HEADER_SIZE, LENGTH_SIZE
  <2>3. PICK len \in Nat : len = cs.payload_length
    BY <1>1, Zenon
  <2>4. 0 + PacketSize(len) <= Len(r)
    <3>1. PICK k \in Nat : k = PacketSize(len)
      BY PacketSizeNat, Zenon
    <3>2. Len(r) >= k
      BY <1>4, <2>3, <3>1, Zenon
    <3>3. 0 + k <= Len(r)
      BY <1>1, <3>2
    <3> QED
      BY <3>1, <3>3, Zenon
  <2>5. CASE CrcMatchesAt(r, 0, len)
    BY <2>1, <2>2, <2>3, <2>4, <2>5, Zenon DEF PacketAt
  <2>6. CASE ~CrcMatchesAt(r, 0, len)
    BY <2>1, <2>2, <2>3, <2>4, <2>6, Zenon DEF NoPacketAt
  <2> QED
    BY <2>1, <2>2, <2>3, <2>5, <2>6, Zenon
<1> QED
  BY <1>2, <1>3, <1>4, Zenon

ClientsInv == \A fd \in DOMAIN m_clients : ClientInv(m_clients[fd], history[fd])

\* A step of process_client disturbs only the client it works on.
LEMMA ClientStep ==
  ASSUME TypeOK, ClientsInv, pc = "process",
         NEW n \in Nat, NEW len \in Uint16,
         NEW st \in {"WAIT_HEADER", "WAIT_LENGTH", "WAIT_PAYLOAD_AND_CRC"},
         Advance(n, st, len),
         NEW h2 \in History, history' = [history EXCEPT ![client] = h2],
         ClientInv([state |-> st, ring_buffer |-> SubSeq(Ring, n + 1, Len(Ring)),
                    payload_length |-> len], h2)
  PROVE  ClientsInv'
<1>1. /\ client \in DOMAIN m_clients /\ DOMAIN m_clients' = DOMAIN m_clients
      /\ m_clients'[client] = [state |-> st, ring_buffer |-> SubSeq(Ring, n + 1, Len(Ring)),
                               payload_length |-> len]
      /\ \A fd \in DOMAIN m_clients \ {client} : m_clients'[fd] = m_clients[fd]
  BY AdvanceType, Zenon
<1>2. /\ history'[client] = h2
      /\ \A fd \in DOMAIN m_clients \ {client} : history'[fd] = history[fd]
  BY <1>1, HistoryStep, Zenon
<1>3. ASSUME NEW fd \in DOMAIN m_clients'
      PROVE  ClientInv(m_clients'[fd], history'[fd])
  <2>1. CASE fd = client
    BY <1>1, <1>2, <2>1, Zenon
  <2>2. CASE fd # client
    <3>1. fd \in DOMAIN m_clients \ {client}
      BY <1>1, <1>3, <2>2, Zenon
    <3> QED
      BY <1>1, <1>2, <3>1, Zenon DEF ClientsInv
  <2> QED
    BY <2>1, <2>2
<1> QED
  BY <1>3, Zenon DEF ClientsInv

LEMMA HistoryUnchanged ==
  ASSUME TypeOK, pc = "process", history' = history
  PROVE  history' = [history EXCEPT ![client] = history[client]]
<1>1. history \in [DOMAIN m_clients -> History] /\ client \in DOMAIN m_clients
  BY DEF TypeOK
<1> QED
  BY <1>1

LEMMA Front ==
  ASSUME TypeOK, ClientsInv, pc = "process"
  PROVE  /\ client \in DOMAIN m_clients
         /\ m_clients[client] \in ClientState /\ history[client] \in History
         /\ ClientInv(m_clients[client], history[client])
         /\ LengthIsFresh(m_clients[client])
<1>1. client \in DOMAIN m_clients /\ m_clients[client] \in ClientState
  BY DEF TypeOK
<1>2. history[client] \in History
  BY FrontType, Zenon
<1> QED
  BY <1>1, <1>2, Zenon DEF ClientsInv, ClientInv

\* One byte is dropped where no packet can start.
LEMMA ResyncClient ==
  ASSUME TypeOK, ClientsInv, pc = "process", NEW len \in Uint16,
         Advance(1, "WAIT_HEADER", len),
         history' = [history EXCEPT ![client] = Consumed(@, 1)],
         NoPacketAt(Ring, 0), Len(Ring) >= 1
  PROVE  ClientsInv'
<1>1. /\ m_clients[client] \in ClientState /\ history[client] \in History
      /\ ClientInv(m_clients[client], history[client])
  BY Front, Zenon
<1>2. PICK h2 \in History : h2 = Consumed(history[client], 1)
  BY <1>1, ConsumedType
<1>3. ClientInv([state |-> "WAIT_HEADER", ring_buffer |-> SubSeq(Ring, 1 + 1, Len(Ring)),
                 payload_length |-> len], h2)
  BY <1>1, <1>2, ResyncKeeps, Zenon DEF Ring
<1>4. history' = [history EXCEPT ![client] = h2]
  BY <1>2
<1>5. 1 \in Nat /\ "WAIT_HEADER" \in {"WAIT_HEADER", "WAIT_LENGTH", "WAIT_PAYLOAD_AND_CRC"}
  OBVIOUS
<1> QED
  BY <1>3, <1>4, <1>5, ClientStep, Zenon

\* A header or a length was accepted and nothing consumed.
LEMMA WaitClient ==
  ASSUME TypeOK, ClientsInv, pc = "process", history' = history, NEW len \in Uint16,
         NEW st \in {"WAIT_HEADER", "WAIT_LENGTH", "WAIT_PAYLOAD_AND_CRC"},
         Advance(0, st, len),
         LengthIsFresh([state |-> st, ring_buffer |-> Ring, payload_length |-> len])
  PROVE  ClientsInv'
<1>1. /\ m_clients[client] \in ClientState /\ history[client] \in History
      /\ ClientInv(m_clients[client], history[client])
  BY Front, Zenon
<1>2. ClientInv([state |-> st, ring_buffer |-> SubSeq(Ring, 0 + 1, Len(Ring)),
                 payload_length |-> len], history[client])
  BY <1>1, WaitKeeps, Zenon DEF Ring
<1>3. history' = [history EXCEPT ![client] = history[client]]
  BY HistoryUnchanged, Zenon
<1>4. 0 \in Nat
  OBVIOUS
<1> QED
  BY <1>1, <1>2, <1>3, <1>4, ClientStep, Zenon

\* What makes the parser correct on every client's stream: the cached header
\* and length are those at the front of the ring, the ring is what has not
\* been consumed, every consumed byte is accounted for, and the packets taken
\* are packets.
THEOREM ClientsCorrect == Spec => [](TypeOK /\ ClientsInv)
<1>1. Init => ClientsInv
  BY DEF Init, ClientsInv
<1>2. TypeOK /\ ClientsInv /\ [Next]_vars => ClientsInv'
  <2> SUFFICES ASSUME TypeOK, ClientsInv, [Next]_vars PROVE ClientsInv'
    OBVIOUS
  <2>1. ASSUME UNCHANGED <<m_clients, history>> PROVE ClientsInv'
    BY <2>1 DEF ClientsInv
  <2>2. CASE Environment
    <3>1. UNCHANGED <<m_clients, history>>
      BY <2>2 DEF Environment, Listen, Accept, ReceiveChunk, Disconnect, RequestStop, parserVars
    <3> QED
      BY <2>1, <3>1, Zenon
  <2>3. CASE CheckStop \/ PopStopped \/ Return
    BY <2>1, <2>3 DEF CheckStop, PopStopped, Return
  <2>4. CASE PopDisconnect \/ PopOverflow
    <3>1. EraseClient
      BY <2>4, Zenon DEF PopDisconnect, PopOverflow
    <3>2. /\ DOMAIN m_clients' \subseteq DOMAIN m_clients
          /\ \A fd \in DOMAIN m_clients' :
               m_clients'[fd] = m_clients[fd] /\ history'[fd] = history[fd]
      BY <3>1, EraseStep, Zenon
    <3> QED
      BY <3>2, Zenon DEF ClientsInv
  <2>5. CASE PopData
    <3>1. /\ FoundClient \in ClientState /\ FoundHistory \in History
          /\ Chunk.data \in Seq(Byte)
          /\ DOMAIN m_clients' = DOMAIN m_clients \cup {Chunk.client_id}
          /\ m_clients'[Chunk.client_id] = [FoundClient EXCEPT !.ring_buffer = @ \o Chunk.data]
          /\ history'[Chunk.client_id] = [FoundHistory EXCEPT !.pushed = @ \o Chunk.data,
                                                             !.from = @ \cup {Chunk.conn}]
          /\ \A fd \in DOMAIN m_clients \ {Chunk.client_id} :
               m_clients'[fd] = m_clients[fd] /\ history'[fd] = history[fd]
      BY <2>5, PopDataStep, Zenon
    <3>2. ClientInv(FoundClient, FoundHistory)
      <4>1. ClientInv(NewClient, Fresh)
        BY DEF ClientInv, NewClient, Fresh, LengthIsFresh, HoldsRest, Accounted, DisjointPackets
      <4> QED
        BY <4>1, Zenon DEF ClientsInv, FoundClient, FoundHistory
    <3>3. ClientInv(m_clients'[Chunk.client_id], history'[Chunk.client_id])
      <4> DEFINE F == FoundHistory.from \cup {Chunk.conn}
      <4> HIDE DEF F
      <4>1. PICK cs \in ClientState, h \in History, data \in Seq(Byte) :
              cs = FoundClient /\ h = FoundHistory /\ data = Chunk.data
        BY <3>1, Zenon
      <4>2. ClientInv([cs EXCEPT !.ring_buffer = @ \o data],
                      [h EXCEPT !.pushed = @ \o data, !.from = F])
        BY <3>2, <4>1, PushKeeps, Zenon
      <4> QED
        BY <3>1, <4>1, <4>2, Zenon DEF F
    <3>4. ASSUME NEW fd \in DOMAIN m_clients'
          PROVE  ClientInv(m_clients'[fd], history'[fd])
      <4>1. CASE fd = Chunk.client_id
        BY <3>3, <4>1, Zenon
      <4>2. CASE fd # Chunk.client_id
        <5>1. fd \in DOMAIN m_clients \ {Chunk.client_id}
          BY <3>1, <3>4, <4>2
        <5> QED
          BY <3>1, <5>1, Zenon DEF ClientsInv
      <4> QED
        BY <4>1, <4>2
    <3> QED
      BY <3>4, Zenon DEF ClientsInv
  <2>6. CASE HeaderMissing
    <3>1. pc = "process" /\ Advance(1, "WAIT_HEADER", payload_length)
          /\ history' = [history EXCEPT ![client] = Consumed(@, 1)]
      BY <2>6, Zenon DEF HeaderMissing, InState, Resync
    <3>2. NoPacketAt(Ring, 0) /\ Len(Ring) >= 1
      BY <2>6, <3>1, Front, Verdicts, Zenon DEF HeaderMissing, InState, Ring, payload_length
    <3>3. payload_length \in Uint16
      BY <2>6, <3>1, FrontType, Zenon
    <3> QED
      BY <3>1, <3>2, <3>3, ResyncClient, Zenon
  <2>7. CASE HeaderFound
    <3>1. /\ pc = "process" /\ Advance(0, "WAIT_LENGTH", payload_length) /\ history' = history
          /\ Len(Ring) >= HEADER_SIZE /\ HeaderAt(Ring, 0)
      BY <2>7, Zenon DEF HeaderFound, InState
    <3>2. LengthIsFresh([state |-> "WAIT_LENGTH", ring_buffer |-> Ring,
                         payload_length |-> payload_length])
      BY <3>1 DEF LengthIsFresh
    <3>3. payload_length \in Uint16
      BY <3>1, FrontType, Zenon
    <3> QED
      BY <3>1, <3>2, <3>3, WaitClient
  <2>8. CASE LengthAbsurd
    <3>1. pc = "process" /\ Advance(1, "WAIT_HEADER", LengthAt(Ring, 0))
          /\ history' = [history EXCEPT ![client] = Consumed(@, 1)]
      BY <2>8, Zenon DEF LengthAbsurd, InState, Resync
    <3>2. NoPacketAt(Ring, 0) /\ Len(Ring) >= 1
      BY <2>8, <3>1, Front, Verdicts, Zenon DEF LengthAbsurd, InState, Ring, payload_length
    <3>3. LengthAt(Ring, 0) \in Uint16
      BY <2>8, <3>1, LengthType, Zenon DEF LengthAbsurd
    <3> QED
      BY <3>1, <3>2, <3>3, ResyncClient, Zenon
  <2>9. CASE LengthValid
    <3>1. /\ pc = "process" /\ Advance(0, "WAIT_PAYLOAD_AND_CRC", LengthAt(Ring, 0))
          /\ history' = history /\ m_clients[client].state = "WAIT_LENGTH"
          /\ Len(Ring) >= HEADER_SIZE + LENGTH_SIZE /\ GoodLength(LengthAt(Ring, 0))
      BY <2>9, Zenon DEF LengthValid, InState
    <3>2. Len(Ring) >= HEADER_SIZE /\ HeaderAt(Ring, 0)
      <4>1. "WAIT_LENGTH" # "WAIT_HEADER"
        OBVIOUS
      <4> QED
        BY <3>1, <4>1, Front, Zenon DEF LengthIsFresh, Ring
    <3>3. LengthIsFresh([state |-> "WAIT_PAYLOAD_AND_CRC", ring_buffer |-> Ring,
                         payload_length |-> LengthAt(Ring, 0)])
      BY <3>1, <3>2 DEF LengthIsFresh
    <3>4. LengthAt(Ring, 0) \in Uint16
      BY <3>1, LengthType, Zenon
    <3> QED
      BY <3>1, <3>3, <3>4, WaitClient
  <2>10. CASE CrcMismatch
    <3>1. pc = "process" /\ Advance(1, "WAIT_HEADER", payload_length)
          /\ history' = [history EXCEPT ![client] = Consumed(@, 1)]
      BY <2>10, Zenon DEF CrcMismatch, PacketComplete, InState, Resync
    <3>2. NoPacketAt(Ring, 0) /\ Len(Ring) >= 1
      BY <2>10, <3>1, Front, Verdicts, Zenon DEF CrcMismatch, PacketComplete, InState, Ring, payload_length
    <3>3. payload_length \in Uint16
      BY <2>10, <3>1, FrontType, Zenon
    <3> QED
      BY <3>1, <3>2, <3>3, ResyncClient, Zenon
  <2>11. CASE TakePacket
    <3> DEFINE size == PacketSize(payload_length)
    <3>1. /\ pc = "process" /\ Advance(size, "WAIT_HEADER", payload_length)
          /\ history' = [history EXCEPT ![client] = Taken(@, size)]
      BY <2>11, Zenon DEF TakePacket, PacketComplete, InState
    <3>2. PacketAt(Ring, 0) /\ payload_length = LengthAt(Ring, 0)
      BY <2>11, <3>1, Front, Verdicts, Zenon
         DEF TakePacket, PacketComplete, InState, Ring, payload_length
    <3>3. payload_length \in Uint16 /\ history[client] \in History
      BY <3>1, FrontType, Zenon
    <3>4. size \in Nat
      <4>1. payload_length \in Nat
        BY <3>3 DEF Uint16
      <4> QED
        BY <4>1, PacketSizeNat
    <3>5. PICK h2 \in History : h2 = Taken(history[client], size)
      BY <3>3, <3>4, TakenType, Zenon
    <3> HIDE DEF size
    <3>6. ClientInv([state |-> "WAIT_HEADER", ring_buffer |-> SubSeq(Ring, size + 1, Len(Ring)),
                     payload_length |-> payload_length], h2)
      <4>1. size = PacketSize(LengthAt(Ring, 0))
        BY <3>2, Zenon DEF size
      <4> QED
        BY <3>1, <3>2, <3>5, <4>1, Front, TakeKeeps, Zenon DEF Ring
    <3>7. history' = [history EXCEPT ![client] = h2]
      BY <3>1, <3>5
    <3>8. "WAIT_HEADER" \in {"WAIT_HEADER", "WAIT_LENGTH", "WAIT_PAYLOAD_AND_CRC"}
      OBVIOUS
    <3> QED
      BY <3>1, <3>3, <3>4, <3>6, <3>7, <3>8, ClientStep, Zenon
  <2>12. CASE UNCHANGED vars
    BY <2>1, <2>12 DEF vars
  <2> QED
    BY <2>2, <2>3, <2>4, <2>5, <2>6, <2>7, <2>8, <2>9, <2>10, <2>11, <2>12
       DEF Next, run, process_client
<1> QED
  BY <1>1, <1>2, TypeCorrect, PTL DEF Spec

\* The header and length checked in an earlier call are still those at the
\* front of the ring when WAIT_PAYLOAD_AND_CRC relies on them.
THEOREM LengthsStayFresh == Spec => []CachedLengthFresh
<1>1. ClientsInv => CachedLengthFresh
  BY Zenon DEF ClientsInv, ClientInv, CachedLengthFresh
<1> QED
  BY <1>1, ClientsCorrect, PTL

\* For every stream and every cut of it into chunks, a byte is consumed only as
\* part of a packet that was taken or where no packet can start.
THEOREM SkipsNothing == Spec => []NeverSkips
<1>1. ClientsInv => NeverSkips
  BY Zenon DEF ClientsInv, ClientInv, NeverSkips
<1> QED
  BY <1>1, ClientsCorrect, PTL

\* For every stream and every cut of it, what is taken are packets of the
\* stream, no two of which share a byte.
THEOREM TakesOnlyPackets == Spec => []TakenArePackets
<1>1. ClientsInv => TakenArePackets
  BY Zenon DEF ClientsInv, ClientInv, TakenArePackets
<1> QED
  BY <1>1, ClientsCorrect, PTL

-----------------------------------------------------------------------------
(* The ring has room for every chunk.                                      *)

SmallChunks == \A i \in 1 .. Len(m_raw_queue) : Len(m_raw_queue[i].data) <= RECV_BUF_SIZE

IdleRingsShort ==
  \A fd \in DOMAIN m_clients :
    Idle(fd) => Len(m_clients[fd].ring_buffer) < PacketSize(MAX_PAYLOAD_SIZE)

LEMMA ChunksStaySmall ==
  ASSUME TypeOK, SmallChunks, [Next]_vars
  PROVE  SmallChunks'
<1> USE DEF SmallChunks
<1>0. m_raw_queue \in Seq(DataChunk) /\ RECV_BUF_SIZE \in Nat
  BY ParserAssumption DEF TypeOK
<1>1. ASSUME NEW d, Len(d.data) <= RECV_BUF_SIZE, d \in DataChunk,
             m_raw_queue' = Append(m_raw_queue, d)
      PROVE  SmallChunks'
  BY <1>0, <1>1
<1>2. ASSUME m_raw_queue # << >>, m_raw_queue' = Tail(m_raw_queue)
      PROVE  SmallChunks'
  BY <1>0, <1>2
<1>3. ASSUME m_raw_queue' = m_raw_queue
      PROVE  SmallChunks'
  BY <1>3
<1>4. ASSUME NEW c \in 1 .. Len(conns), NEW n \in 1 .. RECV_BUF_SIZE, ReceiveChunk(c, n)
      PROVE  SmallChunks'
  <2>1. conns[c] \in Connection
    BY DEF TypeOK
  <2>2. PICK t \in Seq(Byte), a \in Nat, fd \in Fd :
           t = conns[c].peer.stream /\ a = conns[c].sent /\ fd = conns[c].fd
    BY <2>1, ParserAssumption DEF Connection
  <2>3. PICK d : d = [client_id |-> fd, conn |-> c, data |-> SubSeq(t, a + 1, a + n)]
    OBVIOUS
  <2>4. n \in Nat /\ n <= RECV_BUF_SIZE /\ n <= Len(t) - a
    BY <1>0, <1>4, <2>2 DEF ReceiveChunk
  <2>5. SubSeq(t, a + 1, a + n) \in Seq(Byte) /\ Len(SubSeq(t, a + 1, a + n)) = n
    BY <2>4
  <2>6. d \in DataChunk /\ Len(d.data) <= RECV_BUF_SIZE
    BY <2>3, <2>4, <2>5 DEF DataChunk
  <2>7. m_raw_queue' = Append(m_raw_queue, d)
    BY <1>4, <2>2, <2>3, Zenon DEF ReceiveChunk
  <2> QED
    BY <1>1, <2>6, <2>7, Zenon
<1>5. ASSUME NEW c \in 1 .. Len(conns), Disconnect(c)
      PROVE  SmallChunks'
  <2>1. PICK d : d = [client_id |-> conns[c].fd, conn |-> c, data |-> << >>]
    OBVIOUS
  <2>2. conns[c].fd \in Fd
    <3>1. conns[c] \in Connection
      BY DEF TypeOK
    <3> QED
      BY <3>1 DEF Connection
  <2>3. d \in DataChunk /\ Len(d.data) <= RECV_BUF_SIZE
    BY <1>0, <2>1, <2>2 DEF DataChunk
  <2>4. m_raw_queue' = Append(m_raw_queue, d)
    BY <1>5, <2>1, Zenon DEF Disconnect
  <2> QED
    BY <1>1, <2>3, <2>4, Zenon
<1>6. ASSUME NEW fd \in Fd, NEW peer \in Peers, Accept(fd, peer)
      PROVE  SmallChunks'
  BY <1>3, <1>6, Zenon DEF Accept
<1>7. CASE run
  <2>1. m_raw_queue' = m_raw_queue \/ (m_raw_queue # << >> /\ m_raw_queue' = Tail(m_raw_queue))
    BY <1>7 DEF run, CheckStop, PopStopped, PopDisconnect, PopOverflow, PopData, EraseClient,
         process_client, Return, HeaderMissing, HeaderFound, LengthAbsurd, LengthValid,
         CrcMismatch, TakePacket, queues
  <2> QED
    BY <1>2, <1>3, <2>1, Zenon
<1>8. CASE RequestStop \/ UNCHANGED vars
  BY <1>3, <1>8 DEF RequestStop, vars, queues
<1> QED
  BY <1>4, <1>5, <1>6, <1>7, <1>8 DEF Next, Environment, Listen

\* A client that process_client leaves waiting holds less than the longest
\* packet: each of its states asks for no more, and the length it trusts was
\* checked against MAX_PAYLOAD_SIZE.
LEMMA WaitingIsShort ==
  ASSUME TypeOK, ClientsInv, NotEnough
  PROVE  Len(Ring) < PacketSize(MAX_PAYLOAD_SIZE)
<1>1. pc = "process"
  BY Zenon DEF NotEnough, InState
<1>2. PICK M \in Nat : M = MAX_PAYLOAD_SIZE /\ PacketSize(MAX_PAYLOAD_SIZE) = M + 6
  BY LongestPacket, Zenon
<1>3. Len(Ring) \in Nat /\ LengthIsFresh(m_clients[client])
  BY <1>1, FrontType, Front, Zenon
<1>4. CASE Len(Ring) < HEADER_SIZE \/ Len(Ring) < HEADER_SIZE + LENGTH_SIZE
  BY <1>2, <1>3, <1>4 DEF HEADER_SIZE, LENGTH_SIZE
<1>5. CASE InState("WAIT_PAYLOAD_AND_CRC") /\ Len(Ring) < PacketSize(payload_length)
  <2>1. GoodLength(payload_length)
    BY <1>3, <1>5, Zenon DEF InState, LengthIsFresh, payload_length
  <2>2. PICK n \in Nat : n = payload_length
    <3>1. payload_length \in Uint16
      BY <1>1, FrontType, Zenon
    <3>2. Uint16 \subseteq Nat
      BY DEF Uint16
    <3> QED
      BY <3>1, <3>2, Zenon
  <2>3. n <= M
    BY <1>2, <2>1, <2>2 DEF GoodLength
  <2>4. Len(Ring) < n + 6
    BY <1>5, <2>2, PacketSizeNat
  <2> QED
    BY <1>2, <1>3, <2>3, <2>4
<1> QED
  BY <1>4, <1>5, Zenon DEF NotEnough

LEMMA IdleRingsStayShort ==
  ASSUME TypeOK, TypeOK', ClientsInv, IdleRingsShort, [Next]_vars
  PROVE  IdleRingsShort'
<1> USE DEF IdleRingsShort
<1>1. ASSUME m_clients' = m_clients, pc' = pc, client' = client
      PROVE  IdleRingsShort'
  BY <1>1 DEF Idle
<1>2. CASE Environment \/ UNCHANGED vars
  BY <1>1, <1>2
     DEF Environment, Listen, Accept, ReceiveChunk, Disconnect, RequestStop, parserVars, vars
<1>3. CASE CheckStop \/ PopStopped
  BY <1>3 DEF CheckStop, PopStopped, Idle
<1>4. CASE PopDisconnect \/ PopOverflow
  <2>1. EraseClient /\ pc = "pop"
    BY <1>4, Zenon DEF PopDisconnect, PopOverflow
  <2>2. \A fd \in DOMAIN m_clients' : fd \in DOMAIN m_clients /\ m_clients'[fd] = m_clients[fd]
    BY <2>1, EraseStep
  <2> QED
    BY <2>1, <2>2 DEF Idle
<1>5. CASE PopData
  <2>1. /\ DOMAIN m_clients' = DOMAIN m_clients \cup {Chunk.client_id}
        /\ \A fd \in DOMAIN m_clients \ {Chunk.client_id} : m_clients'[fd] = m_clients[fd]
    BY <1>5, PopDataStep, Zenon
  <2>2. pc = "pop" /\ pc' = "process" /\ client' = Chunk.client_id
    BY <1>5, Zenon DEF PopData
  <2> QED
    BY <2>1, <2>2 DEF Idle
<1>6. CASE Return
  <2>1. NotEnough /\ m_clients' = m_clients /\ pc = "process"
    BY <1>6, Zenon DEF Return, NotEnough, InState
  <2>2. Len(m_clients[client].ring_buffer) < PacketSize(MAX_PAYLOAD_SIZE)
    BY <2>1, WaitingIsShort, Zenon DEF Ring
  <2> QED
    BY <2>1, <2>2, Zenon DEF Idle
<1>7. ASSUME NEW n, NEW st, NEW len, pc = "process", pc' = pc, client' = client, Advance(n, st, len)
      PROVE  IdleRingsShort'
  BY <1>7 DEF Advance, Idle, TypeOK
<1>8. CASE HeaderMissing \/ HeaderFound \/ LengthAbsurd \/ LengthValid \/ CrcMismatch \/ TakePacket
  <2>1. /\ pc = "process" /\ pc' = pc /\ client' = client
        /\ \E n, st, len : Advance(n, st, len)
    BY <1>8, Zenon DEF HeaderMissing, HeaderFound, LengthAbsurd, LengthValid, CrcMismatch,
       TakePacket, Resync, PacketComplete, InState
  <2> QED
    BY <1>7, <2>1, Zenon
<1> QED
  BY <1>2, <1>3, <1>4, <1>5, <1>6, <1>8, Zenon DEF Next, run, process_client

LEMMA RoomSum ==
  ASSUME NEW held \in Nat, NEW chunk \in Nat, NEW R \in Nat, NEW P \in Nat, NEW cap \in Nat,
         held < P, chunk <= R, cap >= R + P - 1
  PROVE  held + chunk <= cap
  OBVIOUS

\* With a ring that holds a packet less one byte and a chunk, as the program's
\* 65536 bytes do, RingBuffer::push never throws: whatever the drones send, no
\* client is dropped by run's overflow branch.
THEOREM NoOverflow ==
  ASSUME Capacity >= RECV_BUF_SIZE + PacketSize(MAX_PAYLOAD_SIZE) - 1
  PROVE  Spec => []RoomForEveryChunk
<1>1. Init => SmallChunks /\ IdleRingsShort
  BY DEF Init, SmallChunks, IdleRingsShort
<1>2. /\ TypeOK /\ TypeOK' /\ ClientsInv /\ SmallChunks /\ IdleRingsShort /\ [Next]_vars
      => SmallChunks' /\ IdleRingsShort'
  BY ChunksStaySmall, IdleRingsStayShort
<1>3. TypeOK /\ SmallChunks /\ IdleRingsShort => RoomForEveryChunk
  <2> SUFFICES ASSUME TypeOK, SmallChunks, IdleRingsShort, pc = "pop", m_raw_queue # << >>
               PROVE  Len(FoundClient.ring_buffer) + Len(Chunk.data) <= Capacity
    BY DEF RoomForEveryChunk, IdleRingsShort
  <2>1. FoundClient \in ClientState /\ Chunk \in DataChunk
    BY ChunkType, Zenon
  <2>2. Len(FoundClient.ring_buffer) \in Nat /\ Len(Chunk.data) \in Nat
    <3>1. ASSUME NEW cs \in ClientState, NEW d \in DataChunk
          PROVE  cs.ring_buffer \in Seq(Byte) /\ d.data \in Seq(Byte)
      BY DEF ClientState, DataChunk
    <3>2. ASSUME NEW q \in Seq(Byte) PROVE Len(q) \in Nat
      OBVIOUS
    <3> QED
      BY <2>1, <3>1, <3>2, Zenon
  <2>3. PICK P \in Nat : P = PacketSize(MAX_PAYLOAD_SIZE) /\ P >= 6
    <3>1. PICK M \in Nat : M = MAX_PAYLOAD_SIZE /\ PacketSize(MAX_PAYLOAD_SIZE) = M + 6
      BY LongestPacket, Zenon
    <3>2. M + 6 \in Nat /\ M + 6 >= 6
      OBVIOUS
    <3> QED
      BY <3>1, <3>2, Zenon
  <2>4. Len(FoundClient.ring_buffer) < P
    <3>1. CASE Chunk.client_id \in DOMAIN m_clients
      BY <2>3, <3>1 DEF IdleRingsShort, Idle, FoundClient
    <3>2. CASE Chunk.client_id \notin DOMAIN m_clients
      BY <2>3, <3>2 DEF FoundClient, NewClient
    <3> QED
      BY <3>1, <3>2
  <2>5. Len(Chunk.data) <= RECV_BUF_SIZE
    BY DEF SmallChunks, Chunk, TypeOK
  <2>6. RECV_BUF_SIZE \in Nat /\ Capacity \in Nat
    BY ParserAssumption
  <2> QED
    BY <2>2, <2>3, <2>4, <2>5, <2>6, RoomSum, Zenon
<1> QED
  BY <1>1, <1>2, <1>3, TypeCorrect, ClientsCorrect, PTL DEF Spec

-----------------------------------------------------------------------------
(* Collected is the function that its recursive definition describes.      *)

\* What a reader collects from offset p on, if f is what it collects from later
\* ones and e what it takes from the packets.
Found(s, e, f, p) ==
  IF PacketAt(s, p) THEN e[p] \o f[p + PacketSize(LengthAt(s, p))]
  ELSE IF NoPacketAt(s, p) THEN f[p + 1] ELSE << >>

\* Where the reader goes from p: to the right, and not past the end.
LEMMA ReaderMoves ==
  ASSUME NEW s \in Seq(Byte), NEW p \in Nat
  PROVE  /\ PacketAt(s, p) => /\ PacketSize(LengthAt(s, p)) \in Nat \ {0}
                              /\ p + PacketSize(LengthAt(s, p)) \in p + 1 .. Len(s)
         /\ NoPacketAt(s, p) => p + 1 \in p + 1 .. Len(s)
         /\ ~(PacketAt(s, p) /\ NoPacketAt(s, p))
<1> USE DEF HEADER_SIZE, LENGTH_SIZE
<1>0. Len(s) \in Nat
  OBVIOUS
<1>1. p + 4 <= Len(s) => LengthAt(s, p) \in Nat
  <2> SUFFICES ASSUME p + 4 <= Len(s) PROVE LengthAt(s, p) \in Nat
    OBVIOUS
  <2>1. p + 2 \in Nat /\ (p + 2) + 2 <= Len(s)
    BY <1>0
  <2>2. Uint16At(s, p + 2) \in Uint16
    BY <2>1, Uint16Range, Zenon
  <2>3. Uint16 \subseteq Nat
    BY DEF Uint16
  <2> QED
    BY <2>2, <2>3, Zenon DEF LengthAt
<1>2. ASSUME PacketAt(s, p)
      PROVE  /\ PacketSize(LengthAt(s, p)) \in Nat \ {0}
             /\ p + PacketSize(LengthAt(s, p)) \in p + 1 .. Len(s)
             /\ ~NoPacketAt(s, p)
  <2>1. /\ p + 4 <= Len(s) /\ HeaderAt(s, p) /\ GoodLength(LengthAt(s, p))
        /\ p + PacketSize(LengthAt(s, p)) <= Len(s) /\ CrcMatchesAt(s, p, LengthAt(s, p))
    BY <1>0, <1>2 DEF PacketAt
  <2>2. PICK n \in Nat : n = LengthAt(s, p)
    BY <1>1, <2>1, Zenon
  <2>3. PacketSize(n) = n + 6
    BY PacketSizeNat
  <2>4. ~NoPacketAt(s, p)
    BY <2>1, Zenon DEF NoPacketAt
  <2> QED
    BY <1>0, <2>1, <2>2, <2>3, <2>4
<1>3. ASSUME NoPacketAt(s, p) PROVE p + 1 \in p + 1 .. Len(s)
  BY <1>0, <1>3 DEF NoPacketAt
<1> QED
  BY <1>2, <1>3

LEMMA FoundLooksRight ==
  ASSUME NEW s \in Seq(Byte), NEW p \in Nat, NEW e, NEW f, NEW g,
         \A i \in p + 1 .. Len(s) : f[i] = g[i]
  PROVE  Found(s, e, f, p) = Found(s, e, g, p)
<1>1. CASE PacketAt(s, p)
  BY <1>1, ReaderMoves, Zenon DEF Found
<1>2. CASE ~PacketAt(s, p) /\ NoPacketAt(s, p)
  BY <1>2, ReaderMoves, Zenon DEF Found
<1>3. CASE ~PacketAt(s, p) /\ ~NoPacketAt(s, p)
  BY <1>3, Zenon DEF Found
<1> QED
  BY <1>1, <1>2, <1>3

IsReading(s, e, f, a) == f = [p \in a .. Len(s) |-> Found(s, e, f, p)]

LEMMA ReadingExists ==
  ASSUME NEW s \in Seq(Byte), NEW e
  PROVE  \E f : IsReading(s, e, f, 0)
<1> DEFINE L == Len(s)
           S == {n \in Nat : n <= L => \E f : IsReading(s, e, f, L - n)}
<1>0. L \in Nat
  OBVIOUS
<1> HIDE DEF L
<1>1. 0 \in S
  <2> DEFINE f == [p \in L .. L |-> << >>]
  <2>1. ~PacketAt(s, L) /\ ~NoPacketAt(s, L)
    <3>1. ASSUME L + 1 \in L + 1 .. Len(s) PROVE FALSE
      BY <1>0, <3>1 DEF L
    <3>2. ASSUME NEW k \in Nat \ {0}, L + k \in L + 1 .. Len(s) PROVE FALSE
      BY <1>0, <3>2 DEF L
    <3> QED
      BY <1>0, <3>1, <3>2, ReaderMoves, Zenon
  <2>2. Found(s, e, f, L) = << >>
    BY <2>1, Zenon DEF Found
  <2>3. f = [p \in L .. L |-> Found(s, e, f, p)]
    <3>1. ASSUME NEW p \in L .. L PROVE Found(s, e, f, p) = << >>
      <4>1. p = L
        BY <1>0
      <4> QED
        BY <2>2, <4>1
    <3> HIDE DEF f
    <3>2. [p \in L .. L |-> Found(s, e, f, p)] = [p \in L .. L |-> << >>]
      BY <3>1
    <3> QED
      BY <3>2 DEF f
  <2>4. L - 0 = L
    BY <1>0
  <2>5. IsReading(s, e, f, L - 0)
    BY <2>3, <2>4, Zenon DEF IsReading, L
  <2> HIDE DEF f
  <2> QED
    BY <2>5
<1>2. ASSUME NEW n \in Nat, n \in S PROVE n + 1 \in S
  <2> SUFFICES ASSUME n + 1 <= L PROVE \E g : IsReading(s, e, g, L - (n + 1))
    OBVIOUS
  <2>1. PICK f : IsReading(s, e, f, L - n)
    BY <1>0, <1>2
  <2>2. PICK b \in Nat : b = L - (n + 1) /\ L - n = b + 1 /\ b + 1 <= L
    BY <1>0
  <2> DEFINE g == [p \in b .. L |-> IF p = b THEN Found(s, e, f, b) ELSE f[p]]
  <2>3. g[b] = Found(s, e, f, b) /\ \A p \in b + 1 .. L : g[p] = f[p]
    BY <1>0, <2>2
  <2>4. \A p \in b + 1 .. L : f[p] = Found(s, e, f, p)
    BY <2>1, <2>2 DEF IsReading, L
  <2>5. ASSUME NEW p \in b .. L PROVE g[p] = Found(s, e, g, p)
    <3>1. p \in Nat /\ \A i \in p + 1 .. Len(s) : i \in b + 1 .. L
      BY <1>0, <2>2 DEF L
    <3> HIDE DEF g
    <3>2. Found(s, e, f, p) = Found(s, e, g, p)
      <4>1. \A i \in p + 1 .. Len(s) : f[i] = g[i]
        BY <2>3, <3>1, Zenon
      <4> QED
        BY <3>1, <4>1, FoundLooksRight
    <3>3. p = b \/ p \in b + 1 .. L
      BY <1>0, <2>2
    <3> QED
      BY <2>3, <2>4, <3>2, <3>3, Zenon
  <2>6. g = [p \in b .. L |-> g[p]]
    OBVIOUS
  <2> HIDE DEF g
  <2>7. [p \in b .. L |-> g[p]] = [p \in b .. L |-> Found(s, e, g, p)]
    BY <2>5
  <2>8. IsReading(s, e, g, b)
    BY <2>6, <2>7, Zenon DEF IsReading, L
  <2> QED
    BY <2>2, <2>8
<1> HIDE DEF S
<1>3. L \in S
  BY <1>0, <1>1, <1>2, Induction
<1>4. \E f : IsReading(s, e, f, L - L)
  BY <1>0, <1>3 DEF S
<1>5. L - L = 0
  BY <1>0
<1> QED
  BY <1>4, <1>5

LEMMA CollectedReads ==
  ASSUME NEW s \in Seq(Byte), NEW e, NEW p \in 0 .. Len(s)
  PROVE  Collected(s, e)[p] = Found(s, e, Collected(s, e), p)
<1>1. IsReading(s, e, Collected(s, e), 0)
  <2>1. Collected(s, e) = CHOOSE f : IsReading(s, e, f, 0)
    BY DEF Collected, IsReading, Found
  <2> QED
    BY <2>1, ReadingExists, Zenon
<1> DEFINE f == Collected(s, e)
<1> HIDE DEF f
<1>2. f = [i \in 0 .. Len(s) |-> Found(s, e, f, i)]
  BY <1>1 DEF IsReading, f
<1>3. f[p] = Found(s, e, f, p)
  BY <1>2
<1> QED
  BY <1>3 DEF f

\* What is taken from each packet being a sequence, so is what is collected.
LEMMA CollectedType ==
  ASSUME NEW s \in Seq(Byte), NEW V, NEW e, \A p \in Starts(s) : e[p] \in Seq(V)
  PROVE  \A p \in 0 .. Len(s) : Collected(s, e)[p] \in Seq(V)
<1> DEFINE L == Len(s)
           from == Collected(s, e)
           S == {n \in Nat : n <= L => \A p \in L - n .. L : from[p] \in Seq(V)}
<1>0. L \in Nat
  OBVIOUS
<1>1. \A p \in 0 .. L : from[p] = Found(s, e, from, p)
  BY CollectedReads, Zenon
<1> HIDE DEF L, from
<1>2. ASSUME NEW p \in 0 .. L, \A i \in p + 1 .. L : from[i] \in Seq(V)
      PROVE  from[p] \in Seq(V)
  <2>0. p \in Nat /\ p \in 0 .. Len(s)
    BY <1>0 DEF L
  <2>1. CASE PacketAt(s, p)
    <3>1. p + PacketSize(LengthAt(s, p)) \in p + 1 .. L
      BY <2>0, <2>1, ReaderMoves, Zenon DEF L
    <3>2. PICK r \in Seq(V) : r = from[p + PacketSize(LengthAt(s, p))]
      BY <1>2, <3>1, Zenon
    <3>3. e[p] \in Seq(V)
      BY <2>0, <2>1, Zenon DEF Starts
    <3>4. from[p] = e[p] \o r
      BY <1>1, <2>1, <3>2, Zenon DEF Found
    <3> QED
      BY <3>3, <3>4
  <2>2. CASE ~PacketAt(s, p) /\ NoPacketAt(s, p)
    BY <1>1, <1>2, <2>0, <2>2, ReaderMoves, Zenon DEF Found, L
  <2>3. CASE ~PacketAt(s, p) /\ ~NoPacketAt(s, p)
    <3>1. from[p] = << >>
      BY <1>1, <2>3, Zenon DEF Found
    <3> QED
      BY <3>1
  <2> QED
    BY <2>1, <2>2, <2>3
<1>3. 0 \in S
  <2>1. ASSUME NEW p \in L - 0 .. L PROVE p \in 0 .. L /\ \A i \in p + 1 .. L : FALSE
    BY <1>0
  <2> QED
    BY <1>2, <2>1
<1>4. ASSUME NEW n \in Nat, n \in S PROVE n + 1 \in S
  <2> SUFFICES ASSUME n + 1 <= L, NEW p \in L - (n + 1) .. L PROVE from[p] \in Seq(V)
    OBVIOUS
  <2>1. p \in 0 .. L /\ \A i \in p + 1 .. L : i \in L - n .. L
    BY <1>0
  <2>2. \A i \in L - n .. L : from[i] \in Seq(V)
    BY <1>0, <1>4
  <2> QED
    BY <1>2, <2>1, <2>2
<1> HIDE DEF S
<1>5. L \in S
  BY <1>0, <1>3, <1>4, Induction
<1>6. \A p \in L - L .. L : from[p] \in Seq(V)
  BY <1>0, <1>5 DEF S
<1>7. L - L = 0
  BY <1>0
<1> QED
  BY <1>6, <1>7 DEF L, from

-----------------------------------------------------------------------------
(* The packets taken are the ones that are read.                           *)

\* Offset p is inside no packet of T, and the packets of T from p on.
Between(p, T) == \A f \in T : ~(f.at < p /\ p < f.at + f.size)
StartingFrom(p, T) == {f \in T : p <= f.at}

Elements(q) == {q[i] : i \in DOMAIN q}

LEMMA ElementsConcat ==
  ASSUME NEW V, NEW x \in V, NEW q \in Seq(V)
  PROVE  Elements(<<x>> \o q) = {x} \cup Elements(q)
<1> DEFINE r == <<x>> \o q
<1>1. /\ DOMAIN q = 1 .. Len(q) /\ Len(q) \in Nat /\ DOMAIN r = 1 .. Len(q) + 1
      /\ r[1] = x /\ \A i \in 1 .. Len(q) : r[i + 1] = q[i]
  OBVIOUS
<1> HIDE DEF r
<1>2. Elements(r) \subseteq {x} \cup Elements(q)
  <2> SUFFICES ASSUME NEW i \in DOMAIN r PROVE r[i] = x \/ \E j \in DOMAIN q : r[i] = q[j]
    BY DEF Elements
  <2>1. i = 1 \/ (i - 1 \in 1 .. Len(q) /\ i - 1 + 1 = i)
    BY <1>1
  <2> QED
    BY <1>1, <2>1
<1>3. {x} \cup Elements(q) \subseteq Elements(r)
  <2>1. x \in Elements(r)
    BY <1>1 DEF Elements
  <2>2. ASSUME NEW j \in DOMAIN q PROVE \E i \in DOMAIN r : r[i] = q[j]
    <3>1. j + 1 \in DOMAIN r /\ r[j + 1] = q[j]
      BY <1>1
    <3> QED
      BY <3>1
  <2> QED
    BY <2>1, <2>2 DEF Elements
<1> QED
  BY <1>2, <1>3 DEF r

\* What Places takes from a packet.
Place == [at : Nat, size : Nat]

LEMMA PlacesType ==
  ASSUME NEW s \in Seq(Byte), NEW p \in 0 .. Len(s), PacketAt(s, p)
  PROVE  /\ Places(s)[p] = << [at |-> p, size |-> PacketSize(LengthAt(s, p))] >>
         /\ [at |-> p, size |-> PacketSize(LengthAt(s, p))] \in Place
         /\ Places(s)[p] \in Seq(Place)
<1>1. p \in Nat
  OBVIOUS
<1>2. PacketSize(LengthAt(s, p)) \in Nat
  BY <1>1, ReaderMoves
<1>3. [at |-> p, size |-> PacketSize(LengthAt(s, p))] \in Place
  BY <1>1, <1>2 DEF Place
<1>4. Places(s)[p] = << [at |-> p, size |-> PacketSize(LengthAt(s, p))] >>
  BY Zenon DEF Places, Starts
<1> QED
  BY <1>3, <1>4

\* The reader goes from one offset between the packets taken to the next, up to
\* where the consumed bytes end, and finds what was taken.
LEMMA ReaderFollows ==
  ASSUME NEW h \in History, h.at <= Len(h.pushed), Accounted(h), DisjointPackets(h),
         NEW p \in Nat, p < h.at, Between(p, h.taken),
         \A i \in p + 1 .. h.at :
           Between(i, h.taken) => Elements(Collected(h.pushed, Places(h.pushed))[i]) = StartingFrom(i, h.taken)
  PROVE  Elements(Collected(h.pushed, Places(h.pushed))[p]) = StartingFrom(p, h.taken)
<1> DEFINE s == h.pushed
           a == h.at
           T == h.taken
           e == Places(h.pushed)
           from == Collected(h.pushed, Places(h.pushed))
<1>1. s \in Seq(Byte) /\ Len(s) \in Nat /\ a \in Nat /\ T \in SUBSET [at : Nat, size : Nat]
  BY HistoryType
<1>2. p \in 0 .. Len(s) /\ p \in 0 .. a - 1
  BY <1>1
<1>3. from[p] = Found(s, e, from, p)
  BY <1>1, <1>2, CollectedReads
<1>4. \A f \in T : /\ PacketAt(s, f.at) /\ f.size = PacketSize(LengthAt(s, f.at))
                   /\ f.at + f.size <= a
  BY DEF DisjointPackets
<1>5. \A f, g \in T : f = g \/ f.at + f.size <= g.at \/ g.at + g.size <= f.at
  BY DEF DisjointPackets
<1>6. \A f \in T : f.at \in Nat /\ f.size \in Nat \ {0}
  BY <1>1, <1>4, ReaderMoves
<1>7. NoPacketAt(s, p) \/ \E f \in T : p \in f.at .. f.at + f.size - 1
  BY <1>2 DEF Accounted
<1>8. \A i \in p + 1 .. a : Between(i, T) => Elements(from[i]) = StartingFrom(i, T)
  OBVIOUS
<1> HIDE DEF s, a, T, e, from
<1>9. CASE NoPacketAt(s, p)
  <2>1. ~PacketAt(s, p)
    BY <1>1, <1>9, ReaderMoves
  <2>2. \A f \in T : f.at # p
    BY <1>4, <2>1
  <2>3. Between(p + 1, T)
    BY <1>6, <2>2 DEF Between, T
  <2>4. StartingFrom(p, T) = StartingFrom(p + 1, T)
    BY <1>6, <2>2 DEF StartingFrom
  <2>5. p + 1 \in p + 1 .. a
    BY <1>1 DEF a
  <2>6. from[p] = from[p + 1]
    BY <1>3, <1>9, <2>1, Zenon DEF Found
  <2> QED
    BY <1>8, <2>3, <2>4, <2>5, <2>6 DEF from, T
<1>10. CASE \E f \in T : p \in f.at .. f.at + f.size - 1
  <2>1. PICK f \in T : p \in f.at .. f.at + f.size - 1
    BY <1>10
  <2>2. f.at = p
    <3>1. ~(f.at < p /\ p < f.at + f.size)
      BY DEF Between, T
    <3> QED
      BY <1>6, <2>1, <3>1
  <2>3. PICK n \in Nat \ {0} : n = f.size /\ n = PacketSize(LengthAt(s, p))
    BY <1>4, <1>6, <2>2
  <2>4. f = [at |-> p, size |-> n]
    BY <1>1, <2>2, <2>3
  <2>5. p + n \in p + 1 .. a
    BY <1>1, <1>4, <2>2, <2>3
  <2>6. Between(p + n, T)
    <3> SUFFICES ASSUME NEW g \in T, g.at < p + n, p + n < g.at + g.size PROVE FALSE
      BY DEF Between
    <3>1. f = g \/ f.at + f.size <= g.at \/ g.at + g.size <= f.at
      BY <1>5
    <3>2. PICK x \in Nat, y \in Nat : x = g.at /\ y = g.size
      BY <1>6
    <3>3. f = g => p = x /\ n = y
      BY <2>2, <2>3, <3>2
    <3>4. (p = x /\ n = y) \/ p + n <= x \/ x + y <= p
      BY <2>2, <2>3, <3>1, <3>2, <3>3
    <3>5. x < p + n /\ p + n < x + y
      BY <3>2
    <3> QED
      BY <3>4, <3>5
  <2>7. StartingFrom(p, T) = {f} \cup StartingFrom(p + n, T)
    <3>1. ASSUME NEW g \in T, p <= g.at, g # f PROVE p + n <= g.at
      <4>1. f.at + f.size <= g.at \/ g.at + g.size <= f.at
        BY <1>5, <3>1
      <4>2. g.at \in Nat /\ g.size \in Nat \ {0}
        BY <1>6
      <4> QED
        BY <2>2, <2>3, <3>1, <4>1, <4>2
    <3>2. ASSUME NEW g \in T, p + n <= g.at PROVE p <= g.at
      BY <1>6, <3>2
    <3> QED
      BY <2>2, <3>1, <3>2 DEF StartingFrom
  <2>8. Elements(from[p]) = {[at |-> p, size |-> n]} \cup Elements(from[p + n])
    <3>1. PacketAt(s, p)
      BY <1>4, <2>2
    <3>2. e[p] = << [at |-> p, size |-> n] >> /\ [at |-> p, size |-> n] \in Place
      BY <1>1, <1>2, <2>3, <3>1, PlacesType DEF e, s
    <3>3. \A i \in 0 .. Len(s) : from[i] \in Seq(Place)
      <4>1. \A i \in Starts(s) : e[i] \in Seq(Place)
        BY <1>1, PlacesType DEF e, s, Starts
      <4> QED
        BY <1>1, <4>1, CollectedType DEF from, e, s
    <3>4. p + n \in 0 .. Len(s)
      BY <1>1, <1>2, <2>5 DEF a, s
    <3>5. from[p] = e[p] \o from[p + n]
      BY <1>3, <2>3, <3>1, Zenon DEF Found
    <3> QED
      BY <3>2, <3>3, <3>4, <3>5, ElementsConcat
  <2>9. Elements(from[p + n]) = StartingFrom(p + n, T)
    BY <1>8, <2>5, <2>6
  <2> QED
    BY <2>4, <2>7, <2>8, <2>9 DEF from, T
<1> QED
  BY <1>7, <1>9, <1>10

\* No verdict is possible yet on the offset that was reached.
Undecided(h) == ~PacketAt(h.pushed, h.at) /\ ~NoPacketAt(h.pushed, h.at)

LEMMA TakenAreRead ==
  ASSUME NEW h \in History, h.at <= Len(h.pushed), Accounted(h), DisjointPackets(h), Undecided(h)
  PROVE  h.taken = PacketsIn(h.pushed)
<1> DEFINE s == h.pushed
           a == h.at
           T == h.taken
           e == Places(h.pushed)
           from == Collected(h.pushed, Places(h.pushed))
           S == {n \in Nat : n <= a => \A p \in a - n .. a : Between(p, T) => Elements(from[p]) = StartingFrom(p, T)}
<1>1. s \in Seq(Byte) /\ Len(s) \in Nat /\ a \in Nat /\ T \in SUBSET [at : Nat, size : Nat]
  BY HistoryType
<1>2. \A f \in T : f.at \in Nat /\ f.size \in Nat \ {0} /\ f.at + f.size <= a
  <2>1. \A f \in T : PacketAt(s, f.at) /\ f.size = PacketSize(LengthAt(s, f.at)) /\ f.at + f.size <= a
    BY DEF DisjointPackets
  <2> QED
    BY <1>1, <2>1, ReaderMoves
<1>3. Elements(from[a]) = StartingFrom(a, T)
  <2>1. a \in 0 .. Len(s)
    BY <1>1
  <2>2. from[a] = Found(s, e, from, a)
    BY <1>1, <2>1, CollectedReads
  <2>3. Elements(Found(s, e, from, a)) = {}
    <3>1. Found(s, e, from, a) = << >>
      BY Zenon DEF Undecided, Found
    <3> QED
      BY <3>1 DEF Elements
  <2>4. StartingFrom(a, T) = {}
    <3>1. \A f \in T : ~(a <= f.at)
      BY <1>1, <1>2
    <3> QED
      BY <3>1 DEF StartingFrom
  <2> QED
    BY <2>2, <2>3, <2>4
<1>4. 0 \in S
  <2>1. ASSUME NEW p \in a - 0 .. a PROVE p = a
    BY <1>1
  <2> HIDE DEF s, a, T, e, from
  <2> QED
    BY <1>3, <2>1
<1>5. ASSUME NEW n \in Nat, n \in S PROVE n + 1 \in S
  <2> SUFFICES ASSUME n + 1 <= a, NEW p \in a - (n + 1) .. a, Between(p, T)
               PROVE  Elements(from[p]) = StartingFrom(p, T)
    OBVIOUS
  <2>1. \A i \in a - n .. a : Between(i, T) => Elements(from[i]) = StartingFrom(i, T)
    BY <1>1, <1>5
  <2>2. CASE p \in a - n .. a
    BY <2>1, <2>2
  <2>3. CASE p \notin a - n .. a
    <3>1. p \in Nat /\ p < a /\ \A i \in p + 1 .. a : i \in a - n .. a
      BY <1>1, <2>3
    <3>2. \A i \in p + 1 .. a : Between(i, T) => Elements(from[i]) = StartingFrom(i, T)
      BY <2>1, <3>1
    <3> QED
      BY <3>1, <3>2, ReaderFollows
  <2> QED
    BY <2>2, <2>3
<1> HIDE DEF S
<1>6. a \in S
  BY <1>1, <1>4, <1>5, Induction
<1>7. 0 \in a - a .. a /\ a <= a
  BY <1>1
<1>8. Between(0, T) /\ StartingFrom(0, T) = T
  <2>1. \A f \in T : ~(f.at < 0) /\ 0 <= f.at
    BY <1>2
  <2> QED
    BY <2>1 DEF Between, StartingFrom
<1>9. Elements(from[0]) = T
  BY <1>6, <1>7, <1>8 DEF S
<1> QED
  BY <1>9 DEF PacketsIn, Elements

-----------------------------------------------------------------------------
(* When process_client returns, no verdict is possible on the next byte.   *)

LEMMA TooShort ==
  ASSUME TypeOK, ClientsInv, NotEnough
  PROVE  Undecided(history[client])
<1> DEFINE cs == m_clients[client]
           h == history[client]
           r == Ring
           s == h.pushed
           a == h.at
<1>0. pc = "process"
  BY Zenon DEF NotEnough, InState
<1>1. cs \in ClientState /\ h \in History /\ ClientInv(cs, h) /\ LengthIsFresh(cs)
  BY <1>0, Front, Zenon
<1>2. RestOf(r, s, a) /\ a \in Nat
  BY <1>1, RingRest, HistoryType, Zenon DEF ClientInv, Ring
<1>3. Len(r) \in Nat /\ Len(s) = a + Len(r)
  BY <1>2, Zenon DEF RestOf
<1>4. /\ Len(r) >= 2 => (HeaderAt(r, 0) <=> HeaderAt(s, a))
      /\ Len(r) >= 4 => LengthAt(r, 0) = LengthAt(s, a) /\ LengthAt(r, 0) \in Uint16
  BY <1>2, FrontIsOffset, Zenon
<1>5. payload_length \in Nat
  <2>1. payload_length \in Uint16
    BY <1>0, FrontType, Zenon
  <2>2. Uint16 \subseteq Nat
    BY DEF Uint16
  <2> QED
    BY <2>1, <2>2, Zenon
<1>6. /\ cs.state # "WAIT_HEADER" => Len(r) >= 2 /\ HeaderAt(r, 0)
      /\ cs.state = "WAIT_PAYLOAD_AND_CRC" =>
           Len(r) >= 4 /\ payload_length = LengthAt(r, 0) /\ GoodLength(payload_length)
  BY <1>1 DEF LengthIsFresh, Ring, payload_length, HEADER_SIZE, LENGTH_SIZE
<1> HIDE DEF r, s, a
<1>7. ASSUME Len(r) < 2 PROVE ~PacketAt(s, a) /\ ~NoPacketAt(s, a)
  <2>1. ~(a + HEADER_SIZE <= Len(s)) /\ ~(a + HEADER_SIZE + LENGTH_SIZE <= Len(s))
    BY <1>2, <1>3, <1>7 DEF HEADER_SIZE, LENGTH_SIZE
  <2> QED
    BY <2>1, Zenon DEF PacketAt, NoPacketAt
<1>8. ASSUME Len(r) < 4, HeaderAt(s, a) PROVE ~PacketAt(s, a) /\ ~NoPacketAt(s, a)
  <2>1. ~(a + HEADER_SIZE + LENGTH_SIZE <= Len(s))
    BY <1>2, <1>3, <1>8 DEF HEADER_SIZE, LENGTH_SIZE
  <2> QED
    BY <1>8, <2>1, Zenon DEF PacketAt, NoPacketAt
<1>9. ASSUME NEW n \in Nat, n = LengthAt(s, a), GoodLength(n), HeaderAt(s, a), Len(r) < PacketSize(n)
      PROVE  ~PacketAt(s, a) /\ ~NoPacketAt(s, a)
  <2>1. PICK k \in Nat : k = PacketSize(n)
    BY PacketSizeNat, Zenon
  <2>2. ~(a + k <= Len(s))
    BY <1>2, <1>3, <1>9, <2>1
  <2> QED
    BY <1>9, <2>1, <2>2, Zenon DEF PacketAt, NoPacketAt
<1>10. CASE InState("WAIT_HEADER") /\ Len(Ring) < HEADER_SIZE
  BY <1>7, <1>10 DEF Undecided, HEADER_SIZE, r, s, a
<1>11. CASE InState("WAIT_LENGTH") /\ Len(Ring) < HEADER_SIZE + LENGTH_SIZE
  <2>1. Len(r) < 4 /\ cs.state # "WAIT_HEADER"
    BY <1>11 DEF HEADER_SIZE, LENGTH_SIZE, InState, r
  <2>2. HeaderAt(s, a)
    BY <1>4, <1>6, <2>1, Zenon
  <2> QED
    BY <1>8, <2>1, <2>2, Zenon DEF Undecided, s, a
<1>12. CASE InState("WAIT_PAYLOAD_AND_CRC") /\ Len(Ring) < PacketSize(payload_length)
  <2>1. /\ cs.state = "WAIT_PAYLOAD_AND_CRC" /\ cs.state # "WAIT_HEADER"
        /\ Len(r) < PacketSize(payload_length)
    BY <1>12 DEF InState, r
  <2>2. HeaderAt(s, a) /\ payload_length = LengthAt(s, a) /\ GoodLength(payload_length)
    BY <1>4, <1>6, <2>1, Zenon
  <2> QED
    BY <1>5, <1>9, <2>1, <2>2, Zenon DEF Undecided, s, a
<1> QED
  BY <1>10, <1>11, <1>12, Zenon DEF NotEnough

\* A client that is not being processed waits for bytes.
IdleUndecided == \A fd \in DOMAIN m_clients : Idle(fd) => Undecided(history[fd])

LEMMA IdleStayUndecided ==
  ASSUME TypeOK, ClientsInv, IdleUndecided, [Next]_vars
  PROVE  IdleUndecided'
<1> USE DEF IdleUndecided
<1>1. ASSUME UNCHANGED <<m_clients, history, pc, client>> PROVE IdleUndecided'
  BY <1>1 DEF Idle
<1>2. CASE Environment \/ UNCHANGED vars
  BY <1>1, <1>2
     DEF Environment, Listen, Accept, ReceiveChunk, Disconnect, RequestStop, parserVars, vars
<1>3. CASE CheckStop \/ PopStopped
  BY <1>3 DEF CheckStop, PopStopped, Idle
<1>4. CASE PopDisconnect \/ PopOverflow
  <2>1. EraseClient /\ pc = "pop"
    BY <1>4, Zenon DEF PopDisconnect, PopOverflow
  <2>2. \A fd \in DOMAIN m_clients' : fd \in DOMAIN m_clients /\ history'[fd] = history[fd]
    BY <2>1, EraseStep
  <2> QED
    BY <2>1, <2>2 DEF Idle
<1>5. CASE PopData
  <2>1. /\ DOMAIN m_clients' = DOMAIN m_clients \cup {Chunk.client_id}
        /\ \A fd \in DOMAIN m_clients \ {Chunk.client_id} : history'[fd] = history[fd]
    BY <1>5, PopDataStep, Zenon
  <2>2. pc = "pop" /\ pc' = "process" /\ client' = Chunk.client_id
    BY <1>5, Zenon DEF PopData
  <2> QED
    BY <2>1, <2>2 DEF Idle
<1>6. CASE Return
  <2>1. NotEnough /\ m_clients' = m_clients /\ history' = history /\ pc = "process"
    BY <1>6, Zenon DEF Return, NotEnough, InState
  <2>2. Undecided(history[client])
    BY <2>1, TooShort, Zenon
  <2> QED
    BY <2>1, <2>2, Zenon DEF Idle
<1>7. CASE HeaderMissing \/ HeaderFound \/ LengthAbsurd \/ LengthValid \/ CrcMismatch \/ TakePacket
  <2>1. /\ pc = "process" /\ pc' = pc /\ client' = client
        /\ \E n, st, len : Advance(n, st, len)
        /\ history' = history \/ \E h2 : history' = [history EXCEPT ![client] = h2]
    BY <1>7, Zenon DEF HeaderMissing, HeaderFound, LengthAbsurd, LengthValid, CrcMismatch,
       TakePacket, Resync, PacketComplete, InState
  <2>2. DOMAIN m_clients' = DOMAIN m_clients /\ DOMAIN history = DOMAIN m_clients
    BY <2>1 DEF Advance, TypeOK
  <2>3. \A fd \in DOMAIN m_clients \ {client} : history'[fd] = history[fd]
    BY <2>1, <2>2
  <2> QED
    BY <2>1, <2>2, <2>3 DEF Idle
<1> QED
  BY <1>2, <1>3, <1>4, <1>5, <1>6, <1>7, Zenon DEF Next, run, process_client

\* What a client's stream yields does not depend on where recv() cut it: for
\* any bytes and any cuts, the packets that process_client has taken when it
\* returns are the ones a reader of the whole byte string takes.
THEOREM CutsDoNotMatter == Spec => []FragmentationIndependent
<1>1. Init => IdleUndecided
  BY DEF Init, IdleUndecided
<1>2. TypeOK /\ ClientsInv /\ IdleUndecided /\ [Next]_vars => IdleUndecided'
  BY IdleStayUndecided
<1>3. TypeOK /\ ClientsInv /\ IdleUndecided => FragmentationIndependent
  <2> SUFFICES ASSUME TypeOK, ClientsInv, IdleUndecided, NEW fd \in DOMAIN m_clients, Idle(fd)
               PROVE  history[fd].taken = PacketsIn(history[fd].pushed)
    BY DEF FragmentationIndependent
  <2>1. history[fd] \in History /\ Undecided(history[fd])
    BY DEF TypeOK, IdleUndecided
  <2>2. ClientInv(m_clients[fd], history[fd])
    BY DEF ClientsInv
  <2> QED
    BY <2>1, <2>2, TakenAreRead DEF ClientInv, HoldsRest
<1> QED
  BY <1>1, <1>2, <1>3, ClientsCorrect, PTL DEF Spec

-----------------------------------------------------------------------------
(* process_client makes progress.                                          *)

\* What is left to do for a client: the bytes in its ring, and for the first of
\* them the states still to go through.
Left(cs) ==
  3 * Len(cs.ring_buffer) + (CASE cs.state = "WAIT_HEADER" -> 2
                               [] cs.state = "WAIT_LENGTH" -> 1
                               [] cs.state = "WAIT_PAYLOAD_AND_CRC" -> 0)

\* Why process_client comes back: whatever the bytes, a pass through its loop
\* returns or leaves less to do than before, also after a resynchronisation,
\* which gives up states already passed; and no other thread touches what it
\* works on.
PassesAdvance ==
  [][pc = "process" =>
       /\ run => pc' = "while" \/ Left(m_clients'[client]) < Left(m_clients[client])
       /\ ~run => UNCHANGED <<pc, m_clients>>
       /\ client' = client]_vars

\* Advance leaves less to do if it consumes something, or goes to a later state.
LEMMA AdvanceLeft ==
  ASSUME TypeOK, pc = "process", NEW n \in 0 .. Len(Ring), NEW len \in Uint16,
         NEW st \in {"WAIT_HEADER", "WAIT_LENGTH", "WAIT_PAYLOAD_AND_CRC"},
         Advance(n, st, len),
         \/ n > 0
         \/ m_clients[client].state = "WAIT_HEADER" /\ st = "WAIT_LENGTH"
         \/ m_clients[client].state = "WAIT_LENGTH" /\ st = "WAIT_PAYLOAD_AND_CRC"
  PROVE  Left(m_clients'[client]) < Left(m_clients[client])
<1> DEFINE cs == m_clients[client]
           ds == m_clients'[client]
           L == Len(Ring)
<1>1. Ring \in Seq(Byte) /\ L \in Nat /\ client \in DOMAIN m_clients
  BY FrontType
<1>2. cs \in ClientState /\ cs.ring_buffer = Ring
  BY <1>1 DEF TypeOK, Ring
<1>3. ds = [state |-> st, ring_buffer |-> SubSeq(Ring, n + 1, L), payload_length |-> len]
  <2>1. n \in Nat
    BY <1>1
  <2> QED
    BY <2>1, AdvanceType, Zenon
<1>4. Len(SubSeq(Ring, n + 1, L)) = L - n
  BY <1>1
<1> HIDE DEF cs, ds, L
<1>5. ds.state = st /\ Len(ds.ring_buffer) = L - n /\ Len(cs.ring_buffer) = L
  BY <1>2, <1>3, <1>4 DEF L
<1>6. cs.state \in {"WAIT_HEADER", "WAIT_LENGTH", "WAIT_PAYLOAD_AND_CRC"}
  BY <1>2 DEF ClientState
<1>7. n \in Nat /\ n <= L /\ L \in Nat
  BY <1>1 DEF L
<1>8. \/ n > 0
      \/ cs.state = "WAIT_HEADER" /\ st = "WAIT_LENGTH"
      \/ cs.state = "WAIT_LENGTH" /\ st = "WAIT_PAYLOAD_AND_CRC"
  BY DEF cs
<1>9. PICK x \in 0 .. 2 : /\ Left(cs) = 3 * L + x
                          /\ cs.state = "WAIT_HEADER" => x = 2
                          /\ cs.state = "WAIT_LENGTH" => x = 1
  BY <1>5, <1>6 DEF Left
<1>10. PICK y \in 0 .. 2 : /\ Left(ds) = 3 * (L - n) + y
                           /\ st = "WAIT_LENGTH" => y = 1
                           /\ st = "WAIT_PAYLOAD_AND_CRC" => y = 0
  BY <1>5 DEF Left
<1>11. n > 0 \/ y < x
  BY <1>8, <1>9, <1>10
<1>12. 3 * (L - n) + y < 3 * L + x
  BY <1>7, <1>11
<1> QED
  BY <1>9, <1>10, <1>12 DEF cs, ds

\* Every pass through process_client's loop returns or leaves less to do
\* (src/streamingParser.cpp:121-227); with fairness of the parser thread this is
\* why ProcessReturns holds.
THEOREM PassesAlwaysAdvance == Spec => PassesAdvance
<1>1. ASSUME TypeOK, [Next]_vars, pc = "process"
      PROVE  /\ run => pc' = "while" \/ Left(m_clients'[client]) < Left(m_clients[client])
             /\ ~run => UNCHANGED <<pc, m_clients>>
             /\ client' = client
  <2>0. /\ Ring \in Seq(Byte) /\ Len(Ring) \in Nat /\ payload_length \in Uint16 /\ 0 \in 0 .. Len(Ring)
    BY <1>1, FrontType
  <2>1. CASE process_client
    <3>0. run
      BY <2>1 DEF run
    <3>1. client' = client
      BY <2>1 DEF process_client, Return, HeaderMissing, HeaderFound, LengthAbsurd, LengthValid,
                  CrcMismatch, TakePacket
    <3>2. ASSUME NEW len \in Uint16, Resync(len), Len(Ring) >= 1
          PROVE  Left(m_clients'[client]) < Left(m_clients[client])
      <4>1. 1 \in 0 .. Len(Ring) /\ 1 > 0
        BY <2>0, <3>2
      <4>2. Advance(1, "WAIT_HEADER", len)
        BY <3>2 DEF Resync
      <4> QED
        BY <1>1, <4>1, <4>2, AdvanceLeft
    <3>3. CASE Return
      BY <3>0, <3>1, <3>3 DEF Return
    <3>4. CASE HeaderMissing
      BY <2>0, <3>0, <3>1, <3>2, <3>4 DEF HeaderMissing, HEADER_SIZE
    <3>5. CASE HeaderFound
      <4>1. Advance(0, "WAIT_LENGTH", payload_length) /\ m_clients[client].state = "WAIT_HEADER"
        BY <3>5 DEF HeaderFound, InState
      <4> QED
        BY <1>1, <2>0, <3>0, <3>1, <4>1, AdvanceLeft
    <3>6. CASE LengthAbsurd
      <4>1. LengthAt(Ring, 0) \in Uint16
        BY <1>1, <3>6, LengthType DEF LengthAbsurd
      <4> QED
        BY <2>0, <3>0, <3>1, <3>2, <3>6, <4>1 DEF LengthAbsurd, HEADER_SIZE, LENGTH_SIZE
    <3>7. CASE LengthValid
      <4>1. LengthAt(Ring, 0) \in Uint16
        BY <1>1, <3>7, LengthType DEF LengthValid
      <4>2. Advance(0, "WAIT_PAYLOAD_AND_CRC", LengthAt(Ring, 0)) /\ m_clients[client].state = "WAIT_LENGTH"
        BY <3>7 DEF LengthValid, InState
      <4> QED
        BY <1>1, <2>0, <3>0, <3>1, <4>1, <4>2, AdvanceLeft
    <3>8. ASSUME PacketComplete
          PROVE  Len(Ring) >= 1 /\ PacketSize(payload_length) \in 0 .. Len(Ring)
                 /\ PacketSize(payload_length) > 0
      <4>1. payload_length \in Nat
        BY <2>0 DEF Uint16
      <4>2. PacketSize(payload_length) = payload_length + 6
        BY <4>1, PacketSizeNat
      <4>3. Len(Ring) >= PacketSize(payload_length)
        BY <3>8 DEF PacketComplete
      <4> QED
        BY <2>0, <4>1, <4>2, <4>3
    <3>9. CASE CrcMismatch
      BY <2>0, <3>0, <3>1, <3>2, <3>8, <3>9 DEF CrcMismatch
    <3>10. CASE TakePacket
      <4>1. Advance(PacketSize(payload_length), "WAIT_HEADER", payload_length) /\ PacketComplete
        BY <3>10 DEF TakePacket
      <4> QED
        BY <1>1, <2>0, <3>0, <3>1, <3>8, <4>1, AdvanceLeft
    <3> QED
      BY <2>1, <3>3, <3>4, <3>5, <3>6, <3>7, <3>9, <3>10 DEF process_client
  <2>2. CASE ~run
    <3>1. Environment \/ UNCHANGED vars
      BY <1>1, <2>2, Zenon DEF Next
    <3>2. CASE Environment
      <4>1. UNCHANGED parserVars
        BY <3>2, Zenon DEF Environment, Listen, Accept, ReceiveChunk, Disconnect, RequestStop
      <4> QED
        BY <2>2, <4>1 DEF parserVars
    <3>3. CASE UNCHANGED vars
      BY <2>2, <3>3 DEF vars
    <3> QED
      BY <3>1, <3>2, <3>3
  <2>3. run => process_client
    BY <1>1 DEF run, CheckStop, PopStopped, PopDisconnect, PopOverflow, PopData
  <2> QED
    BY <2>1, <2>2, <2>3, Zenon
<1>2. TypeOK /\ [Next]_vars =>
        [pc = "process" =>
           /\ run => pc' = "while" \/ Left(m_clients'[client]) < Left(m_clients[client])
           /\ ~run => UNCHANGED <<pc, m_clients>>
           /\ client' = client]_vars
  BY <1>1
<1> QED
  BY <1>2, TypeCorrect, PTL DEF Spec, PassesAdvance
=============================================================================
