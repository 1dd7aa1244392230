---------------------------- MODULE PacketFormat ----------------------------
(***************************************************************************)
(* The wire format: include/telemetry.h, the MAX_PAYLOAD_SIZE of           *)
(* include/streamingParser.h, and the two pure decoders of                 *)
(* src/streamingParser.cpp; what a reader of a whole byte string finds in  *)
(* it; and how a drone builds a packet.  A byte string is a sequence of    *)
(* 0..255; an offset counts from 0, as in the code.                        *)
(***************************************************************************)
EXTENDS Integers, Sequences

CONSTANTS
  MAX_PAYLOAD_SIZE,    \* largest length field that is believed
  FIELD_SIZE,          \* sizeof(double) = sizeof(uint64_t)
  compute_crc16(_)     \* the checksum of a byte string (module Crc16)

Byte == 0 .. 255
Uint16 == 0 .. 65535

ASSUME PacketAssumption ==
  /\ MAX_PAYLOAD_SIZE \in Uint16 \ {0}
  /\ FIELD_SIZE \in Nat \ {0}

PACKET_HEADER == 43605   \* 0xAA55
HEADER_SIZE == 2
LENGTH_SIZE == 2
CRC_SIZE == 2

\* from_big_endian of the uint16_t copied from offset p.
Uint16At(s, p) == 256 * s[p + 1] + s[p + 2]

\* A whole packet with a payload of len bytes.
PacketSize(len) == HEADER_SIZE + LENGTH_SIZE + len + CRC_SIZE

HeaderAt(s, p) == Uint16At(s, p) = PACKET_HEADER

LengthAt(s, p) == Uint16At(s, p + HEADER_SIZE)

\* Mutated form: only a zero length is refused.
GoodLength_NoLimit(len) == len # 0

GoodLength(len) == len # 0 /\ len <= MAX_PAYLOAD_SIZE

\* The received CRC equals the one computed over header, length and payload.
CrcMatchesAt(s, p, len) ==
  LET crc_data_len == HEADER_SIZE + LENGTH_SIZE + len IN
    Uint16At(s, p + crc_data_len) = compute_crc16(SubSeq(s, p + 1, p + crc_data_len))

PayloadAt(s, p, len) ==
  SubSeq(s, p + HEADER_SIZE + LENGTH_SIZE + 1, p + HEADER_SIZE + LENGTH_SIZE + len)

Field == [1 .. FIELD_SIZE -> Byte]
Telemetry == [drone_id : Seq(Byte), latitude : Field, longitude : Field, altitude : Field,
              speed : Field, timestamp : Field]

\* Mutated form: the bytes stay as they were sent.
HostOrder_AsSent(field) == field

\* from_big_endian of a FIELD_SIZE-byte field: its bytes in the order in which
\* a little-endian host keeps them.
HostOrder(field) == [i \in 1 .. Len(field) |-> field[Len(field) + 1 - i]]

\* Where the k-th field after the drone id starts, and what read_field makes of it.
FieldOffset(data, k) == 2 + Uint16At(data, 0) + k * FIELD_SIZE

\* Mutated form: the last byte of a field is left out.
ReadField_Short(data, k) ==
  HostOrder(SubSeq(data, FieldOffset(data, k) + 1, FieldOffset(data, k) + FIELD_SIZE - 1))

ReadField(data, k) ==
  HostOrder(SubSeq(data, FieldOffset(data, k) + 1, FieldOffset(data, k) + FIELD_SIZE))

Fields(data) ==
  [drone_id  |-> SubSeq(data, 3, FieldOffset(data, 0)),
   latitude  |-> ReadField(data, 0),
   longitude |-> ReadField(data, 1),
   altitude  |-> ReadField(data, 2),
   speed     |-> ReadField(data, 3),
   timestamp |-> ReadField(data, 4)]

\* One of the reads would leave the payload: the length of the id, the id, or
\* one of the five fields.  Bytes after the timestamp are ignored.
Truncated(data) ==
  \/ Len(data) < 2
  \/ FieldOffset(data, 0) > Len(data)
  \/ FieldOffset(data, 5) > Len(data)

\* std::optional<Telemetry>, as a sequence of at most one.
deserialize_payload(data) == IF Truncated(data) THEN << >> ELSE << Fields(data) >>

-----------------------------------------------------------------------------
(* What a byte string says about an offset, once enough of it has arrived.  *)

\* A complete packet starts at p.
PacketAt(s, p) ==
  /\ p + HEADER_SIZE + LENGTH_SIZE <= Len(s)
  /\ HeaderAt(s, p)
  /\ GoodLength(LengthAt(s, p))
  /\ p + PacketSize(LengthAt(s, p)) <= Len(s)
  /\ CrcMatchesAt(s, p, LengthAt(s, p))

\* No packet starts at p, whatever bytes follow.
NoPacketAt(s, p) ==
  \/ p + HEADER_SIZE <= Len(s) /\ ~HeaderAt(s, p)
  \/ p + HEADER_SIZE + LENGTH_SIZE <= Len(s) /\ ~GoodLength(LengthAt(s, p))
  \/ /\ p + HEADER_SIZE + LENGTH_SIZE <= Len(s)
     /\ p + PacketSize(LengthAt(s, p)) <= Len(s)
     /\ ~CrcMatchesAt(s, p, LengthAt(s, p))

\* A reader of a whole byte string tries each offset in turn, steps over a
\* packet, and stops at the first offset that more bytes could still turn into
\* a packet.  This is what it collects from an offset to the end, if e[p] is
\* what it takes from a packet at p.
Starts(s) == {p \in 0 .. Len(s) : PacketAt(s, p)}

Collected(s, e) ==
  LET from[p \in 0 .. Len(s)] ==
        IF PacketAt(s, p) THEN e[p] \o from[p + PacketSize(LengthAt(s, p))]
        ELSE IF NoPacketAt(s, p) THEN from[p + 1] ELSE << >>
  IN from

\* Read for the places of the packets, and for the telemetry in them.
Places(s) == [p \in Starts(s) |-> << [at |-> p, size |-> PacketSize(LengthAt(s, p))] >>]
Readings(s) == [p \in Starts(s) |-> deserialize_payload(PayloadAt(s, p, LengthAt(s, p)))]

PacketsIn(s) ==
  LET found == Collected(s, Places(s))[0] IN {found[i] : i \in DOMAIN found}

TelemetryIn(s) == Collected(s, Readings(s))[0]

-----------------------------------------------------------------------------
(* How a drone makes a packet of telemetry: build_packet of                *)
(* tests/drone_load_test.py.                                               *)

\* struct.pack(">H", n), and a field with its most significant byte first.
Packed(n) == << n \div 256, n % 256 >>
WireOrder(field) == [i \in 1 .. FIELD_SIZE |-> field[FIELD_SIZE + 1 - i]]

serialize_payload(t) ==
  Packed(Len(t.drone_id)) \o t.drone_id \o WireOrder(t.latitude) \o WireOrder(t.longitude)
    \o WireOrder(t.altitude) \o WireOrder(t.speed) \o WireOrder(t.timestamp)

build_packet(t) ==
  LET payload == serialize_payload(t)
      raw == Packed(PACKET_HEADER) \o Packed(Len(payload)) \o payload
  IN raw \o Packed(compute_crc16(raw))

\* Telemetry that fits into a packet, and a byte string that is the packets of
\* some telemetry one after the other: that of ts[i] ends at offset o[i].
Sendable == {t \in Telemetry : 2 + Len(t.drone_id) + 5 * FIELD_SIZE <= MAX_PAYLOAD_SIZE}

IsStreamOf(s, ts) ==
  \E o \in [0 .. Len(ts) -> 0 .. Len(s)] :
    /\ o[0] = 0 /\ o[Len(ts)] = Len(s)
    /\ \A i \in 1 .. Len(ts) :
         /\ o[i] = o[i - 1] + Len(build_packet(ts[i]))
         /\ SubSeq(s, o[i - 1] + 1, o[i]) = build_packet(ts[i])
=============================================================================
