-------------------------- MODULE MCStreamingParser --------------------------
(***************************************************************************)
(* Instances of StreamingParser.  Fields are two bytes wide, so that a     *)
(* telemetry packet is 18 bytes or more; the CRC is the real one.  A       *)
(* drone's stream is put together as tests/drone_load_test.py does, with   *)
(* the damage a link or a faulty drone can add.                            *)
(***************************************************************************)
EXTENDS StreamingParser, Crc16, TLC

\* compute_crc16 is CRC-16/MODBUS: the check value of its catalogue entry, for
\* "123456789", and the residue 0 of a string followed by its own CRC.
ASSUME CrcIsModbus ==
  /\ Crc16Modbus([i \in 1 .. 9 |-> 48 + i]) = 19255
  /\ \A a, b \in {0, 1, 85, 128, 170, 255} :
       LET crc == Crc16Modbus(<<a, b>>) IN Crc16Modbus(<<a, b, crc % 256, crc \div 256>>) = 0

Packet(payload) ==
  LET raw == <<170, 85>> \o Packed(Len(payload)) \o payload
  IN raw \o Packed(Crc16Modbus(raw))

\* The same with its CRC flipped, as build_packet(corrupt_crc=True) does.
Corrupted(payload) ==
  LET raw == <<170, 85>> \o Packed(Len(payload)) \o payload
  IN raw \o Packed(Crc16Modbus(raw) ^^ 48879)

Payload(id, fields) == Packed(Len(id)) \o id \o fields

\* What a little-endian receiver should make of it.
Reading(id, f) ==
  [drone_id |-> id, latitude |-> <<f[2], f[1]>>, longitude |-> <<f[4], f[3]>>,
   altitude |-> <<f[6], f[5]>>, speed |-> <<f[8], f[7]>>, timestamp |-> <<f[10], f[9]>>]

F1 == <<1, 2, 3, 4, 5, 6, 7, 8, 9, 10>>
F2 == <<170, 85, 0, 1, 9, 8, 7, 6, 170, 85>>   \* headers, one with a length, inside the payload
P1 == Packet(Payload(<< >>, F1))
P2 == Packet(Payload(<<65>>, F2))
T1 == Reading(<< >>, F1)
T2 == Reading(<<65>>, F2)

\* The packets above are the ones that build_packet makes of the telemetry.
ASSUME PacketsAreBuilt ==
  /\ build_packet(T1) = P1 /\ build_packet(T2) = P2
  /\ T1 \in Sendable /\ T2 \in Sendable /\ IsStreamOf(P1 \o P2 \o P1, <<T1, T2, T1>>)

Drone(stream, packets) == [stream |-> stream, packets |-> packets]

WellBehaved == Drone(P1 \o P2 \o P1, <<T1, T2, T1>>)
\* Noise, and a header's first byte twice.
Noisy == Drone(<<7, 170>> \o P1 \o <<170, 0>> \o P2, <<T1, T2>>)
\* A packet with a bad CRC between two good ones; its payload holds a header.
BadCrc == Drone(P1 \o Corrupted(Payload(<<65>>, F2)) \o P1, <<T1, T1>>)
\* Lengths 0, 21 (one too many) and 43605, each right before a packet.
BadLengths ==
  Drone(<<170, 85, 0, 0>> \o P1 \o <<170, 85, 0, 21>> \o P2 \o <<170, 85, 170, 85, 0>> \o P1,
        <<T1, T2, T1>>)
\* A false header with a believable length swallows the next packet, which is
\* found once the false one has failed its CRC.
FalseHeader == Drone(<<170, 85, 0, 20>> \o P1 \o P2, <<T1, T2>>)
\* Right CRCs around payloads that cannot be deserialized: one byte, an id
\* longer than the payload, fields cut short; and one with bytes to spare.
Malformed ==
  Drone(Packet(<<5>>) \o Packet(<<0, 9, 1>>) \o Packet(<<0, 0, 1, 2>>)
          \o Packet(Payload(<<66>>, F1 \o <<7, 7>>)),
        <<Reading(<<66>>, F1)>>)
\* A false header that waits for more bytes than the drone sends.
Stalled == Drone(<<170, 85, 0, 20>> \o P1, <<T1>>)

Drones == {WellBehaved, Noisy, BadCrc, BadLengths, FalseHeader, Malformed}

\* Two short ones for several connections: a broken-off packet, which a ring of
\* less than its bytes cannot hold, and noise.
Short == {Drone(<<170, 85, 0, 20, 1>>, << >>), Drone(<<3, 170>>, << >>)}

StalledOnly == {Stalled}

\* The CRCs that the streams ask for, computed once.
Asked ==
  UNION {LET s == d.stream IN
           {SubSeq(s, p + 1, p + 4 + LengthAt(s, p)) : p \in
              {q \in 0 .. Len(s) - 4 : /\ HeaderAt(s, q)
                                       /\ GoodLength(LengthAt(s, q))
                                       /\ q + PacketSize(LengthAt(s, q)) <= Len(s)}}
         : d \in Peers}
KnownCrc == [s \in Asked |-> Crc16Modbus(s)]
MCcompute_crc16(s) == IF s \in Asked THEN KnownCrc[s] ELSE Crc16Modbus(s)

MCMaxPayload == 20
MCRecv == 5
FdSymmetry == Permutations(Fd)

\* The smallest ring for which RoomForEveryChunk can hold: 26 - 1 + 5 bytes.
MCCapacity == 30
=============================================================================
