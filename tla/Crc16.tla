------------------------------- MODULE Crc16 -------------------------------
(***************************************************************************)
(* StreamingParser::compute_crc16: CRC-16/MODBUS over a byte string, one   *)
(* byte and one bit at a time.  Each loop is a function of the value of    *)
(* crc and of the iterations left.                                         *)
(***************************************************************************)
EXTENDS Integers, Sequences, Bitwise

Uint16s == 0 .. 65535

ShiftOneBit(crc) == IF crc % 2 = 1 THEN (crc \div 2) ^^ 40961   \* 0xA001
                                   ELSE crc \div 2

\* The inner loop, with j bits to go.
Shifted(value) ==
  LET loop[crc \in Uint16s, j \in 0 .. 8] ==
        IF j = 0 THEN crc ELSE loop[ShiftOneBit(crc), j - 1]
  IN loop[value, 8]

\* The outer loop, from byte i on.
Crc16Modbus(data) ==
  LET loop[crc \in Uint16s, i \in 1 .. Len(data) + 1] ==
        IF i > Len(data) THEN crc ELSE loop[Shifted(crc ^^ data[i]), i + 1]
  IN loop[65535, 1]
=============================================================================
