----------------------------- MODULE ProtocolCodec -----------------------------
(***************************************************************************)
(* CRC16-Modbus and the Modbus RTU request and response of functions 03    *)
(* and 04 (modules/protocol/frame.c).  A byte is a number of 0..255, a     *)
(* buffer a sequence of bytes.                                             *)
(***************************************************************************)
EXTENDS Integers, Sequences, SequencesExt, Bitwise

Crc == 0..65535

Flip(v, bit) == IF (v \div bit) % 2 = 1 THEN v - bit ELSE v + bit

\* v ^ 0xA001: bits 15, 13 and 0.
XorPolynomial(v) == Flip(Flip(Flip(v, 32768), 8192), 1)

\* The inner loop: `bits` more shifts of crc.
Shifted[crc \in Crc, bits \in 0..8] ==
    IF bits = 0 THEN crc
    ELSE Shifted[IF crc % 2 = 1 THEN XorPolynomial(crc \div 2) ELSE crc \div 2, bits - 1]

frame_crc16_modbus(data) ==
    LET From[crc \in Crc, i \in 1..(Len(data) + 1)] ==
            IF i > Len(data) THEN crc ELSE From[Shifted[crc ^^ data[i], 8], i + 1]
    IN  From[65535, 1]

\* The two bytes on the line, the low one first.
CrcBytes(data) ==
    LET crc == frame_crc16_modbus(data) IN <<crc % 256, crc \div 256>>

-----------------------------------------------------------------------------
Functions == {3, 4}

\* The request of 8 bytes, or <<>> for -1.
modbus_rtu_build_read_registers(slave, function, start, quantity) ==
    LET body == <<slave, function, start \div 256, start % 256,
                  quantity \div 256, quantity % 256>>
    IN  IF /\ function \in Functions
           /\ slave \in 1..247 /\ quantity \in 1..125
           /\ start + quantity <= 65536
        THEN body \o CrcBytes(body)
        ELSE <<>>

modbus_rtu_check_read_registers(frame, slave, function, quantity) ==
    LET length == Len(frame)
        Valid == /\ function \in Functions /\ length >= 5
                 /\ slave \in 1..247 /\ quantity \in 1..125
                 /\ frame[1] = slave
        Normal == /\ frame[2] = function
                  /\ frame[3] = quantity * 2 /\ length = 5 + quantity * 2
        Exception == frame[2] = function + 128 /\ length = 5
        CrcOk == CrcBytes(SubSeq(frame, 1, length - 2)) = SubSeq(frame, length - 1, length)
    IN  IF Valid /\ (Normal \/ Exception) /\ CrcOk
        THEN IF Normal THEN "NORMAL" ELSE "EXCEPTION"
        ELSE "INVALID"

\* The test vector of frame.h: "123456789" has the CRC 0x4B37.
ASSUME CrcVector == frame_crc16_modbus([i \in 1..9 |-> 48 + i]) = 19255
=============================================================================
