------------------------------- MODULE Frames -------------------------------
(***************************************************************************)
(* protocol_encoders.h: the bytes of a frame of either protocol.           *)
(***************************************************************************)
EXTENDS Crc529, SequencesExt

STX == 2
ETX == 3
ACK == 6
DLE == 16
NAK == 21

IsBasic(id) == id < 128 \/ id = 196

-----------------------------------------------------------------------------
\* Mutant: the upper byte of the checksum is not shifted down.
WriteDataUnshifted(id, data) ==
    LET body == <<id, Len(data) % 256>> \o data
    IN <<STX>> \o body \o <<Crc(body), Crc(body) % 256, ETX>>

\* write_data of the extended protocol, as the stations send it.
WriteData(id, data) ==
    LET body == <<id, Len(data) % 256>> \o data
    IN <<STX>> \o body \o <<Crc(body) \div 256, Crc(body) % 256, ETX>>

\* write_data of the basic protocol: DLE in front of a byte that could be a control.
WriteDataBasic(id, data) ==
    LET escaped == [i \in DOMAIN data |-> IF data[i] <= 31 THEN <<DLE, data[i]>> ELSE <<data[i]>>]
    IN <<STX, id>> \o FlattenSeq(escaped) \o <<ETX>>
=============================================================================
