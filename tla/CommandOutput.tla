--------------------------- MODULE CommandOutput ---------------------------
(***************************************************************************)
(* channel_output.h with the encoders of protocol_encoders.h: a command is *)
(* encoded by the protocol in place and its bytes are queued in a          *)
(* SerialPort.  At the other end of the line a station, which reads bytes. *)
(***************************************************************************)
EXTENDS SerialPort

CONSTANT Filler      \* what new uint8_t[size] may leave in the bytes of a frame

Encoder == INSTANCE Frames
STX == Encoder!STX

\* A frame is a command, and the protocol that has encoded it.
Encoded == [protocol : {"basic", "extended"}, id : 0..255, data : Seq(0..255), control : BOOLEAN]

\* A control sequence is an acknowledge or its refusal; no command has the id STX, or
\* data that a byte cannot count.
ASSUME EncodedAssumption ==
    \A f \in Frame :
        /\ f \in Encoded /\ Len(f.data) <= 255 /\ f.id # STX
        /\ f.protocol = "extended" \/ Encoder!IsBasic(f.id)
        /\ f.control => f.id \in {Encoder!ACK, Encoder!NAK} /\ f.data = <<>>
ASSUME FillerAssumption == Filler \subseteq 0..255

VARIABLES
    protocol,     \* the one in place: channel_output::protocol
    filler        \* what the memory of the frames happens to hold

output_vars == <<vars, protocol, filler>>

-----------------------------------------------------------------------------
\* get_size of the basic encoder: each data byte is counted twice, and the test for a
\* prefix looks at the first byte each time.
SizeBasic(data) ==
    3 + 2 * Len(data) + (IF data # <<>> /\ Head(data) <= 31 THEN Len(data) ELSE 0)

\* Mutant: the second STX is not counted.
SizeExtendedOneSTX(data) == 6 + Len(data) + 1

SizeExtended(data) == 6 + Len(data) + 2

\* Which encoder channel_protocol::encode_command takes; the one for the basic protocol
\* does not ask whether the command is a control sequence.
EncoderOf(f) == IF f.protocol = "extended" /\ f.control THEN "control_sequence"
                ELSE IF Encoder!IsBasic(f.id) THEN "basic" ELSE "extended"

\* The size that encode announces, and the bytes that it writes.
GetSize(f) == CASE EncoderOf(f) = "control_sequence" -> 1
                [] EncoderOf(f) = "basic" -> SizeBasic(f.data)
                [] EncoderOf(f) = "extended" -> SizeExtended(f.data)

\* Mutant: the wake-up byte is put behind the first STX.
WriteDataLateStart(f) ==
    CASE EncoderOf(f) = "control_sequence" -> <<f.id>>
      [] EncoderOf(f) = "basic" -> Encoder!WriteDataBasic(f.id, f.data)
      [] EncoderOf(f) = "extended" -> <<STX, 255>> \o Encoder!WriteData(f.id, f.data)

WriteData(f) ==
    CASE EncoderOf(f) = "control_sequence" -> <<f.id>>
      [] EncoderOf(f) = "basic" -> Encoder!WriteDataBasic(f.id, f.data)
      [] EncoderOf(f) = "extended" -> <<255, STX>> \o Encoder!WriteData(f.id, f.data)

ASSUME SizeIsAnnounced == \A f \in Frame : Size[f] = GetSize(f)

\* The memory of a frame: behind what was written it is as it was.
FrameBytes(f) == [i \in 1..Size[f] |-> IF i \in DOMAIN WriteData(f) THEN WriteData(f)[i] ELSE filler]

-----------------------------------------------------------------------------
OutputInit == Init /\ protocol = "extended" /\ filler \in Filler

\* write_command, from a start on the main thread or a timeout on the io thread.
WriteCommand(f) == /\ f.protocol = protocol
                   /\ WriteRawData(f)
                   /\ UNCHANGED <<protocol, filler>>

\* A reaction that writes the next command.
ReactionWrites(f) == /\ f.protocol = protocol
                     /\ HandleReadAndAnswer(f)
                     /\ UNCHANGED <<protocol, filler>>

\* set_protocol, of a startup that the station has answered by the basic protocol.
SetProtocol == /\ in_port # None
               /\ protocol' = "basic"
               /\ UNCHANGED <<vars, filler>>

Port == /\ \/ Open
           \/ DriverWrites \/ DriverFails \/ HandleWrite
           \/ \E ec \in {"data", "error"} : DeviceSends(ec)
           \/ HandleRead
        /\ UNCHANGED <<protocol, filler>>

OutputNext == \/ \E f \in Frame : WriteCommand(f) \/ ReactionWrites(f)
              \/ SetProtocol
              \/ Port

OutputSpec == OutputInit /\ [][OutputNext]_output_vars

\* The driver ends what it was asked to write, and the io thread runs handlers.
FairOutputSpec ==
    /\ OutputSpec
    /\ WF_output_vars(/\ DriverWrites \/ DriverFails
                      /\ UNCHANGED <<protocol, filler>>)
    /\ WF_output_vars(HandleWrite /\ UNCHANGED <<protocol, filler>>)

-----------------------------------------------------------------------------
(***************************************************************************)
(* The station: it takes one byte after the other, passes over wake-up     *)
(* bytes and repeated STX, and drops what is not a frame.                  *)
(***************************************************************************)
Silent(heard) == [at |-> "idle", id |-> 0, data |-> <<>>, left |-> 0, heard |-> heard]

Hears(heard, id, data, control) ==
    Silent(Append(heard, [id |-> id, data |-> data, control |-> control]))

Goes(s, at) == [s EXCEPT !.at = at]

TakesIdle(s, byte) == IF byte = STX THEN Goes(s, "started")
                      ELSE IF byte \in {Encoder!ACK, Encoder!NAK} THEN Hears(s.heard, byte, <<>>, TRUE)
                      ELSE s

TakesStarted(s, byte) ==
    IF byte = STX THEN s
    ELSE [at |-> IF Encoder!IsBasic(byte) THEN "basic" ELSE "size",
          id |-> byte, data |-> <<>>, left |-> 0, heard |-> s.heard]

TakesBasic(s, byte) == IF byte >= 32 THEN [s EXCEPT !.data = Append(@, byte)]
                       ELSE IF byte = Encoder!DLE THEN Goes(s, "escaped")
                       ELSE IF byte = Encoder!ETX THEN Hears(s.heard, s.id, s.data, FALSE)
                       ELSE Goes(s, IF byte = STX THEN "started" ELSE "idle")

\* The last byte of a body is to be an ETX, with the checksum in front of it.
TakesBody(s, byte) ==
    LET size == Len(s.data) - 2
        data == SubSeq(s.data, 1, size)
        sum == Encoder!Crc(<<s.id, size>> \o data)
    IN IF s.left > 1 THEN [s EXCEPT !.data = Append(@, byte), !.left = @ - 1]
       ELSE IF SubSeq(s.data, size + 1, size + 2) = <<sum \div 256, sum % 256>> /\ byte = Encoder!ETX
       THEN Hears(s.heard, s.id, data, FALSE)
       ELSE Goes(s, "idle")

Takes(s, byte) == CASE s.at = "idle" -> TakesIdle(s, byte)
                    [] s.at = "started" -> TakesStarted(s, byte)
                    [] s.at = "basic" -> TakesBasic(s, byte)
                    [] s.at = "escaped" -> [s EXCEPT !.data = Append(@, byte), !.at = "basic"]
                    [] s.at = "size" -> [s EXCEPT !.left = byte + 3, !.at = "body"]
                    [] s.at = "body" -> TakesBody(s, byte)

\* The byte at this place of the line.
ByteOnLine(place) == FrameBytes(InBytes[place][1])[InBytes[place][2]]

Heard ==
    LET after[n \in 0..Len(InBytes)] ==
            IF n = 0 THEN Silent(<<>>) ELSE Takes(after[n - 1], ByteOnLine(n))
    IN after[Len(InBytes)].heard

-----------------------------------------------------------------------------
OutputTypeOK == /\ TypeOK
                /\ protocol \in {"basic", "extended"}
                /\ filler \in Filler

\* encode writes no byte behind the memory it has taken, although it counts the size and
\* writes the bytes in functions that are apart, three times over.
SizeHoldsFrame == \A f \in ToSet(pushed) : Len(WriteData(f)) <= Size[f]

\* What the station hears of a command; in the basic protocol an acknowledge is a frame.
Meaning(f) == [id |-> f.id, data |-> f.data, control |-> EncoderOf(f) = "control_sequence"]

\* The station hears the commands that were written, in their order and no other, when
\* the protocol changes between them too, as long as the driver takes whole buffers and
\* the bytes behind a frame of the basic protocol do not look like a control.
StationUnderstands ==
    shortened = 0 /\ filler \notin {STX, Encoder!ACK, Encoder!NAK} =>
        /\ IsPrefix(Heard, [i \in DOMAIN pushed |-> Meaning(pushed[i])])
        /\ write = "idle" => Len(Heard) = Len(pushed)
=============================================================================
