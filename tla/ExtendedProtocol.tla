-------------------------- MODULE ExtendedProtocol --------------------------
(***************************************************************************)
(* protocol_encoders.h: detect_command of both protocols; the extended one *)
(* finds frames of both in the input.                                      *)
(*                                                                         *)
(* An iterator it and the size behind it always move together, so end, the *)
(* place where the input ends, stands for size = end - it.  keep is        *)
(* backup_it: the input in front of it has been delivered, and retval says *)
(* that there is some.                                                     *)
(***************************************************************************)
EXTENDS Frames

CONSTANT Beyond      \* the values that a byte behind the end of a buffer can have

ASSUME BeyondAssumption == Beyond # {} /\ Beyond \subseteq 0..255

VARIABLE beyond      \* the one that the bytes behind the buffer have now

\* What the callback gets: command id, data, control_sequence.
Command(id, data, control) == [id |-> id, data |-> data, control |-> control]

-----------------------------------------------------------------------------
Byte(buf, i) == IF i \in DOMAIN buf THEN buf[i] ELSE beyond

Bytes(buf, first, last) == [i \in 1..(last - first + 1) |-> Byte(buf, first + i - 1)]

(***************************************************************************)
(* A loop of the source is a step on the state of the loop, taken as long  *)
(* as how is "going".  The number of steps is at most the number of bytes  *)
(* and one, for no step stays where it is.                                 *)
(***************************************************************************)
GoesOn(s) == s.how = "going"

\* detect_command_data_size of the basic protocol: it ends at the place of the ETX, with
\* the data in front of it, or without an ETX, or at a stray control.
BasicDataStep(buf, end, s) ==
    LET byte == Byte(buf, s.it)
        Take(b, n) == [s EXCEPT !.it = s.it + n, !.data = Append(s.data, b)]
    IN IF s.it >= end THEN [s EXCEPT !.how = "waits"]
       ELSE CASE byte >= 32 -> Take(byte, 1)
              [] byte = DLE -> IF s.it + 1 >= end THEN [s EXCEPT !.how = "waits"]
                               ELSE Take(Byte(buf, s.it + 1), 2)
              [] byte = ETX -> [s EXCEPT !.how = "found"]
              [] OTHER -> [s EXCEPT !.how = "stray"]

BasicData(buf, it, end) ==
    LET run[n \in 0..(end - it + 1)] ==
            IF n = 0 THEN [how |-> "going", it |-> it, data |-> <<>>]
            ELSE LET s == run[n - 1] IN IF GoesOn(s) THEN BasicDataStep(buf, end, s) ELSE s
    IN run[end - it + 1]

\* extract_command of the basic protocol, from the data of a command on.
TakeData(s, id, found) ==
    CASE found.how = "stray" -> [s EXCEPT !.it = s.it + 3]
      [] found.how = "found" -> [s EXCEPT !.it = found.it + 1, !.keep = found.it + 1,
                                          !.out = Append(s.out, Command(id, found.data, FALSE))]
      [] OTHER -> [s EXCEPT !.how = "returns"]

BasicExtractStep(buf, end, s) ==
    LET id == Byte(buf, s.it + 1)
    IN CASE end - s.it < 3 -> [s EXCEPT !.how = "returns"]
         [] end - s.it >= 3 /\ Byte(buf, s.it) # STX -> [s EXCEPT !.it = s.it + 1]
         [] end - s.it >= 3 /\ Byte(buf, s.it) = STX /\ ~IsBasic(id) -> [s EXCEPT !.it = s.it + 2]
         [] OTHER -> TakeData(s, id, BasicData(buf, s.it + 2, end))

BasicExtract(buf, it, end, out) ==
    LET run[n \in 0..(end - it + 1)] ==
            IF n = 0 THEN [how |-> "going", it |-> it, keep |-> it, out |-> out]
            ELSE LET s == run[n - 1] IN IF GoesOn(s) THEN BasicExtractStep(buf, end, s) ELSE s
    IN run[end - it + 1]

\* What the basic parser has found, and how much of the input it leaves.
ReturnBasic(start, s, basic) ==
    IF basic.keep = s.it THEN [s EXCEPT !.how = "returns", !.end = s.end - (s.it - start)]
    ELSE [s EXCEPT !.how = "returns", !.keep = basic.keep, !.out = basic.out]

\* detect_command of the basic protocol.  A byte in front of the STX moves the iterator
\* and not the size, so the end moves with it.  ACK and NAK are reported and not
\* consumed, so that check_input never returns.
DetectBasicStep(buf, start, s) ==
    LET byte == Byte(buf, s.it)
    IN CASE s.it - start >= s.end - s.it -> [s EXCEPT !.how = "returns", !.end = s.end - (s.it - start)]
         [] s.it - start < s.end - s.it /\ byte \in {ACK, NAK} ->
                [s EXCEPT !.how = "loops", !.out = Append(s.out, Command(byte, <<>>, TRUE))]
         [] s.it - start < s.end - s.it /\ byte = STX ->
                ReturnBasic(start, s, BasicExtract(buf, s.it, s.end, s.out))
         [] OTHER -> [s EXCEPT !.it = s.it + 1, !.end = s.end + 1]

DetectBasic(buf, start, end, out) ==
    LET run[n \in 0..(end - start + 1)] ==
            IF n = 0 THEN [how |-> "going", it |-> start, end |-> end, keep |-> start, out |-> out]
            ELSE LET s == run[n - 1] IN IF GoesOn(s) THEN DetectBasicStep(buf, start, s) ELSE s
    IN run[end - start + 1]

\* The guards of detect_command of the extended protocol, at a place it of the buffer that
\* holds an STX or a control; in front of each, a mutant of it.
IsControlAnywhere(control, byte) == byte \in {ACK, NAK}
IsControl(control, byte) == control /\ byte \in {ACK, NAK}

Checksum(buf, it) == it + 3 + Byte(buf, it + 2)     \* the place of the CRC

CompleteLate(buf, it, end) == it + 2 # end /\ Checksum(buf, it) + 3 < end
Complete(buf, it, end) == it + 2 # end /\ Checksum(buf, it) + 3 <= end

SoundUnchecked(buf, it) == Byte(buf, Checksum(buf, it) + 2) = ETX
Sound(buf, it) ==
    LET crc == Checksum(buf, it)
    IN /\ Crc(Bytes(buf, it + 1, crc - 1)) = 256 * Byte(buf, crc) + Byte(buf, crc + 1)
       /\ Byte(buf, crc + 2) = ETX

\* detect_command of the extended protocol.  An STX forbids the controls until a
\* basic frame has been taken; a frame of the extended protocol does not allow them
\* again.  The basic parser is always given the input from backup_it on.  It can throw, or
\* pass the end of the buffer ("overrun"), where the size that is left wraps around.
Consumed(s, it, control, out) ==
    [s EXCEPT !.it = it, !.keep = it, !.control = control, !.out = out]

\* A basic frame, if the basic parser finds one.
TakeBasic(s, basic) == IF basic.keep = s.keep THEN [s EXCEPT !.it = s.it + 2, !.control = FALSE]
                       ELSE Consumed(s, basic.keep, TRUE, basic.out)

\* At an STX that is not the last byte.
FrameStep(buf, s) ==
    LET id == Byte(buf, s.it + 1)
        crc == Checksum(buf, s.it)
    IN CASE IsBasic(id) -> TakeBasic(s, BasicExtract(buf, s.keep, s.end, s.out))
         [] ~IsBasic(id) /\ ~Complete(buf, s.it, s.end) -> [s EXCEPT !.how = "returns"]
         [] ~IsBasic(id) /\ Complete(buf, s.it, s.end) ->
                IF ~Sound(buf, s.it) THEN [s EXCEPT !.how = "throws"]
                ELSE Consumed(s, crc + 3, FALSE,
                               Append(s.out, Command(id, Bytes(buf, s.it + 3, crc - 1), FALSE)))

DetectStep(buf, s) ==
    LET byte == Byte(buf, s.it)
    IN CASE s.it >= s.end -> [s EXCEPT !.how = "returns"]
         [] s.it < s.end /\ IsControl(s.control, byte) ->
                Consumed(s, s.it + 1, TRUE, Append(s.out, Command(byte, <<>>, TRUE)))
         [] s.it < s.end /\ byte = STX ->
                IF s.it + 1 < s.end THEN FrameStep(buf, s) ELSE [s EXCEPT !.how = "overrun"]
         [] OTHER -> [s EXCEPT !.it = s.it + 1]

Detect(buf, start, end, out) ==
    LET run[n \in 0..(end - start + 1)] ==
            IF n = 0 THEN [how |-> "going", it |-> start, end |-> end, keep |-> start,
                           control |-> TRUE, out |-> out]
            ELSE LET s == run[n - 1] IN IF GoesOn(s) THEN DetectStep(buf, s) ELSE s
    IN run[end - start + 1]
=============================================================================
