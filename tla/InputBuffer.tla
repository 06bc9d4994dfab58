----------------------------- MODULE InputBuffer -----------------------------
(***************************************************************************)
(* channel_input.h, process_input and check_input with the parser of       *)
(* either protocol: the bytes of a line come in pieces, and the commands   *)
(* found in them are handed to process_command_input (ChannelInput).       *)
(*                                                                         *)
(* A station sends one item (a frame or a control byte) after another; one *)
(* byte of one frame may be changed on the line, and a stray byte may come *)
(* in front of a frame.  The memory behind the buffer is foreign: it holds *)
(* another value with every read.                                          *)
(***************************************************************************)
EXTENDS ExtendedProtocol, SequencesExt

CONSTANTS
    Item,           \* [protocol -> the commands that stations send under it]
    MaxSent,        \* bound: items of a run
    Chunk,          \* the size of read_buffer
    Pipelined,      \* an item may follow one that has not been read
    Damage,         \* the values a changed byte can have
    Stray           \* [protocol -> the values a stray byte can have under it]

ASSUME ItemAssumption ==
    /\ DOMAIN Item \subseteq {"extended", "basic"}
    /\ \A p \in DOMAIN Item : \A item \in Item[p] :
           /\ item \in [id : 0..255, data : Seq(0..255), control : BOOLEAN]
           /\ Len(item.data) <= 255
           /\ item.control => item.id \in {ACK, NAK} /\ item.data = <<>>
ASSUME BoundsAssumption == MaxSent \in Nat /\ Chunk \in Nat \ {0}
ASSUME ModeAssumption ==
    /\ Pipelined \in BOOLEAN /\ Damage \subseteq 0..255
    /\ \A p \in DOMAIN Item : Stray[p] \subseteq 0..255

VARIABLES
    protocol,       \* the one the startup has ended with
    input,          \* the buffer, input_size bytes
    line,           \* the bytes not yet read
    sent,           \* history: the items sent, in order
    changed,        \* history: the positions in sent of those changed on the line
    delivered,      \* history: the calls of process_command_input
    running         \* FALSE after a read of memory that is not there, or in an endless loop

vars == <<protocol, input, line, sent, changed, delivered, running, beyond>>

Init == /\ protocol \in DOMAIN Item
        /\ input = <<>> /\ line = <<>>
        /\ sent = <<>> /\ changed = {}
        /\ delivered = <<>>
        /\ running = TRUE
        /\ beyond \in Beyond

-----------------------------------------------------------------------------
Encoded(item) == CASE item.control -> <<item.id>>
                   [] ~item.control /\ IsBasic(item.id) -> WriteDataBasic(item.id, item.data)
                   [] OTHER -> WriteData(item.id, item.data)

MaySend == running /\ Len(sent) < MaxSent /\ (Pipelined \/ line = <<>>)

Send(item) ==
    /\ MaySend
    /\ sent' = Append(sent, item)
    /\ \/ line' = line \o Encoded(item)
       \/ \E b \in Stray[protocol] : ~item.control /\ line' = line \o <<b>> \o Encoded(item)
    /\ UNCHANGED <<protocol, input, changed, delivered, running, beyond>>

\* A byte between the command id and the ETX of an extended frame becomes b.
SendChanged(item, i, b) ==
    LET frame == Encoded(item)
    IN /\ MaySend /\ changed = {}
       /\ ~item.control /\ ~IsBasic(item.id)
       /\ i \in 3..(Len(frame) - 1) /\ frame[i] # b
       /\ sent' = Append(sent, item)
       /\ changed' = changed \cup {Len(sent')}
       /\ line' = line \o [frame EXCEPT ![i] = b]
       /\ UNCHANGED <<protocol, input, delivered, running, beyond>>

-----------------------------------------------------------------------------
\* The bytes that stay in the buffer: its last size ones.
Rest(buf, size) == SubSeq(buf, Len(buf) - size + 1, Len(buf))

\* process_input of the protocol.
DetectIn(buf, it, end, out) ==
    IF protocol = "extended" THEN Detect(buf, it, end, out) ELSE DetectBasic(buf, it, end, out)

\* A round of the loop of check_input.  process_input has moved raw_input to r.keep, and
\* the loop moves it on by all that has been consumed before the next call.
AfterCall(buf, s, r, size) ==
    CASE r.how # "returns" -> [s EXCEPT !.how = r.how, !.out = r.out]
      [] r.how = "returns" /\ (r.keep = s.raw \/ size = 0) ->
             [s EXCEPT !.how = "returns", !.size = size, !.out = r.out]
      [] OTHER -> [s EXCEPT !.raw = r.keep + Len(buf) - size, !.size = size, !.out = r.out]

CheckInputStep(buf, s) ==
    LET r == DetectIn(buf, s.raw, s.raw + s.size, s.out) IN AfterCall(buf, s, r, r.end - r.keep)

CheckInput(buf) ==
    LET run[n \in 0..(Len(buf) + 1)] ==
            IF n = 0 THEN [how |-> "going", raw |-> 1, size |-> Len(buf), out |-> <<>>]
            ELSE LET s == run[n - 1] IN IF GoesOn(s) THEN CheckInputStep(buf, s) ELSE s
    IN run[Len(buf) + 1]

\* process_input, called by handle_read.  handle_read catches what the parser throws
\* and reads on.  A parser that has passed the end of the buffer goes on until it
\* throws at something that looks like a frame, or until the program ends.  The memory
\* behind the next buffer can hold any value again.
Read(n) ==
    LET buf == input \o SubSeq(line, 1, n)
        r == CheckInput(buf)
    IN /\ running
       /\ line' = SubSeq(line, n + 1, Len(line))
       /\ input' = IF r.how = "returns" THEN Rest(buf, r.size) ELSE buf
       /\ delivered' = delivered \o r.out
       /\ running' \in CASE r.how = "overrun" -> BOOLEAN
                         [] r.how = "loops" -> {FALSE}
                         [] OTHER -> {TRUE}
       /\ beyond' \in Beyond
       /\ UNCHANGED <<protocol, sent, changed>>

Next == \/ \E item \in Item[protocol] : Send(item)
        \/ \E item \in Item[protocol], i \in 1..Chunk, b \in Damage : SendChanged(item, i, b)
        \/ \E n \in 1..Chunk : n <= Len(line) /\ Read(n)

Spec == Init /\ [][Next]_vars

-----------------------------------------------------------------------------
TypeOK == /\ input \in Seq(0..255) /\ line \in Seq(0..255)
          /\ sent \in Seq(Item[protocol]) /\ Len(sent) <= MaxSent
          /\ changed \subseteq DOMAIN sent
          /\ delivered \in Seq([id : 0..255, data : Seq(0..255), control : BOOLEAN])
          /\ running \in BOOLEAN /\ beyond \in 0..255

\* The items that reached the program as they were sent.
Intact == LET kept[n \in 0..Len(sent)] ==
                  IF n = 0 THEN <<>>
                  ELSE IF n \in changed THEN kept[n - 1] ELSE Append(kept[n - 1], sent[n])
          IN kept[Len(sent)]

\* However the bytes of an item are cut into reads, also inside its data, where
\* bytes can have the values of STX, ETX, ACK and NAK, and also when the parser
\* throws in the middle of it: the commands are delivered in the order in which
\* they were sent and none twice.  A frame with a changed byte of size, data or
\* checksum never becomes a command, neither by itself nor together with the frames
\* around it (channel_input.h, check_input, with detect_command).
OnceInOrder == IsPrefix(delivered, Intact)

\* While the line changes nothing, no command waits in the buffer after its last byte
\* has been read.
DeliveredWhenRead == line = <<>> /\ changed = {} /\ running => delivered = sent

\* A frame that has not been changed is delivered once, also when one in front of it has
\* been changed, or one behind it: "improved failed communication recovery algorithm"
\* (README.TXT:26).  The run changes no size to a larger one, so the changed frame is
\* complete by itself.
RecoversFromDamage ==
    LET Count(commands, c) == Len(SelectSeq(commands, LAMBDA d : d = c))
    IN line = <<>> /\ running =>
           \A c \in Range(Intact) : Count(delivered, c) = Count(Intact, c)

\* A control is never found in the inside of a frame: "we found stx, don't want to
\* detect ack/nak from stream if parse of command fails" (protocol_encoders.h:438).
ControlsWereSent ==
    \A i \in DOMAIN delivered : delivered[i].control => delivered[i] \in Range(sent)

\* While the line changes nothing, a command is one that was sent: "STX, command, ETX"
\* (protocol_encoders.h:147) is what must be in the buffer before it is taken for a frame.
FramesWereSent ==
    changed = {} => \A i \in DOMAIN delivered : delivered[i] \in Range(sent)
=============================================================================
