---------------------------- MODULE CardReadout ----------------------------
(***************************************************************************)
(* card_readouts.h and SI.cpp: the blocks a card is asked for, the record  *)
(* that read makes of them field by field and punch by punch, and the line *)
(* written for it.  The bytes are those of CardImage, their places and     *)
(* meaning those of CardLayout.                                            *)
(***************************************************************************)
EXTENDS CardImage, CardLayout, SequencesExt

CONSTANT Cards     \* the cards put into the reader

\* A card has no more punches, and no bigger numbers, than its memory can hold.
ASSUME CardsAssumption ==
    \A c \in Cards : /\ c \in Content
                     /\ c.count <= Capacity[c.type]
                     /\ c.number < (IF c.type = "card_5" THEN 65536 ELSE 16777216)
                     /\ c.start_no < 65536

VARIABLES
    card,       \* the card read
    stage,      \* how far it is: "inserted", "asked", "read", "written"
    card_id,    \* blocks_read::card_id
    card_serie, \* blocks_read::card_serie
    blocks,     \* the blocks asked for and got
    record,     \* the card_record but its punches
    punches,    \* the places <<block, offset>> of the punches read so far, in order
    latest,     \* the newest of PUNCH_RECORDS
    line        \* history: the line that chip_read has written, its punches left out

vars == <<card, stage, card_id, card_serie, blocks, record, punches, latest, line>>

Family(c) == IF c.type \in {"card_5", "card_6"} THEN c.type ELSE "card_8_family"

Reader == ReaderOf(Family(card), card_serie)

\* blocks_read::operator[]: a block that has not been read is made of zeros.
Data(block, offset, size) == IF block \in blocks THEN BytesAt(card, block, offset, size)
                                                 ELSE [k \in 1..size |-> 0]

-----------------------------------------------------------------------------
NotADateTime == -1

\* get_duration, in ms; the half of the day is not looked at.
GetDuration(source, subsecond) ==
    IF source = 61166 THEN NotADateTime ELSE source * 1000 + (subsecond * 1000) \div 256

\* out_time_duration: whole seconds.
OutTimeDuration(duration) == IF duration = NotADateTime THEN NotADateTime ELSE duration \div 1000

\* A time of the header that takes two bytes, and one that takes four: in whole seconds ...
ShortTime(bytes) == [time |-> GetDuration(Number(bytes), 0), sub |-> FALSE]

HeaderTime(bytes) ==
    [time |-> GetDuration(ReadBits(punch_4bytes_type, bytes, "time_12h"), 0), sub |-> FALSE]

\* ... or with a 256th of a second, which the control number stands for if its highest bit
\* says so.
HeaderTimeWithSubSecond(bytes) ==
    LET control == ReadBits(punch_4bytes_type, bytes, "control_number")
    IN IF control \div 512 = 0 THEN HeaderTime(bytes)
       ELSE [time |-> GetDuration(ReadBits(punch_4bytes_type, bytes, "time_12h"), control % 256),
             sub |-> TRUE]

\* A card_record as it is made, and a time that is not a time.
FreshTime == [time |-> 0, sub |-> FALSE]
Fresh == [id |-> 0, start_no |-> 0, start |-> FreshTime, finish |-> FreshTime,
          check |-> FreshTime, clear |-> FreshTime, count |-> 0]
Unset == [time |-> NotADateTime, sub |-> FALSE]

\* What read has set when its loop begins; count is how many PUNCH_RECORDS there will be.
HeaderOf(c) ==
    LET def == HeaderDef(c)
        data == Data(0, 0, SizeOf(def))
        Field(name) == Number(Taken(def, data, name))
        Short(name) == ShortTime(Taken(def, data, name))
        Long(name) == HeaderTime(Taken(def, data, name))
        LongSub(name) == HeaderTimeWithSubSecond(Taken(def, data, name))
    IN CASE c = "card_5" ->
              [id |-> Field("card_id") + (IF Field("card_serie") = 1 THEN 0
                                          ELSE 100000 * Field("card_serie")),
               start_no |-> Field("start_no"), start |-> Short("start_time"),
               finish |-> Short("finish_time"), check |-> Short("check_time"), clear |-> Unset,
               count |-> Field("record_counter") - 1]
         [] c = "card_6" ->
              [id |-> Field("card_id"), start_no |-> Field("start_no"),
               start |-> LongSub("start_time"), finish |-> LongSub("finish_time"),
               check |-> Long("check_time"), clear |-> Long("clear_time"),
               count |-> Field("record_counter")]
         [] c = "none" -> Fresh
         [] OTHER ->
              [id |-> Field("card_id"), start_no |-> 0,
               start |-> LongSub("start_time"), finish |-> LongSub("finish_time"),
               check |-> Long("check_time"), clear |-> Unset,
               count |-> Field("record_counter")]

\* A round of the loop, with the punch that begins at place p.
PunchRecord(i, p) ==
    LET bits == punch_type(Reader, i)
        data == Data(p[1], p[2], BitArraySize(bits))
    IN [control |-> ReadBits(bits, data, "control_number"),
        time |-> IF Reader = "card_5" /\ i >= 30 THEN NotADateTime
                 ELSE GetDuration(ReadBits(bits, data, "time_12h"), 0)]

NoPunch == [control |-> 0, time |-> NotADateTime]
NoLine == [id |-> 0, check |-> NotADateTime, start |-> NotADateTime, finish |-> NotADateTime, count |-> 0]

-----------------------------------------------------------------------------
Init == /\ card \in Cards
        /\ stage = "inserted"
        /\ card_id = 0 /\ card_serie = 0
        /\ blocks = {}
        /\ record = Fresh
        /\ punches = <<>> /\ latest = NoPunch
        /\ line = NoLine

\* si_card_read of block 0, and si_card_5_read: what the card is, and which of its blocks
\* follow; they are asked for, and read.
ReadBlocks ==
    /\ stage = "inserted"
    /\ stage' = "asked"
    /\ LET block0 == BytesAt(card, 0, 0, BlockSize)
       IN /\ card_id' = CardId(Family(card), block0)
          /\ card_serie' = CardSerie(Family(card), block0)
          /\ blocks' = GetBlocksNeeded(ReaderOf(Family(card), card_serie'), block0)
    /\ UNCHANGED <<card, record, punches, latest, line>>

\* read down to its loop; without a reader it does nothing, and what it returns is not
\* looked at.
ReadHeader ==
    /\ stage = "asked"
    /\ stage' = "read"
    /\ record' = HeaderOf(Reader)
    /\ UNCHANGED <<card, card_id, card_serie, blocks, punches, latest, line>>

\* One round of the loop of read.
ReadPunch ==
    /\ stage = "read"
    /\ Len(punches) < record.count
    /\ LET i == Len(punches)
           place == IF i = 0 THEN FirstPlace(Reader) ELSE NextPlace(Reader, i, punches[i])
       IN /\ punches' = Append(punches, place)
          /\ latest' = PunchRecord(i, place)
    /\ UNCHANGED <<card, stage, card_id, card_serie, blocks, record, line>>

\* chip_read_cb, when the loop has ended.
ChipRead ==
    /\ stage = "read"
    /\ Len(punches) = record.count
    /\ stage' = "written"
    /\ line' = [id |-> record.id, check |-> OutTimeDuration(record.check.time),
                start |-> OutTimeDuration(record.start.time),
                finish |-> OutTimeDuration(record.finish.time), count |-> record.count]
    /\ UNCHANGED <<card, card_id, card_serie, blocks, record, punches, latest>>

Next == ReadBlocks \/ ReadHeader \/ ReadPunch \/ ChipRead

Spec == Init /\ [][Next]_vars

-----------------------------------------------------------------------------
(***************************************************************************)
(* A punch that a station transmits: the bytes it sends, and the line that *)
(* punch_read and punch_read_basic write.                                  *)
(***************************************************************************)
Number4(c) == CASE Family(c) = "card_5" -> <<0, c.serie>> \o TwoBytes(c.number)
                [] OTHER -> <<0>> \o ThreeBytes(c.number)

TransmitRecord(protocol, c, i) ==
    LET t == TwoBytes(PunchTime(c, i) % HalfDay)
        half == <<Afternoon(PunchTime(c, i))>>
        si == Number4(c)
    IN IF protocol = "extended"
       THEN TwoBytes(PunchControl(c, i)) \o si \o half \o t \o <<77, 0, 1, 0>>
       ELSE half \o <<PunchControl(c, i) % 256>> \o Tail(si) \o <<1>> \o t \o <<77, 0, 0>>

\* Mutant: the serie is counted in hundred thousands, as it is for a card read out.
PunchLineDecimal(protocol, data) ==
    LET def == transmit_record_data_def[protocol]
        Field(name) == Number(Taken(def, data, name))
    IN [id |-> IF protocol = "extended" THEN Field("si") ELSE Field("sisn") + 100000 * Field("sis"),
        control |-> Field("cn"), time |-> 1000 * Field("t") + (Field("tss") * 1000) \div 256]

PunchLine(protocol, data) ==
    LET def == transmit_record_data_def[protocol]
        Field(name) == Number(Taken(def, data, name))
    IN [id |-> IF protocol = "extended" THEN Field("si") ELSE Field("sisn") + 65536 * Field("sis"),
        control |-> Field("cn"), time |-> 1000 * Field("t") + (Field("tss") * 1000) \div 256]

-----------------------------------------------------------------------------
TypeOK == /\ card \in Content
          /\ stage \in {"inserted", "asked", "read", "written"}
          /\ card_id \in Nat /\ card_serie \in 0..15
          /\ blocks \subseteq 0..7
          /\ record.id \in Nat /\ record.count \in 0..Capacity[card.type]
          /\ punches \in Seq((0..7) \X Nat)
          /\ latest.control \in 0..1023 /\ latest.time \in Int
          /\ line.id \in Nat

\* A punch is taken from a block that was asked for: any other block stands for zeros,
\* and the punch is lost without a word.
PunchFromReadBlock == punches # <<>> => Last(punches)[1] \in blocks

\* The readers that decide by the record counter alone ask for no block they do not use:
\* each one costs a round trip while the card must stay in the reader.  card_8 and card_p
\* are left out: they always ask for block 1, with or without a punch in it, since they decide
\* by the serie byte (card_readouts.h, get_blocks_needed).
NoIdleBlock == stage = "written" /\ card.type \in {"card_5", "card_6", "card_9", "card_15"}
                 => blocks = {0} \cup {punches[i][1] : i \in 1..Len(punches)}

\* The punch that the loop takes n-th is the n-th that a control has made.
PunchAsMade ==
    punches # <<>> =>
        LET i == Len(punches) - 1
        IN /\ latest.control = PunchControl(card, i)
           /\ IF card.type = "card_5" /\ i >= 30 THEN latest.time = NotADateTime
              ELSE latest.time = 1000 * (PunchTime(card, i) % HalfDay)

\* The time t of the card in the record: the last ms that is not behind sub 256ths of a
\* second, or the second where the field or the card keeps no more.
IsTime(got, t, sub) ==
    IF t.sec = NoTime THEN got.time = NotADateTime
    ELSE LET behind == 1000 * (IF sub = NoSub THEN 0 ELSE sub) - 256 * (got.time % 1000)
         IN /\ got.time \div 1000 = t.sec % HalfDay
            /\ 0 <= behind /\ behind < 256
            /\ got.sub = (sub # NoSub)

InSeconds(got, t) == got = IF t.sec = NoTime THEN NotADateTime ELSE t.sec % HalfDay

\* The header of a record says what the card does, and the line what the record does.
HeaderAsWritten ==
    stage \in {"read", "written"} /\ card.type # OtherCard =>
        LET Kept(t) == IF card.type = "card_5" THEN NoSub ELSE t.sub
        IN /\ IsTime(record.start, card.start, Kept(card.start))
           /\ IsTime(record.finish, card.finish, Kept(card.finish))
           /\ IsTime(record.check, card.check, NoSub)
           /\ IF card.type = "card_6" THEN IsTime(record.clear, card.clear, NoSub)
                                      ELSE record.clear = Unset
           /\ record.count = card.count
           /\ stage = "written" => /\ InSeconds(line.start, card.start)
                                   /\ InSeconds(line.finish, card.finish)

\* A record says what is on the card, whichever of the layouts it has: the times of its
\* header to the ms, and one after the other the punches that the controls have made, with
\* all bits of their control numbers and times.  Only the half of the day is lost; the
\* line has its times cut to whole seconds, and card_5 no times from the 31st punch on.
RecordAsWritten == HeaderAsWritten /\ PunchAsMade

\* The number in the command that announces the card.
Announcement == CASE card.type = "card_5" -> 65536 * card.serie + card.number
                  [] card.type = "card_6" -> card.number
                  [] OTHER -> 16777216 * Serie[card.type] + card.number

\* One card has one number: in its announcement, in the session that reads it and in its
\* record.  A card_5 of serie 1 is announced with 100000 more than it is recorded with.
SameNumber ==
    stage = "written" /\ card.type # OtherCard =>
        /\ record.id = AnnouncedId(Family(card), Announcement)
                          - (IF card.type = "card_5" /\ card.serie = 1 THEN 100000 ELSE 0)
        /\ card.type # "card_5" => record.id = card_id

\* A punch that is transmitted gives the line of the same card, control and second in
\* either protocol (the basic one has a byte for the control), and of the control and
\* second it has when the card is read out; of its number too, unless it is a card_5.
ModesAgree ==
    punches # <<>> =>
        LET i == Len(punches) - 1
            basic == PunchLine("basic", TransmitRecord("basic", card, i))
            extended == PunchLine("extended", TransmitRecord("extended", card, i))
        IN /\ basic.id = extended.id
           /\ card.type # "card_5" => basic.id = record.id
           /\ basic.time = extended.time
           /\ basic.control = extended.control % 256
           /\ latest.control = extended.control
           /\ latest.time # NotADateTime => OutTimeDuration(latest.time) = OutTimeDuration(extended.time)
=============================================================================
