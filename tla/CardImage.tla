----------------------------- MODULE CardImage -----------------------------
(***************************************************************************)
(* The cards themselves, as the program takes them to be: what a control   *)
(* has put on a card, and the byte that this makes of each place.  The     *)
(* places are those of the cards' memory, one address after the other, and *)
(* not the loops of the readers.                                           *)
(***************************************************************************)
EXTENDS Integers, Sequences

KnownCard == {"card_5", "card_6", "card_8", "card_9", "card_p", "card_t", "card_15"}

\* A card of the 8 family with a serie that the program does not know.
OtherCard == "other"

\* How many punches a card can hold.
Capacity == [card_5 |-> 36, card_6 |-> 192, card_8 |-> 30, card_9 |-> 50,
             card_p |-> 20, card_t |-> 25, card_15 |-> 128, other |-> 0]

Serie == [card_9 |-> 1, card_8 |-> 2, card_p |-> 4, card_t |-> 6, card_15 |-> 15, other |-> 3]

BlockSize == 128
HalfDay == 43200
NoTime == 86400       \* in place of a second of the day
NoSub == 256          \* in place of a 256th of a second

\* What a card holds: its type and number, the times at start, finish, check and clear,
\* each a second of the day and a 256th of it, and its punches.  The first punch is at
\* the second first, and each one step seconds behind the one before.
Time == [sec : 0..NoTime, sub : 0..NoSub]
Content == [type : KnownCard \cup {OtherCard}, count : 0..192, number : Nat, serie : 0..255,
            start_no : Nat, start : Time, finish : Time, check : Time, clear : Time,
            first : Nat, step : Nat]

PunchControl(c, i) == (31 + 89 * i) % (IF c.type \in {"card_5", "card_t"} THEN 256 ELSE 1024)
PunchTime(c, i) == (c.first + i * c.step) % 86400

TwoBytes(n) == <<(n \div 256) % 256, n % 256>>
ThreeBytes(n) == <<(n \div 65536) % 256>> \o TwoBytes(n)
Afternoon(sec) == IF sec >= HalfDay THEN 1 ELSE 0

\* Four bytes of a header: an instant with a 256th of a second has it in the place of
\* the control number, and says so in the highest bit.
Stamp(t) == IF t.sec = NoTime THEN <<238, 238, 238, 238>>
            ELSE <<(IF t.sub = NoSub THEN 0 ELSE 128) + 36 + Afternoon(t.sec),
                   IF t.sub = NoSub THEN 7 ELSE t.sub>> \o TwoBytes(t.sec % HalfDay)

ShortStamp(t) == IF t.sec = NoTime THEN <<238, 238>> ELSE TwoBytes(t.sec % HalfDay)

PunchBytes(c, i) ==
    LET control == PunchControl(c, i)
        sec == PunchTime(c, i)
    IN CASE c.type = "card_5" /\ i >= 30 -> <<control>>
         [] c.type = "card_5" /\ i < 30 -> <<control>> \o TwoBytes(sec % HalfDay)
         [] c.type = "card_t" -> <<control, 18, 52, 5 * 4 + 1, 128 + 2 * 9 + Afternoon(sec)>>
                                     \o TwoBytes(sec % HalfDay) \o <<99>>
         [] OTHER -> <<64 * (control \div 256) + 2 * 5 + Afternoon(sec), control % 256>>
                         \o TwoBytes(sec % HalfDay)

\* The header fields, by the address of their first byte.
HeaderField(c) ==
    CASE c.type = "card_5" ->
            {<<4, TwoBytes(c.number)>>, <<6, <<c.serie>>>>, <<17, TwoBytes(c.start_no)>>,
             <<19, ShortStamp(c.start)>>, <<21, ShortStamp(c.finish)>>, <<23, <<c.count + 1>>>>,
             <<25, ShortStamp(c.check)>>}
      [] c.type = "card_6" ->
            {<<10, <<0>> \o ThreeBytes(c.number)>>, <<18, <<c.count>>>>, <<20, Stamp(c.finish)>>,
             <<24, Stamp(c.start)>>, <<28, Stamp(c.check)>>, <<32, Stamp(c.clear)>>,
             <<40, <<0, 0>> \o TwoBytes(c.start_no)>>}
      [] OTHER ->
            {<<8, Stamp(c.check)>>, <<12, Stamp(c.start)>>, <<16, Stamp(c.finish)>>,
             <<22, <<c.count>>>>, <<24, <<Serie[c.type]>> \o ThreeBytes(c.number)>>}

\* The address of the first punch of the cards that have them in one row.
FirstPunch == [card_8 |-> 136, card_9 |-> 56, card_p |-> 176, card_t |-> 56, card_15 |-> 512]

\* Which punch the address belongs to, and which of its bytes it is.
PunchAt(c, address) ==
    LET Nth(distance, size) == [index |-> distance \div size, byte |-> (distance % size) + 1]
        cell == address - 32
    IN CASE c.type = "card_5" -> IF cell % 16 = 0 THEN [index |-> 30 + (cell \div 16), byte |-> 1]
                                 ELSE Nth(15 * (cell \div 16) + (cell % 16) - 1, 3)
         [] c.type = "card_6" -> Nth(IF address >= 768 THEN address - 768 ELSE address, 4)
         [] c.type = "card_t" -> Nth(address - FirstPunch[c.type], 8)
         [] OTHER -> Nth(address - FirstPunch[c.type], 4)

InPunches(c, address) ==
    LET first == CASE c.type = "card_5" -> 32
                   [] c.type = "card_6" -> 256
                   [] c.type = OtherCard -> 8 * BlockSize
                   [] OTHER -> FirstPunch[c.type]
    IN address >= first /\ PunchAt(c, address).index < c.count

Filler == 238

\* The byte at an offset of a block.
ByteAt(c, block, offset) ==
    LET address == BlockSize * block + offset
        field == {f \in HeaderField(c) : address \in f[1]..(f[1] + Len(f[2]) - 1)}
    IN IF InPunches(c, address)
       THEN LET p == PunchAt(c, address) IN PunchBytes(c, p.index)[p.byte]
       ELSE IF field = {} THEN Filler
       ELSE LET f == CHOOSE g \in field : TRUE IN f[2][address - f[1] + 1]

BytesAt(c, block, offset, count) == [k \in 1..count |-> ByteAt(c, block, offset + k - 1)]
=============================================================================
