--------------------------- MODULE MCInputBuffer ---------------------------
(* InputBuffer with short commands, whose data holds the bytes of STX, ETX, ACK, NAK. *)
EXTENDS InputBuffer

AckControl == Command(ACK, <<>>, TRUE)
CardRemoved == Command(231, <<NAK, ACK, STX>>, FALSE)   \* extended, 0xE7
Empty == Command(240, <<>>, FALSE)                      \* extended, 0xF0
BasicCard == Command(83, <<ACK, STX, 64>>, FALSE)       \* basic, 0x53: its data is escaped

CardOut == Command(70, <<79>>, FALSE)                   \* basic, 0x46, 'O'

\* Under the basic protocol no control: the loop after one is endless.
AllItems == [extended |-> {AckControl, CardRemoved, Empty, BasicCard},
             basic |-> {BasicCard, CardOut}]
OnlyEmpty == [extended |-> {Empty}]
ExtendedAndControl == [extended |-> {CardRemoved, AckControl}]

OnlyBasic == [basic |-> {CardOut}]

NoStray == [extended |-> {}, basic |-> {}]
BeforeExtended == [extended |-> {255}, basic |-> {}]
BeforeBasic == [basic |-> {255}]

\* The memory behind the buffer.
AnyMark == {STX, ETX, ACK, 255}
EndMark == {ETX}
NoMark == {255}

SomeDamage == {STX, ETX, ACK, 240}
NoLongerSize == {0}
NoDamage == {}
=============================================================================
