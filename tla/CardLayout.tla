----------------------------- MODULE CardLayout -----------------------------
(***************************************************************************)
(* card_readouts.h: which 128-byte blocks of a card are requested after    *)
(* block 0 has been read (get_blocks_needed), and from where the readers   *)
(* take each punch once the requested blocks are there (read).  The two    *)
(* are written apart from each other, once per card type.                  *)
(***************************************************************************)
EXTENDS CardFormats

\* The offset in block 0 of the byte that get_punches_count returns.  card_6, card_9 and
\* card_15 have one of their own; card_8, card_p and card_t inherit the one of
\* card_8_family, where the serie is.
PunchesCountOffset(c) == CASE c = "card_6" -> 18
                           [] c \in {"card_9", "card_15"} -> 22
                           [] c \in {"card_8", "card_p", "card_t"} -> 24

\* Mutant: the sectors are taken in one run.
GetSectorFromIndexInOrder(c) == IF c = "card_6" THEN <<6, 7, 8, 9, 10, 11>> ELSE <<4, 5, 6, 7>>

GetSectorFromIndex(c) == IF c = "card_6" THEN <<6, 7, 2, 3, 4, 5>> ELSE <<4, 5, 6, 7>>

\* Mutants: the last sector, begun, is not counted; one that is not begun is.
SectorsNeededDown(n) == n \div 32
SectorsNeededUp(n) == (n \div 32) + (IF n < 128 THEN 1 ELSE 0)

SectorsNeeded(n) == (n \div 32) + (IF n % 32 # 0 THEN 1 ELSE 0)

\* What card_type_getter finds for a card_serie of the 8 family.
known_card_types ==
    [serie \in {1, 2, 4, 6, 15} |-> CASE serie = 1 -> "card_9"
                                      [] serie = 2 -> "card_8"
                                      [] serie = 4 -> "card_p"
                                      [] serie = 6 -> "card_t"
                                      [] serie = 15 -> "card_15"]

\* get_blocks_needed of the reader c, if there is one; block0 is the data of block 0.
GetBlocksNeeded(c, block0) ==
    LET found == block0[PunchesCountOffset(c) + 1]
    IN {0} \cup
       CASE c \in {"card_5", "none"} -> {}
         [] c \in {"card_8", "card_p"} -> IF 0 < found THEN {1} ELSE {}
         [] c = "card_9" -> IF 18 < found THEN {1} ELSE {}
         [] c = "card_t" -> IF 9 < found THEN {1} ELSE {}
         [] c \in {"card_6", "card_15"} ->
                {GetSectorFromIndex(c)[s] : s \in 1..SectorsNeeded(found)}

-----------------------------------------------------------------------------
\* Bytes that read_data takes for the punch with index i.
PunchSize(c, i) == BitArraySize(punch_type(c, i))

\* Where the loop of read starts ...
FirstPlace(c) == CASE c = "card_5" -> <<0, 33>>
                   [] c = "card_8" -> <<1, 8>>
                   [] c = "card_p" -> <<1, 48>>
                   [] c \in {"card_9", "card_t"} -> <<0, 56>>
                   [] c \in {"card_6", "card_15"} -> <<GetSectorFromIndex(c)[1], 0>>

\* ... and where it is at index i, having taken the one before from place p.
NextPlace(c, i, p) ==
    LET after == <<p[1], p[2] + PunchSize(c, i - 1)>>
    IN CASE c = "card_5" /\ i < 30 -> IF i % 5 = 0 THEN <<0, after[2] + 1>> ELSE after
         [] c = "card_5" /\ i >= 30 -> <<0, 32 + 16 * (i - 30)>>
         [] c = "card_9" -> IF i = 18 THEN <<1, 0>> ELSE after
         [] c = "card_t" -> IF i = 9 THEN <<1, 0>> ELSE after
         [] c \in {"card_8", "card_p"} -> after
         [] c \in {"card_6", "card_15"} ->
                IF i % 32 = 0 THEN <<GetSectorFromIndex(c)[(i \div 32) + 1], 0>> ELSE after

-----------------------------------------------------------------------------
\* Mutant: the id of a card_6 is taken from a byte too far.
CardIdLate(c, block0) ==
    CASE c = "card_5" -> 0
      [] c = "card_6" -> Number(SubSeq(block0, 12, 15))
      [] OTHER -> ReadBits(card_id_serie, SubSeq(block0, 25, 28), "card_id")

\* get_id of the data of block 0, which a card_5 is not asked for ...
CardId(c, block0) ==
    CASE c = "card_5" -> 0
      [] c = "card_6" -> Number(SubSeq(block0, 11, 14))
      [] OTHER -> ReadBits(card_id_serie, SubSeq(block0, 25, 28), "card_id")

\* ... and get_id of the number that the station announces the card with.
AnnouncedId(c, si) == CASE c = "card_5" -> (si % 65536) + 100000 * (si \div 65536)
                        [] c = "card_6" -> si
                        [] OTHER -> si % 16777216

\* get_serie of the data of block 0
CardSerie(c, block0) == CASE c = "card_5" -> 0
                          [] c = "card_6" -> 6
                          [] OTHER -> ReadBits(card_id_serie, SubSeq(block0, 25, 28), "card_serie")

\* The reader for a card of this family: its own, or the one for its serie, if there is.
ReaderOf(family, card_serie) ==
    IF family # "card_8_family" THEN family
    ELSE IF card_serie \in DOMAIN known_card_types THEN known_card_types[card_serie]
    ELSE "none"
=============================================================================
