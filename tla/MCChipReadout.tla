--------------------------- MODULE MCChipReadout ---------------------------
(* Two cards with a second block each, not the same one, and one with a single block. *)
EXTENDS ChipReadout

CONSTANTS long, other, short

MCCard == {long, other, short}
MCFamily == [c \in MCCard |-> IF c = short THEN "card_5" ELSE "card_6"]
MCMoreBlocks == [c \in MCCard |-> IF c = short THEN {} ELSE IF c = long THEN {6} ELSE {7}]
=============================================================================
