------------------------------- MODULE Crc529 -------------------------------
(***************************************************************************)
(* crc529.h: the checksum of a frame, a shift register over 16 bits.       *)
(***************************************************************************)
EXTENDS Integers, Sequences

Word == 65536
Half == 32768      \* 0x8000, the bit shifted out

\* x ^ 0x8005: the bits 15, 2 and 0 are flipped.
FlipBit(x, bit) == IF (x \div bit) % 2 = 1 THEN x - bit ELSE x + bit
XorPolynom(x) == FlipBit(FlipBit(FlipBit(x, Half), 4), 1)

\* One round of the inner loop: the next bit of uiVal enters uiTmp1.
ShiftIn(reg, bit) ==
    LET shifted == (2 * reg + bit) % Word
    IN IF reg >= Half THEN XorPolynom(shifted) ELSE shifted

\* The rounds for a byte, its highest bit first.
Place == <<128, 64, 32, 16, 8, 4, 2, 1>>

ShiftInByte(reg, byte) ==
    LET uiTmp1[k \in 0..8] ==
            IF k = 0 THEN reg ELSE ShiftIn(uiTmp1[k - 1], (byte \div Place[k]) % 2)
    IN uiTmp1[8]

\* The first two bytes fill the register; the others follow, with a byte 0 behind
\* an odd number of bytes and two behind an even one.
Padded(bytes) == bytes \o (IF Len(bytes) % 2 = 1 THEN <<0>> ELSE <<0, 0>>)

Crc(bytes) ==
    LET filled == 256 * bytes[1] + bytes[2]
        padded == Padded(bytes)
        uiTmp1[i \in 0..(Len(padded) - 2)] ==
            IF i = 0 THEN filled ELSE ShiftInByte(uiTmp1[i - 1], padded[i + 2])
    IN CASE Len(bytes) < 2 -> 0
         [] Len(bytes) = 2 -> filled
         [] OTHER -> uiTmp1[Len(padded) - 2]
=============================================================================
