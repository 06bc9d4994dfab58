-------------------------- MODULE CommandParameter --------------------------
(***************************************************************************)
(* command_parameter.h: how the parameters of a command are taken from     *)
(* bytes.  A definition, an mpl::deque of the source, is a sequence of its *)
(* parts; a don_t_care part has the name Skipped.                          *)
(***************************************************************************)
EXTENDS Integers, Sequences, FiniteSetsExt

Skipped == "don_t_care"

\* unsigned_integral_parameter::read_data: a byte_part per byte, the highest first.
Number(bytes) ==
    LET value[k \in 0..Len(bytes)] == IF k = 0 THEN 0 ELSE 256 * value[k - 1] + bytes[k]
    IN value[Len(bytes)]

\* get_description_length: where each part of a definition ends, by the sizes of its parts.
Ends(sizes) ==
    LET end[k \in 0..Len(sizes)] == IF k = 0 THEN 0 ELSE end[k - 1] + sizes[k]
    IN end

-----------------------------------------------------------------------------
\* A part of a bit_array: bits_range<first, last> of the parameter with this name.
BitsRange(name, first, last) == [name |-> name, first |-> first, last |-> last]

BitCount(part) == IF part.last < part.first THEN part.first - part.last + 1
                                            ELSE part.last - part.first + 1

DontCare(count) == BitsRange(Skipped, count - 1, 0)

BitCounts(def) == [k \in 1..Len(def) |-> BitCount(def[k])]

\* normalize_description: the bits that are missing to whole bytes are not cared for,
\* and stand in front.
Normalize(def) ==
    LET rest == Ends(BitCounts(def))[Len(def)] % 8
    IN IF rest = 0 THEN def ELSE <<DontCare(8 - rest)>> \o def

\* Mutant: the ordinals of a part grow whichever end it names first.
BitsUpwards(part) ==
    [k \in 1..BitCount(part) |-> [name |-> part.name,
                                  ordinal |-> Min({part.first, part.last}) + k - 1]]

\* read_bits_data of a part, or skip: which bit of its parameter each bit of the data is.
BitsOf(part) ==
    [k \in 1..BitCount(part) |->
        [name |-> part.name, ordinal |-> IF part.first <= part.last THEN part.first + k - 1
                                                                    ELSE part.first - k + 1]]

\* They are run over the whole definition, from the highest bit of the first byte on.
Bits(def) ==
    LET parts == Normalize(def)
        bits[k \in 0..Len(parts)] == IF k = 0 THEN <<>> ELSE bits[k - 1] \o BitsOf(parts[k])
    IN bits[Len(parts)]

\* bit_array::get_size, of the bits of a definition.
BitArraySize(bits) == Len(bits) \div 8

\* The k-th bit of bytes.
BitAt(bytes, k) == (bytes[((k - 1) \div 8) + 1] \div 2^(7 - ((k - 1) % 8))) % 2

\* The value of the parameter with this name when bit_array::read_data is done.
ReadBits(bits, bytes, name) ==
    LET value[k \in 0..Len(bits)] ==
            IF k = 0 THEN 0
            ELSE value[k - 1] + (IF bits[k].name = name /\ BitAt(bytes, k) = 1
                                 THEN 2^bits[k].ordinal ELSE 0)
    IN value[Len(bits)]

-----------------------------------------------------------------------------
\* A part of a parameters_array: as many bytes of the parameter with this name.
Part(name, size) == [name |-> name, size |-> size]

\* How far item_data_writer moves in the data over each part.
Sizes(def) == [k \in 1..Len(def) |-> def[k].size]

\* How far data_writer moves over all of them; the description_size_type of the array,
\* which counts 1 for each part, is not used in reading.
SizeOf(def) == Ends(Sizes(def))[Len(def)]

\* The bytes of data that the part with this name takes, those behind the parts before it:
\* parameters_array::data_writer.
Taken(def, data, name) ==
    LET k == CHOOSE j \in DOMAIN def : def[j].name = name
        first == Ends(Sizes(def))[k - 1]
    IN SubSeq(data, first + 1, first + def[k].size)
=============================================================================
