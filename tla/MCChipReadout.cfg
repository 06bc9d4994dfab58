SPECIFICATION FairSpec
CONSTANTS
    long = long
    other = other
    short = short
    Card <- MCCard
    Family <- MCFamily
    MoreBlocks <- MCMoreBlocks
    MaxInsertions = 2
    MaxRegistrations = 6
INVARIANTS TypeOK RecordIsWhole
PROPERTIES ReadsAsPromised SessionEnds
CHECK_DEADLOCK FALSE
