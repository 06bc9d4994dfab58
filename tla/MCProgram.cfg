SPECIFICATION FairSpec
CONSTANTS
    d1 = d1
    d2 = d2
    Devices <- TwoDevices
    MaxRecords <- TwoRecords
INVARIANTS TypeOK LinesWhole ExitsOnlyWhenAsked
PROPERTIES ExitsWhenAsked FailureEnds
CHECK_DEADLOCK FALSE
