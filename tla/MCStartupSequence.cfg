SPECIFICATION FairSpec
CONSTANT MaxRegistrations <- FourRegistrations
INVARIANTS TypeOK OneExpectation SucceedsOnce HiSpeedIsShared DecodesWhatItExpects FailureIsFinal
PROPERTY Verdict
CHECK_DEADLOCK FALSE
