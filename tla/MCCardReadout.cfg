SPECIFICATION Spec
CONSTANT Cards <- MostCards
INVARIANTS TypeOK PunchFromReadBlock NoIdleBlock RecordAsWritten SameNumber ModesAgree
CHECK_DEADLOCK FALSE
