SPECIFICATION Spec
CONSTANT Cards <- CardsT
INVARIANT PunchFromReadBlock
CHECK_DEADLOCK FALSE
