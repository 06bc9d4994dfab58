SPECIFICATION Spec
CONSTANT MaxRegistrations <- FourRegistrations
INVARIANT LoSpeedResponse
CHECK_DEADLOCK FALSE
