SPECIFICATION Spec
CONSTANTS
  Item <- OnlyBasic
  MaxSent = 1
  Chunk = 14
  Pipelined = FALSE
  Damage <- NoDamage
  Stray <- BeforeBasic
  Beyond <- EndMark
INVARIANT
  FramesWereSent
CHECK_DEADLOCK FALSE
