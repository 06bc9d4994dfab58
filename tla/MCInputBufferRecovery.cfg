SPECIFICATION Spec
CONSTANTS
  Item <- OnlyEmpty
  MaxSent = 2
  Chunk = 14
  Pipelined = FALSE
  Damage <- NoLongerSize
  Stray <- NoStray
  Beyond <- NoMark
INVARIANT
  RecoversFromDamage
CHECK_DEADLOCK FALSE
