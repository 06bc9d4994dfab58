SPECIFICATION Spec
CONSTANTS
  Item <- ExtendedAndControl
  MaxSent = 2
  Chunk = 14
  Pipelined = TRUE
  Damage <- NoLongerSize
  Stray <- NoStray
  Beyond <- NoMark
INVARIANT
  ControlsWereSent
CHECK_DEADLOCK FALSE
