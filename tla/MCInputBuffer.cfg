SPECIFICATION Spec
CONSTANTS
  Item <- AllItems
  MaxSent = 3
  Chunk = 14
  Pipelined = FALSE
  Damage <- SomeDamage
  Stray <- BeforeExtended
  Beyond <- AnyMark
INVARIANTS
  TypeOK
  OnceInOrder
  DeliveredWhenRead
CHECK_DEADLOCK FALSE
