SPECIFICATION Spec
CONSTANTS
  NCols = 2
  Deferred <- OnlyFirst
  Limits <- SmallLimits
  MinCapacity = 2
  CheckEvery = 3
  MaxRows = 7
  Null = Null
  Junk = Junk
CHECK_DEADLOCK FALSE
INVARIANTS ColumnsAreFaithful LimitBoundsMemory
