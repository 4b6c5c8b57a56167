SPECIFICATION Spec
CONSTANTS
  Shapes <- AllShapes
  Domain <- SmallDomain
  MaxRows = 2
  Foreign <- OtherColumns
  Chars <- SomeChars
  Error = Error
  Zones <- SomeZones
  IntMax = 7
  BigMax = 31
  Bigint = "integer"
CHECK_DEADLOCK FALSE
INVARIANTS RoundTrip ForeignIsFaithful
