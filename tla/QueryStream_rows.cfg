SPECIFICATION FairSpec
CONSTANTS
  Queries <- AllQueries
  Cols <- TwoCols
  NoCols = ""
  MaxRows = 3
  Groups <- ZeroToTwo
  Window = 3
  CheckEvery = 2
  CheckInterrupts = TRUE
  FetchAfterError = FALSE
CHECK_DEADLOCK FALSE
INVARIANTS RowsInOrder  CountsAreExact
PROPERTIES  CallsReturn ClearReturns
