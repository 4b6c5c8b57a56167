SPECIFICATION Spec
CONSTANTS
  Names <- OneName
  MaxDepth = 2
  Faults <- AllFaults
CHECK_DEADLOCK FALSE
INVARIANTS NoHiddenTransaction
   
