SPECIFICATION Spec
CONSTANTS
  r1 = r1
  r2 = r2
  None = None
  CopyIn = CopyIn
  CopyTail = CopyTail
  Results <- TwoResults
  MaxRows = 2
  Faults <- Misuse
SYMMETRY Interchangeable
CHECK_DEADLOCK FALSE
INVARIANTS CurrentIsAllocated NeverDangles
