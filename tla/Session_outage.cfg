SPECIFICATION FairSpec
CONSTANTS
  r1 = r1
  r2 = r2
  None = None
  CopyIn = CopyIn
  CopyTail = CopyTail
  Results <- TwoResults
  MaxRows = 2
  Faults <- Outages
CHECK_DEADLOCK FALSE
INVARIANTS TypeOK ActiveOwnsStatement ConnectionIsReleased RunsOwnStatement WireBelongsToCurrent NoSilentTruncation SendFindsIdleWire NeverSpins
PROPERTIES InactiveIsFinal 
