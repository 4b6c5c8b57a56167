SPECIFICATION Spec
CONSTANTS
  Names <- OneName
  MaxDepth = 1
  Faults <- OnlyOpenResult
CHECK_DEADLOCK FALSE
PROPERTY CommitCommits
