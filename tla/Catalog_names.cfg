SPECIFICATION Spec
CONSTANTS
  Schemas <- TwoSchemas
  TempSchemas <- TwoTempSchemas
  Names <- TwoNames
  Catalogued <- OneCatalogued
  Paths <- SomePaths
  Frames <- TwoFrames
  Dialects <- BothDialects
  Resets <- OnlyPostgres
  MaxAppends = 2
  MaxOthers = 1
  MaxCalls = 2
INVARIANTS  WrittenIsRead ChangesAreAskedFor
PROPERTY TemporaryStaysOwn
