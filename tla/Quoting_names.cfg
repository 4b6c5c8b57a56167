SPECIFICATION Spec
CONSTANTS
  Chars <- SomeChars
  DQ = "dq"
  SQ = "sq"
  BS = "bs"
  Dot = "dot"
  Space = "sp"
  E = "E"
  Lower <- Fold
  NameLen = 3
  NA = NA
  Error = Error
  Names <- SomeNames
  Strings <- SomeStrings
  Texts <- SomeTexts
INVARIANT NameIsKept
 
INVARIANT StringIsRead
CHECK_DEADLOCK FALSE
