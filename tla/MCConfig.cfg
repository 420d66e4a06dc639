SPECIFICATION ConfigsSpec
CONSTANTS
  NULL = NULL
  Documents <- SomeDocuments
INVARIANTS
  ReadAsMeant
  StaysInside
  OneOwner
CHECK_DEADLOCK FALSE
