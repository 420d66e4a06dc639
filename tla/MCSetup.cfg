SPECIFICATION Spec
CONSTANTS
  WorkspaceCount = 2
  NameMax = 2
  NULL = NULL
  Displays = {0}
  Extensions = {"randr", "xinerama", "none"}
  Outputs <- SomeOutputs
  Entries <- SomeEntries
  Names <- SomeNames
INVARIANT
  OnlyThemeIsWild
  Returned
  OwnOffsets
  NamesFit
  BeginsAsPromised
CHECK_DEADLOCK FALSE
