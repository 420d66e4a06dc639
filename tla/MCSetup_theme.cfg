SPECIFICATION Spec
CONSTANTS
  WorkspaceCount = 2
  NameMax = 2
  NULL = NULL
  Displays = {0, 1}
  Extensions = {"none"}
  Outputs <- OneOutput
  Entries <- NoEntries
  Names <- NoEntries
INVARIANT
  ErrorCloses
CHECK_DEADLOCK FALSE
