SPECIFICATION Spec
CONSTANTS
  Monitors <- SideBySide
  Offsets <- SomeOffsets
  Leftovers <- NoOffsets
  HasOption = TRUE
  Hints <- SizeHints
  Spans <- TwoSpans
  Steps <- FewSteps
  DragBound = 3
  Widths <- SomeWidths
  NULL = NULL
  Requests = {"configure", "map", "fullscreen", "focus"}
PROPERTIES
  BorderTells
  MarginsKept
  GesturesAgree
