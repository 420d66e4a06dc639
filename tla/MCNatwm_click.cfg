SPECIFICATION Spec
CONSTANTS
  w1 = w1
  w2 = w2
  dock = dock
  Windows <- TwoWindows
  Docks <- NoDocks
  WorkspaceCount = 2
  MonitorCount = 1
  Remaps = 0
  Messages = {"click", "destroy"}
  QueueBound = 2
  NULL = NULL
  Root = Root
  PointerRoot = PointerRoot
SYMMETRY Symmetry
INVARIANT
  ClickReleased
CHECK_DEADLOCK FALSE
