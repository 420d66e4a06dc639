SPECIFICATION CalmSpec
CONSTANTS
  w1 = w1
  w2 = w2
  dock = dock
  Windows <- WithDock
  Docks <- OneDock
  WorkspaceCount = 3
  MonitorCount = 2
  Remaps = 0
  Messages = {"switch", "send", "raise", "lower", "withdraw", "destroy", "click"}
  QueueBound = 1
  NULL = NULL
  Root = Root
  PointerRoot = PointerRoot
SYMMETRY Symmetry
INVARIANTS
  FocusedWorkspaceShown
  ScreensSettle
  FocusSettles
  SwitchHidesNothing
PROPERTY
  ImplementsDesktop
