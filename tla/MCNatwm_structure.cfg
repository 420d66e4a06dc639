SPECIFICATION Spec
CONSTANTS
  w1 = w1
  w2 = w2
  dock = dock
  Windows <- TwoWindows
  Docks <- NoDocks
  WorkspaceCount = 3
  MonitorCount = 2
  Remaps = 0
  Messages = {"switch", "send", "activate", "raise", "lower", "withdraw", "destroy", "click"}
  QueueBound = 1
  NULL = NULL
  Root = Root
  PointerRoot = PointerRoot
SYMMETRY Symmetry
INVARIANTS
  OneFocusedWorkspace
  MonitorsAgree
  RegistryAgrees
  ActiveOnList
  FocusGrab
  Forgotten
