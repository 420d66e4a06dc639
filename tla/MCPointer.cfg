SPECIFICATION LagSpec
CONSTANTS
  c1 = c1
  c2 = c2
  NULL = NULL
  Clients <- TwoClients
  MonitorWidth = 1
  ScreenWidth = 2
  DragBound = 1
  Situations <- CalmOrNot
CHECK_DEADLOCK FALSE
INVARIANTS
  StateTogether
  NoFault
  GrabbedHeld
  Follows
PROPERTY
  GestureEnds
