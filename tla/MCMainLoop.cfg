SPECIFICATION Spec
CONSTANT EventBound = 4
CHECK_DEADLOCK FALSE
INVARIANTS
  ExitTells
  NothingStranded
PROPERTIES
  StopEnds
  EventsHandled
  LossEnds
