SPECIFICATION Spec
CONSTANTS
  Workflows = {1, 2}
  Plans <- SomePlans
INVARIANTS
  DroppedWasCleared
  RunningIsReachable
  PanicsExplained
  RecoveredExplained
PROPERTIES
  
  EventsReachPool
CHECK_DEADLOCK FALSE
