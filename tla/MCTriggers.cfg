SPECIFICATION Spec
CONSTANTS
  Workflows <- W
  Plans <- Scenarios
INVARIANTS
  EntriesAreStored
  
PROPERTY
  EntriesRun
CHECK_DEADLOCK FALSE
