SPECIFICATION Spec
CONSTANTS
  Plans <- Scenarios
INVARIANTS
  RowsAreWhole
  
  OneWorker
PROPERTIES
  
  LoginsSucceed
CHECK_DEADLOCK FALSE
