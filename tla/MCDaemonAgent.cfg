\* The daemon's agent, with one restart.
SPECIFICATION Spec
CONSTANTS
  Tasks = {1, 2, 3}
  Scheduled = {2}
  Fed = {3}
  Waiting = {1}
  Brokers = {1, 2}
  Plans <- SomePlans
  MaxRuns = 2
  MaxStarts = 2
INVARIANTS
  OneHandler
  RunsWhatIsStored
  CronFollowsStore
  DestroyedButBrokers

  
CHECK_DEADLOCK FALSE
