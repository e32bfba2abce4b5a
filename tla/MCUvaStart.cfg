SPECIFICATION FairSpec
CONSTANTS
  NumDevices = 3
  Initialiser = 2
INVARIANTS TypeOK OneAnswer Barrier
PROPERTIES KeepsObjects EveryoneRuns
CHECK_DEADLOCK FALSE
