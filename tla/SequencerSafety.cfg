SPECIFICATION Spec
CONSTANTS
  Hash = {1, 2}
  Malformed = {}
  Unprojectable = {2}
  MaxInFlight = 2
  MaxAttempts = 1
  MaxEntriesPerCycle = 3
  MaxCommitterHeapSize = 3
  CommitChannelBuffer = 2
  CommitMaxBatchSize = 2
  BreakerThreshold = 2
  Forgetful = TRUE
  MaxSubmits = 3
  MaxFaults = 1
  MaxRestarts = 1
INVARIANTS
  OnePrimary
  IInv
  GhostsResolve
  GapFree
  RowsMatchTree
  
PROPERTY ImplementsProjectionLog
CHECK_DEADLOCK FALSE
