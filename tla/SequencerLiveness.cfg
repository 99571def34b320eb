SPECIFICATION FairSpec
CONSTANTS
  Hash = {1, 2, 3}
  Malformed = {3}
  Unprojectable = {2}
  MaxInFlight = 1
  MaxAttempts = 2
  MaxEntriesPerCycle = 2
  MaxCommitterHeapSize = 3
  CommitChannelBuffer = 1
  CommitMaxBatchSize = 2
  BreakerThreshold = 2
  Forgetful = FALSE
  MaxSubmits = 2
  MaxFaults = 1
  MaxRestarts = 1
PROPERTIES
  PendingSettles
  
CHECK_DEADLOCK FALSE
