SPECIFICATION FairSpec
CONSTANTS
  Hash = {1, 2}
  Malformed = {}
  Unprojectable = {}
  MaxInFlight = 2
  MaxAttempts = 3
  MaxEntriesPerCycle = 2
  MaxCommitterHeapSize = 2
  CommitChannelBuffer = 2
  CommitMaxBatchSize = 2
  BreakerThreshold = 3
  Forgetful = FALSE
  MaxSubmits = 2
  MaxFaults = 1
  MaxRestarts = 0
PROPERTY AllLeavesProjected
CHECK_DEADLOCK FALSE
