SPECIFICATION FairSpec
CONSTANTS
    Hash = {1, 2, 3}
    Assigned <- Dense
    MaxInFlight = 1
    MaxAttempts = 2
    WorkFactor = 1
    CompletionFactor = 1
    AboveFactor = 3
    RetentionBuffer = 1
    MaxFaults = 1
    MaxHWMFaults = 0
    MaxRetries = 0
    MaxResubmits = 0
    MaxRestarts = 0
PROPERTIES  GCReclaims
CHECK_DEADLOCK FALSE
