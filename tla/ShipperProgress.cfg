SPECIFICATION FairSpec
CONSTANTS
    Hash = {1, 2}
    Assigned <- Dense
    MaxInFlight = 2
    MaxAttempts = 2
    WorkFactor = 1
    CompletionFactor = 1
    AboveFactor = 1
    RetentionBuffer = 1
    MaxFaults = 1
    MaxHWMFaults = 0
    MaxRetries = 0
    MaxResubmits = 0
    MaxRestarts = 1
PROPERTY ShippedEventually
CHECK_DEADLOCK FALSE
