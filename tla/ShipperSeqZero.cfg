SPECIFICATION Spec
CONSTANTS
    Hash = {0, 1}
    Assigned <- Dense
    MaxInFlight = 2
    MaxAttempts = 2
    WorkFactor = 1
    CompletionFactor = 1
    AboveFactor = 1
    RetentionBuffer = 1
    MaxFaults = 0
    MaxHWMFaults = 0
    MaxRetries = 0
    MaxResubmits = 0
    MaxRestarts = 0
INVARIANT HWMCoversZero
CHECK_DEADLOCK FALSE
