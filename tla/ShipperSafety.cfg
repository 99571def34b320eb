SPECIFICATION Spec
CONSTANTS
    Hash = {1, 2}
    Assigned <- Dense
    MaxInFlight = 2
    MaxAttempts = 2
    WorkFactor = 1
    CompletionFactor = 1
    AboveFactor = 1
    RetentionBuffer = 1
    MaxFaults = 1
    MaxHWMFaults = 1
    MaxRetries = 1
    MaxResubmits = 1
    MaxRestarts = 1
INVARIANTS TypeOK HWMContiguous BytesNeverLost OneWorkerPerSeq 
CHECK_DEADLOCK FALSE
