SPECIFICATION RecoverySpec
CONSTANTS
    NoCall = NoCall
    NoResult = NoResult
    Tasks = {t1}
    Workers = {w1}
    Handlers = {h1}
    Calls <- EngineCalls
    Results = {"evidence", "healthy", "unhealthy"}
    MaxQueueAttempts = 5
    RepeatThreshold = 4
    MaxToolCalls = 20
    MaxCrashes = 0
    MaxStalls = 0
    MaxTimeouts = 0
    MaxReplays = 0
    Backends <- AWSBackends
INVARIANT
    ConvergenceIsRetried
CHECK_DEADLOCK FALSE
