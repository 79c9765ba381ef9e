SPECIFICATION FairRecoverySpec
CONSTANTS
    NoCall = NoCall
    NoResult = NoResult
    Tasks = {t1}
    Workers = {w1}
    Handlers = {h1}
    Calls <- EngineCalls
    Results = {"evidence", "healthy", "unhealthy"}
    MaxQueueAttempts = 2
    RepeatThreshold = 4
    MaxToolCalls = 20
    MaxCrashes = 1
    MaxStalls = 0
    MaxTimeouts = 1
    MaxReplays = 0
    Backends <- AllBackends
INVARIANTS
    RecoveryTypeOK
    CompletedIsRecovered
    OneFaultIsNoLoop
PROPERTIES
    ResumesAtNextStep
    EvaluationPasses
CHECK_DEADLOCK FALSE
