SPECIFICATION FairSpec
CONSTANTS
    NoCall = NoCall
    NoResult = NoResult
    Tasks = {t1}
    Workers = {w1, w2}
    Handlers = {h1}
    Calls <- RestartCalls
    Results = {r1}
    MaxQueueAttempts = 2
    RepeatThreshold = 3
    MaxToolCalls = 3
    MaxCrashes = 0
    MaxStalls = 0
    MaxTimeouts = 0
    MaxReplays = 0
PROPERTY
    ApprovedIsExecuted
CHECK_DEADLOCK FALSE
