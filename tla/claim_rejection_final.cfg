SPECIFICATION Spec
CONSTANTS
    NoCall = NoCall
    NoResult = NoResult
    Tasks = {t1}
    Workers = {w1, w2}
    Handlers = {h1}
    Calls <- RestartCalls
    Results = {r1}
    MaxQueueAttempts = 2
    RepeatThreshold = 3
    MaxToolCalls = 3
    MaxCrashes = 0
    MaxStalls = 1
    MaxTimeouts = 0
    MaxReplays = 1
PROPERTY
    RejectionIsFinal
CHECK_DEADLOCK FALSE
