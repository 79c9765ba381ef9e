SPECIFICATION Spec
CONSTANTS
    NoCall = NoCall
    NoResult = NoResult
    Tasks = {t1}
    Workers = {w1, w2}
    Handlers = {h1}
    Calls <- RestartCalls
    Results = {r1}
    MaxQueueAttempts = 2
    RepeatThreshold = 3
    MaxToolCalls = 3
    MaxCrashes = 0
    MaxStalls = 0
    MaxTimeouts = 0
    MaxReplays = 0
INVARIANT
    WaitingIsAnswerable
CHECK_DEADLOCK FALSE
