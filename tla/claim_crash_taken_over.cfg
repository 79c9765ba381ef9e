SPECIFICATION Spec
CONSTANTS
    NoCall = NoCall
    NoResult = NoResult
    Tasks = {t1}
    Workers = {w1, w2}
    Handlers = {h1}
    Calls <- InspectCalls
    Results = {r1}
    MaxQueueAttempts = 2
    RepeatThreshold = 3
    MaxToolCalls = 3
    MaxCrashes = 1
    MaxStalls = 0
    MaxTimeouts = 0
    MaxReplays = 0
INVARIANT
    CrashedWorkIsTakenOver
CHECK_DEADLOCK FALSE
