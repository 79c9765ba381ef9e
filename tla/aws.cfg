SPECIFICATION AWSSpec
CONSTANTS
    NoCall = NoCall
    NoResult = NoResult
    Tasks = {t1}
    Workers = {w1, w2}
    Handlers = {h1}
    Calls <- MixedCalls
    Results = {r1}
    MaxQueueAttempts = 2
    RepeatThreshold = 3
    MaxToolCalls = 2
    MaxCrashes = 1
    MaxStalls = 1
    MaxTimeouts = 0
    MaxReplays = 1
    MaxFaults = 1
    MaxLateStalls = 0
SYMMETRY WorkerSymmetry
INVARIANTS
    AWSTypeOK
    PolicyGate
    AWSEffectsAccounted
    AWSWorkNotLost
    DeadLetterKept
    LetterFollowed
PROPERTIES
    CheckpointMonotone
    TerminalIsFinal
    ReplaySurvives
CHECK_DEADLOCK FALSE
