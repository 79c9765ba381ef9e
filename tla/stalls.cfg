SPECIFICATION Spec
CONSTANTS
    NoCall = NoCall
    NoResult = NoResult
    Tasks = {t1}
    Workers = {w1, w2}
    Handlers = {h1}
    Calls <- RestartCalls
    Results = {r1}
    MaxQueueAttempts = 2
    RepeatThreshold = 3
    MaxToolCalls = 2
    MaxCrashes = 0
    MaxStalls = 1
    MaxTimeouts = 1
    MaxReplays = 1
SYMMETRY WorkerSymmetry
INVARIANTS
    PolicyGate
    EffectsAccounted
    AttemptsBounded
PROPERTIES
    CheckpointMonotone
    TerminalIsFinal
    ImplementsLifecycle
CHECK_DEADLOCK FALSE
