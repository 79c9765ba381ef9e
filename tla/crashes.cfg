SPECIFICATION Spec
CONSTANTS
    NoCall = NoCall
    NoResult = NoResult
    Tasks = {t1}
    Workers = {w1, w2}
    Handlers = {h1}
    Calls <- GuardedCalls
    Results = {r1, r2}
    MaxQueueAttempts = 2
    RepeatThreshold = 3
    MaxToolCalls = 3
    MaxCrashes = 1
    MaxStalls = 0
    MaxTimeouts = 1
    MaxReplays = 1
SYMMETRY Symmetry
INVARIANTS
    TypeOK
    PolicyGate
    SingleProcessor
    EvidenceFromLedger
    QueuedPendingIsApproved
    DeadLettersAgree
    WaitingHasApproval
    EffectsAccounted
PROPERTIES
    NoEffectAfterResult
    ImplementsLifecycle
CHECK_DEADLOCK FALSE
