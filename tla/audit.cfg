SPECIFICATION AuditSpec
CONSTANTS
    NoCall = NoCall
    NoResult = NoResult
    Tasks = {t1}
    Workers = {w1}
    Handlers = {h1}
    Calls <- AuditedCalls
    Results = {r1}
    MaxQueueAttempts = 1
    RepeatThreshold = 3
    MaxToolCalls = 3
    MaxCrashes = 1
    MaxStalls = 0
    MaxTimeouts = 0
    MaxReplays = 1
CONSTRAINT StreamBound
INVARIANTS
    AuditTypeOK
    OutcomesAudited
    ApprovalPrecedesAction
    StreamEndsWithOutcome
CHECK_DEADLOCK FALSE
