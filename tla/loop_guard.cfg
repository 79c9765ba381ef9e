SPECIFICATION Spec
CONSTANTS
    RepeatThreshold = 3
    MaxToolCalls = 10
    AgentTools = {a, b}
    Fingerprints = {f, g}
INVARIANTS
    DetectsCycles
    NoCycleSurvives
    NoStuckRunSurvives
CHECK_DEADLOCK FALSE
