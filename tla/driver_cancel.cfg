SPECIFICATION LoopSpec
CONSTANTS
    ActionKinds = {"enroll", "verify", "identify", "capture"}
    NrEnrollStages = 3
    Faults = {}
    EagerClient = FALSE
    MayCancel = TRUE
    MaxSessions = 3
    MaxRejects = 1
INVARIANTS
    ConversationMatchesState
    FaultsExplainErrors
    IdleMeansInactive
PROPERTIES
    NoFrameworkWarnings
    DelayedFingerOff
    CancelledActionEnds
