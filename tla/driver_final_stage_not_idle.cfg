SPECIFICATION Spec
CONSTANTS
    ActionKinds = {"enroll"}
    NrEnrollStages = 2
    Faults = {}
    EagerClient = FALSE
    MayCancel = FALSE
    MaxSessions = 1
    MaxRejects = 1
INVARIANTS
    DeactivatesFromIdle
