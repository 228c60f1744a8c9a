SPECIFICATION Spec
CONSTANTS
    ActionKinds = {"enroll", "verify"}
    NrEnrollStages = 2
    Faults = {}
    EagerClient = TRUE
    MayCancel = FALSE
    MaxSessions = 2
    MaxRejects = 0
PROPERTIES
    VerifyAfterEnroll
