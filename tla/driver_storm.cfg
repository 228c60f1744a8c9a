SPECIFICATION LiveSpec
CONSTANTS
    ActionKinds = {"enroll", "verify", "identify", "capture"}
    NrEnrollStages = 2
    Faults = {"noDevice", "timedOut", "io", "invalid"}
    EagerClient = FALSE
    MayCancel = TRUE
    MaxSessions = 2
    MaxRejects = 1
INVARIANTS
    NeverStranded
PROPERTIES
    NoDeviceRetriedFirst
    ActiveAfterFullHandshake
    ImplementsContract
    EveryActionFinishes
