SPECIFICATION Spec
CONSTANTS
    ActionKinds = {"enroll", "verify"}
    NrEnrollStages = 2
    Faults = {}
    EagerClient = TRUE
    MayCancel = TRUE
    MaxSessions = 2
    MaxRejects = 0
INVARIANTS
    TypeOK
    CountedTouchWatched
PROPERTIES
    HeldFingerOnce
    EnrollNeedsAllStages
