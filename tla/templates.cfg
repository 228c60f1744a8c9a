SPECIFICATION Spec
CONSTANTS
    first = first
    second = second
    Processes <- MCProcesses
    Requests <- MCRequests
    Fits <- MCFits
    Foreign <- MCForeign
INVARIANTS
    ReadersSeeOneEnrollment
    OnlyTheKilledLitter
    StatusTellsDecision
PROPERTIES
    LateEnrollmentFails
CHECK_DEADLOCK FALSE
