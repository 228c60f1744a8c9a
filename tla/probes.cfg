SPECIFICATION ProbesSpec
CONSTANTS
    Attempts = 2
    Lengths = {0, 15, 27, 28, 38, 40, 68}
    Partitions = {0, 1, 2, 3, 65535}
INVARIANTS
    FreedAfterCallback
    CleanExit
    SuccessIsTrue
    PartitionsInsideResponse
    QueryExitIsTrue
PROPERTIES
    NoQueryDuringAcquisition
    BothEnd
CHECK_DEADLOCK FALSE
