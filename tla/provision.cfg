SPECIFICATION Spec
CONSTANTS
    Captures <- MCCaptures
    Versions <- MCVersions
    Configs <- MCConfigs
    Matrices <- MCMatrices
    MaxRuns = 3
INVARIANTS
    DriverLoadsOnePair
    ManifestVouchesForRecords
CHECK_DEADLOCK FALSE
