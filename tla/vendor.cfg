SPECIFICATION Spec
CONSTANTS
    Files <- MCFiles
    CandidateRvas <- MCCandidateRvas
    Indices <- MCIndices
    Maximum = 4
    ConfigBlocks = 2
    KeyTables <- MCKeyTables
    Numbers <- MCNumbers
    Encoded <- MCEncoded
    PrefixBlocks = 1
    MaximumKeys = 3
INVARIANTS
    ProvisionedIsTrue
    RunsAreMaximal
    ReportIsTrue
CHECK_DEADLOCK FALSE
