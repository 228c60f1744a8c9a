SPECIFICATION Spec
CONSTANTS
    Payloads <- MCPayloads
    Lines <- MCLines
    MaxLines = 4
    MaxImages = 2
INVARIANTS
    PairingIsTrue
    ToolsAgree
    OutputsAreSound
    ReportsAreTrue
PROPERTIES
    WholeFilesStay
CHECK_DEADLOCK FALSE
