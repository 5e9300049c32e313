SPECIFICATION Spec
CONSTANTS
    RightLen = 7
    Block = 2
    Super = 2
    DirectWidth = 4
    Scans <- MCScans
INVARIANTS
    ScanIsExact
    RunsCoverMatches
CHECK_DEADLOCK FALSE
