SPECIFICATION Spec
CONSTANTS
    LeftLen = 2
    RightLen = 3
    None = None
    Calls <- MCCalls
INVARIANTS
    NarrowingKeepsMatches
    AllInRightOrder
PROPERTIES
    CutEndsAtMatch
    ImplementsRangeJoin
CHECK_DEADLOCK FALSE
