SPECIFICATION Spec
CONSTANTS
    LeftLen = 2
    RightLen = 2
    None = None
    Calls <- MCCalls
INVARIANTS
    AllInRightOrder
CHECK_DEADLOCK FALSE
