SPECIFICATION Spec
CONSTANTS
    LeftLen = 2
    RightLen = 3
    SampleRows = 2
    SampleWidth = 1
    None = None
    Calls <- MCCalls
INVARIANTS
    PassesAgree
    PlanIsExact
PROPERTIES
    ImplementsRangeJoin
CHECK_DEADLOCK FALSE
