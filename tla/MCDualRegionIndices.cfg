SPECIFICATION Spec
CONSTANTS
    LeftLen = 3
    RightLen = 3
    None = None
    Calls <- MCCalls
INVARIANTS
    TypeOK
    PassesAgree
    ActivePrefix
    FilterIsExact
    NoPairTwice
PROPERTIES
    AnswersAsRangeJoin
    AnswersEveryRow
CHECK_DEADLOCK FALSE
