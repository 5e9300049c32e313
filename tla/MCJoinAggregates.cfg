SPECIFICATION Spec
CONSTANTS
    LeftLen = 4
    RightLen = 5
    None = None
    Modulus = 16
    SampleBlocks = 2
    SampleRows = 1
    DirectQueries = 3
    RunningFactor = 2
    PrefixFactor = 1
    TreeBuild = 2
    TreeQuery = 0
    Calls <- MCCalls
INVARIANTS
    FloatsKeepSourceOrder
    RankTreeIsExact
    SweepSeesItsWindow
PROPERTIES
    ImplementsPairAggregation
CHECK_DEADLOCK FALSE
