SPECIFICATION Spec
CONSTANTS
    LeftLen = 4
    RightLen = 4
    None = None
    DirectProbe = 1
    MaskWidth = 2
    SampleBlocks = 2
    SampleRows = 1
    Lanes = 3
    Calls <- MCCalls
INVARIANTS
    KeepsInputOrder
    EnvelopeEndsDecide
    FenwickIsExact
PROPERTIES
    ImplementsRangeJoin
CHECK_DEADLOCK FALSE
