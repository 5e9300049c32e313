SPECIFICATION Spec
CONSTANTS
    LeftLen = 2
    RightLen = 3
    MaxValue = 2
    None = None
    Calls <- MCCalls
INVARIANTS
    LabelsDecidePredicate
    LabelsAreCounts
    AlignmentIsChecked
CHECK_DEADLOCK FALSE
