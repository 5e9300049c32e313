SPECIFICATION Spec
CONSTANTS
    RankCount = 9
    WordBits = 2
    MaxActivations = 3
    None = None
    Values = {3, 5}
INVARIANTS
    ScanIsExact
    SuffixSumIsExact
    SuffixExtremeIsExact
