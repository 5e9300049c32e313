SPECIFICATION Spec
CONSTANTS
    Len = 5
    MaxValue = 2
    Searches <- MCSearches
INVARIANTS
    WindowIsExact
PROPERTIES
    Returns
CHECK_DEADLOCK FALSE
