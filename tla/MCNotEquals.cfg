SPECIFICATION Spec
CONSTANTS
    None = None
    Calls <- MCCalls
INVARIANTS
    EveryRowIsWalked
    CapacityIsExact
    WalksInLeftOrder
    PartitionsAreChecked
PROPERTIES
    ImplementsRangeJoin
CHECK_DEADLOCK FALSE
