SPECIFICATION Spec
CONSTANTS
    PointCount = 5
    Dimensions = 3
    LeafSize = 2
    Clouds <- MCClouds
    Queries <- MCQueries
INVARIANTS
    TreeIsSound
PROPERTIES
    VisitIsExact
CHECK_DEADLOCK FALSE
