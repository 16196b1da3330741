CONSTANTS
    Problems <- MCProblems
    EPSILON = 0
    IDENTITY = 1
    FlagSymbols = {5}
SPECIFICATION FairSpec
CHECK_DEADLOCK FALSE
INVARIANTS
    TypeOK
    PairsNumberedOnce
    AgendaIsRest
    CacheIsIntersection
    ComposedAsAsked
PROPERTIES
    Implements
    Terminates
