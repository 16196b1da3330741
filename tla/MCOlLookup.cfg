CONSTANTS
    Features = {"X"}
    Graphs <- MCGraphs
    FlagOp <- MCFlagOp
    IDENTITY = 3
    UNKNOWN = 4
    DEFAULT = 5
    NO_SYMBOL = NO_SYMBOL
    ORIG_SYMBOL_COUNT = 10
    Requests <- MCRequests
    MAX_RECURSION_DEPTH = 5
    MaxCalls = 2
SPECIFICATION FairSpec
CHECK_DEADLOCK FALSE
INVARIANTS
    TypeOK
    Sound
    Complete
    LimitRespected
    ObjectMatchesPath
    VisitedIsActive
PROPERTY
    LookupReturns
