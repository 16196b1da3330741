CONSTANTS
    Features = {"X"}
    Graphs <- MCFlagLoops
    FlagOp <- MCFlagOp
    IDENTITY = 3
    UNKNOWN = 4
    DEFAULT = 5
    NO_SYMBOL = NO_SYMBOL
    ORIG_SYMBOL_COUNT = 10
    Requests <- MCNothing
    MAX_RECURSION_DEPTH = 14
    MaxCalls = 1
SPECIFICATION FairSpec
CHECK_DEADLOCK FALSE
INVARIANT
    BackOutMeansVisited
