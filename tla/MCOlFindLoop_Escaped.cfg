CONSTANTS
    Features = {"X"}
    Graphs <- MCEpsilons
    FlagOp <- MCFlagOp
    IDENTITY = 3
    UNKNOWN = NO_SYMBOL
    DEFAULT = 5
    NO_SYMBOL = NO_SYMBOL
    ORIG_SYMBOL_COUNT = 10
    Inputs <- MCOneLetter
    MaxCalls = 1
    MaxStack = 8
SPECIFICATION FairSpec
CHECK_DEADLOCK FALSE
INVARIANT
    LoopsTrapped
