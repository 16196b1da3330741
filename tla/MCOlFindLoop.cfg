CONSTANTS
    Features = {"X"}
    Graphs <- MCReadAndFlags
    FlagOp <- MCFlagOp
    IDENTITY = 3
    UNKNOWN = NO_SYMBOL
    DEFAULT = 5
    NO_SYMBOL = NO_SYMBOL
    ORIG_SYMBOL_COUNT = 10
    Inputs <- MCInputs
    MaxCalls = 2
    MaxStack = 12
SPECIFICATION FairSpec
CHECK_DEADLOCK FALSE
INVARIANTS
    AnswerIsRight
    FlagsRestored
    LoopsTrapped
PROPERTY
    Answered
