CONSTANTS
    Features = {"F"}
    FlagOp <- MCFlagOp
    Archives <- MCNested
    Letters = {"a", "b"}
    max_context_length = 2
    Requests <- MCRequests
    max_recursion = 12
    HeavierThanAll = 100
    MaxCalls = 1
SPECIFICATION Spec
CHECK_DEADLOCK FALSE
INVARIANT
    EntriesTracked
