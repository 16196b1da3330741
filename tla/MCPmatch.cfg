CONSTANTS
    Features = {"F"}
    FlagOp <- MCFlagOp
    Archives <- MCArchives
    Letters = {"a", "b"}
    max_context_length = 2
    Requests <- MCRequests
    max_recursion = 12
    HeavierThanAll = 100
    MaxCalls = 1
SPECIFICATION FairSpec
CHECK_DEADLOCK FALSE
INVARIANT
    TypeOK
PROPERTY
    CallsUndone
    ImplementsMatches
    Terminates
