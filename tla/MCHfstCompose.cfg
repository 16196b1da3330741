CONSTANTS
    Letters <- MCLetters
    Flags <- MCFlags
    PmatchSpecials = {"@PM@"}
    Specials = {"@_S_@"}
    EPSILON = "0"
    IDENTITY = "@"
    UNKNOWN = "?"
    States = {1, 2}
    Code <- MCCode
    Calls <- MCCalls
SPECIFICATION Spec
CHECK_DEADLOCK FALSE
INVARIANTS
    TypeOK
    MeaningKept
    Composes
