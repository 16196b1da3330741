CONSTANTS
    Features = {"X"}
    Graphs <- MCOnlyPrefix
    FlagOp <- MCFlagOp
    NO_SYMBOL = NO_SYMBOL
    IDENTITY = NO_SYMBOL
    UNKNOWN = NO_SYMBOL
    DEFAULT = NO_SYMBOL
    ORIG_SYMBOL_COUNT = 9
    SymbolText <- MCSymbolText
    BLANK = 5
    Tags = {7}
    EscapedChars = {"[", "]", "^", "backslash", "<"}
    LBRACKET = "["
    RBRACKET = "]"
    BACKSLASH = "backslash"
    LESS = "<"
    NUL = "nul"
    AlphabeticSymbols = {1, 2, 3}
    AlphabeticChars = {"x"}
    BufferSize = 8
    Silent = {0, 8}
    ToLower <- MCToLower
    CompoundBoundaries = {4}
    maxAnalyses = 2
    maxWeightClasses = 2
    do_compound_filtering = TRUE
    Requests <- MCUnfinished
SPECIFICATION Spec
CHECK_DEADLOCK FALSE
INVARIANT
    NothingLost
