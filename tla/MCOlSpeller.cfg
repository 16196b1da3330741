CONSTANTS
    Features = {"X"}
    Graphs <- MCLexicons
    FlagOp <- MCFlagOp
    IDENTITY = NO_SYMBOL
    UNKNOWN = NO_SYMBOL
    DEFAULT = NO_SYMBOL
    NO_SYMBOL = NO_SYMBOL
    ORIG_SYMBOL_COUNT = 5
    Mutators <- MCMutators
    MUTATOR_SYMBOL_COUNT = 4
    MUTATOR_UNKNOWN = 3
    alphabet_translator <- MCTranslator
    Words <- MCWords
    LexiconKey <- MCLexiconKey
    MutatorKey <- MCMutatorKey
    Valid = {"a", "b", "z"}
    Silent = {}
    MaxCalls = 2
SPECIFICATION FairSpec
CHECK_DEADLOCK FALSE
INVARIANTS
    TypeOK
    NothingLost
    CheckRight
PROPERTY
    Answers
