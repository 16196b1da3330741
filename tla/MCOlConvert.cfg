CONSTANTS
    Transducers <- MCTransducers
    Harmonizers <- MCHarmonizers
    NoHarmonizer = NoHarmonizer
    FlagStrings = {5}
    START = 70
    NO_SYMBOL_NUMBER = 7
    AGGRESSION = 85
    JUMP_THRESHOLD = 4
SPECIFICATION FairRoundTrip
CHECK_DEADLOCK FALSE
INVARIANTS
    TypeOK
    SlotOwnership
    ReadsExactly
    RoundTrip
    AddressesDistinct
    ReadsInBounds
PROPERTIES
    NoOverwrite
    Terminates
