\* Offsets of two bits; the history may outgrow them.
SPECIFICATION ViewFairSpec
CONSTANTS
    W = 4
    Rows = 2
    AltCap = 1
    None = None
    MaxLines = 4
    MaxMoves = 2
    MaxSwitches = 2
    MaxLives = 1
INVARIANTS
    ReadingStays
PROPERTIES
    TypingShowsLive
CHECK_DEADLOCK FALSE
