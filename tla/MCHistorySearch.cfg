SPECIFICATION SearchSpec
CONSTANTS
    RingCap = 1
    IdxCap = 2
    MaxPush = 5
    MaxOpens = 3
    MaxRows = 2
    MaxSearchOpens = 1
INVARIANTS
    NeverAnotherLine
    ClearedStaysCleared
    SearchReadsItsHistory
PROPERTIES
    HistoryRecovered
CHECK_DEADLOCK FALSE
