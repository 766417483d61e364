SPECIFICATION FairSpec
CONSTANTS
    HoldCap = 2
    Worlds <- MCWorlds
    Staged <- AllStaged
INVARIANTS
    InputInFlight
    OutputInFlight
    NoExecAfterClose
PROPERTIES
    HandOverEnds
CHECK_DEADLOCK FALSE
