SPECIFICATION FairSpec
CONSTANTS
    Screens <- MCScreens
    Blank = "blank"
    SyncHold = 2
    BlankHold = 1
    MaxOut = 2
    MaxQueued = 1
    MaxClients = 2
    MaxHolds = 2
    MaxVisits = 2
INVARIANTS
    PokeKept
    DebtIsExact
PROPERTIES
    MirrorCatchesUp
CHECK_DEADLOCK FALSE
