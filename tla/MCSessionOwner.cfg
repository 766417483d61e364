SPECIFICATION FairSpec
CONSTANTS
    Sids = {1, 2, 3}
    Saved <- MCSaved
    Cap = 3
    MaxPids = 2
    MaxNodes = 4
    MaxStarts = 2
    MaxOpens = 1
    MaxGestures = 1
    MaxMishaps = 1
INVARIANTS
    OneServes
PROPERTIES
    SweepSpares
    IdsNotReused
    NoneLost
    StrandedLeaves
CHECK_DEADLOCK FALSE
