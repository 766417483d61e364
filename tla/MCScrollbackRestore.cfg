SPECIFICATION RestoreSpec
CONSTANTS
    RingCap = 2
    IdxCap = 4
    MaxPush = 4
    MaxOpens = 3
    SnapCap = 2
PROPERTIES
    HandOverKeepsHistory
    RestoredInOrder
CHECK_DEADLOCK FALSE
