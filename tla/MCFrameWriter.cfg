SPECIFICATION WriterSpec
CONSTANTS
    Cap = 3
    Sizes <- MCSizes
    MaxFrames = 6
    MaxImages = 2
INVARIANTS
    BacklogTruthful
CHECK_DEADLOCK FALSE
