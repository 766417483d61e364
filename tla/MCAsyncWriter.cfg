SPECIFICATION FairSpec
CONSTANTS
    Cap = 2
    Depth = 2
    WriteSizes <- MCWriteSizes
    MaxBytes = 8
    MaxFiles = 2
PROPERTIES
    FlushIsDurable
    ImplementsLog
    CallerReturns
CHECK_DEADLOCK FALSE
