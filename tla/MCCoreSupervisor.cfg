SPECIFICATION FairSpec
CONSTANTS
    Builds <- MCBuilds
    Starts <- MCStarts
    Speaks <- MCSpeaks
    Bundle = "bundle"
    Installed = "old"
    Releases <- MCReleases
    None = "none"
    PingInterval = 1
    HelloTimeout = 1
    PongDeadline = 1
    StallGap = 1
    CrashWindow = 3
    MaxCrashes = 1
    Latency = 0
    BootTime = 1
    Doublings = 1
    LongGap = 2
    MaxStaged = 2
    MaxMishaps = 1
INVARIANTS
    RestartRate
    DeadNeverCurrent
PROPERTIES
    CrashIsReal
    CoreComesBack
CHECK_DEADLOCK FALSE
