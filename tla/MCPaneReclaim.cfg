\* Everybody may stop: the person, the agent and the command line owe nothing.
SPECIFICATION FairSpec
CONSTANTS
    MaxRuns = 2
    MaxAgents = 2
    MaxQueued = 2
    MaxMishaps = 2
    Slices <- MCSlices
INVARIANTS
    SlotIsSession
    ParkedIsRecorded
    OneWakePath
PROPERTIES
    SleeperWakes
    WorkDrains
