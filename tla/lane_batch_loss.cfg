SPECIFICATION Spec
CONSTANTS
    Period = 1
    Capacity = 2
    WriterBatch = 2
    MaxTime = 1
    MaxFrames = 2
    MaxRuns = 1
    MaxKills = 0
    MaxOutages = 0
    MaxBackSteps = 0
    OrderedDirs = TRUE
    Faults = {"write"}
    MaxFaults = 1
INVARIANT CleanCloseSealsEverything
CHECK_DEADLOCK FALSE
