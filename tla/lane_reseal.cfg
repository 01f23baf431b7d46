SPECIFICATION Spec
CONSTANTS
    Period = 1
    Capacity = 2
    WriterBatch = 2
    MaxTime = 1
    MaxFrames = 1
    MaxRuns = 1
    MaxKills = 0
    MaxOutages = 0
    MaxBackSteps = 0
    OrderedDirs = TRUE
    Faults = {"seal_fsync"}
    MaxFaults = 1
INVARIANT SealIsHonest
CHECK_DEADLOCK FALSE
