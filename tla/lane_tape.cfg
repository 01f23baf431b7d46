SPECIFICATION Spec
CONSTANTS
    Period = 1
    Capacity = 1
    WriterBatch = 2
    MaxTime = 1
    MaxFrames = 2
    MaxRuns = 2
    MaxKills = 0
    MaxOutages = 1
    MaxBackSteps = 1
    OrderedDirs = FALSE
    Faults = {}
    MaxFaults = 0
INVARIANTS RegressionIsFlagged
 
CHECK_DEADLOCK FALSE
