SPECIFICATION MCSpec
CONSTANTS
    Period = 1
    Capacity = 2
    WriterBatch = 2
    MaxTime = 2
    MaxFrames = 2
    MaxRuns = 2
    MaxKills = 1
    MaxOutages = 1
    MaxBackSteps = 0
    OrderedDirs = TRUE
    Faults = {"write", "rollback", "fsync", "force", "seal_fsync", "rename", "seal_write", "open"}
    MaxFaults = 2
ACTION_CONSTRAINT OneKind
INVARIANTS SealsAreHonest LaneIsOrderly
PROPERTIES DurableSurvives
CHECK_DEADLOCK FALSE
