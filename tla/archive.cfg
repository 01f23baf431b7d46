SPECIFICATION MCFairSpec
CONSTANTS
    MaxSegments = 2
    MaxTrouble = 1
    OrderedDirs = TRUE
INVARIANT RawIsKept
PROPERTIES ReaderRecovers 
CHECK_DEADLOCK FALSE
