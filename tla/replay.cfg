SPECIFICATION FairSpec
CONSTANTS
    MaxJobs = 2
    MaxActive = 2
    MaxQueued = 1
    MaxAttempts = 2
    MaxProducers = 2
    MaxTrouble = 1
 
PROPERTY EveryJobEnds
CHECK_DEADLOCK FALSE
