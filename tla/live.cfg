SPECIFICATION MCFairSpec
CONSTANTS
    Groups = {"g1", "g2"}
    Publisher = "publisher"
    LastEntry = 2
    BatchEntries = 1
    QueueLimit = 1
    ReadEntries = 2
    Attempts = 2
    NoProgress = 1
    Margin = 1
    MaxMishaps = 1
INVARIANTS AttemptIsSound
PROPERTIES EveryRunEnds EndedWindowIsSealed StopEnds EndedWindowIsCommitted InterruptedRunIsArchived EveryBookKeepsComing
CHECK_DEADLOCK FALSE
