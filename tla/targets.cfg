SPECIFICATION MCSpec
CONSTANTS
    Writers = {"w1", "w2"}
    Requests <- StoreRequests
    MaxTrouble = 2
    Procs = {"p1", "p2"}
    LastRun = 2
    LastVenue = 2
    MaxFaults = 2
    BundleOrder <- GameBundles
    EventOf <- GameEvents
    TickersOf <- GameTickers
    ReadyAt <- GameReady
    MaxTries = 2
    RunCap = 1
    LastHour = 3
    MaxMishaps = 1
    MaxPulls = 2
    MaxEdits = 1
    Nothing = Nothing
    Tickers = {"m1", "m2"}
    TargetFiles <- SpliceFiles
    Unreadable = Unreadable
    Nil = Nil
    TargetPoll = 2
    MaxAge = 4
    SweepSeconds = 1
    MaxSweep = 2
    Cooldown = 1
    MaxBackoff = 2
    StopAfter = 9
    MaxFrames = 2
    MaxUpsets = 2
INVARIANTS SelectionIsPublishable     ObjectsAreKept
PROPERTIES ContinuityIsKept RunsAreKept RefusalsCostWhatTheyShould
CHECK_DEADLOCK FALSE
