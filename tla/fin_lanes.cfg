SPECIFICATION Spec
CONSTANTS
    Procs = {p}
    NoProc = NoProc
    Lanes = {a, b}
    Expected = {a, b}
    Period = 1
    Deadline = 1
    MaxSynth = 1
    MaxTime = 3
    MaxSegments = 3
    MaxRecords = 1
    MaxFaults = 1
    MaxSkips = 0
    MaxKills = 0
INVARIANTS NoSilentGap IncompleteOnlyAfterDeadline
 
CHECK_DEADLOCK FALSE

