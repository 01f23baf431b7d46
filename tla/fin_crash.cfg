SPECIFICATION Spec
CONSTANTS
    Procs = {p, q}
    NoProc = NoProc
    Lanes = {a}
    Expected = {a}
    Period = 1
    Deadline = 1
    MaxSynth = 3
    MaxTime = 3
    MaxSegments = 3
    MaxRecords = 1
    MaxFaults = 0
    MaxSkips = 1
    MaxKills = 1
INVARIANTS    LeaseExcludes RestartIsFaithful
SYMMETRY ProcSymmetry
CHECK_DEADLOCK FALSE

