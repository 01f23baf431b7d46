SPECIFICATION MCSpec
CONSTANTS
    MaxWindows = 1
    MaxTrouble = 0
    OrderedDirs = FALSE
    Nil = Nil
    k1 = k1
    k2 = k2
INVARIANT RolloverNeverBisects
SYMMETRY BookSymmetry
CHECK_DEADLOCK FALSE
