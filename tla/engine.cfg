SPECIFICATION MCSpec
CONSTANTS
    MaxWindows = 1
    MaxTrouble = 2
    OrderedDirs = FALSE
    Nil = Nil
    k1 = k1
    k2 = k2
INVARIANTS CanonicalIsExact  BooksAreTrue EconomicsAreExact DerivativesAreTrue WindowsAreKept
SYMMETRY BookSymmetry
CHECK_DEADLOCK FALSE
