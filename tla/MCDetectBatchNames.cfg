\* One base name in two directories, no errors.
CONSTANTS
    t1 = t1
    t2 = t2
    Files <- SameName
    Findings <- SomeFindings
    Pieces <- TwoPieces
    Threads = {t1, t2}
    Purify = TRUE
    Faults = FALSE
    NoFile = NoFile
    Torn = Torn
    NoFingerprint = NoFingerprint
    Unfiltered = Unfiltered
    Evals <- SomeEvals
    Options <- SomeOptions
SPECIFICATION Spec
SYMMETRY Symm
INVARIANTS
    CleanCopy
CHECK_DEADLOCK FALSE
