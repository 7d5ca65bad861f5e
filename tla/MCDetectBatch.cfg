\* Three files with distinct names, two threads, errors anywhere.
CONSTANTS
    t1 = t1
    t2 = t2
    Files <- DistinctFiles
    Findings <- SomeFindings
    Pieces <- TwoPieces
    Threads = {t1, t2}
    Purify = TRUE
    Faults = TRUE
    NoFile = NoFile
    Torn = Torn
    NoFingerprint = NoFingerprint
    Unfiltered = Unfiltered
    Evals <- SomeEvals
    Options <- SomeOptions
SPECIFICATION Spec
SYMMETRY Symm
INVARIANTS
    PurifiedMatchesReport
    SummaryMatchesReports
    Deterministic
    ReviewTellsRun
    SameRunCompares
    CollapseKeepsDocuments
PROPERTIES
    ImplementsRun
CHECK_DEADLOCK FALSE
