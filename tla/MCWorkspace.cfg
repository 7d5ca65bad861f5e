\* Two processes, one after or beside the other, with a kill and two signals.
SPECIFICATION Spec
CONSTANTS
    p1 = p1
    p2 = p2
    p3 = p3
    Procs = {p1, p2}
    Names <- Distinct
    Mine <- MineDistinct
    Purify = TRUE
    OutputFaults <- MinePlain
    MaxKills = 1
    MaxSignals = 2
SYMMETRY Symmetric
INVARIANTS
    LockExcludes
    SkipsOnlyDone
    AllAccounted
    ResultsKept
PROPERTIES
    ResumeSkips
CHECK_DEADLOCK FALSE
