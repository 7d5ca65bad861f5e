\* Both front ends, one file and up to four options.
CONSTANTS
    Unset = Unset
    NoFile = NoFile
    Broken = Broken
    None = None
    Inputs <- Cases
SPECIFICATION Spec
INVARIANTS
    NeverStale
    Runnable
    SameRun
CHECK_DEADLOCK FALSE
