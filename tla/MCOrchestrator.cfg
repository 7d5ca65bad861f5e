SPECIFICATION Spec
CONSTANTS
    f1 = f1
    f2 = f2
    f3 = f3
    FileList <- ThreeFiles
    DownloadBatch = 2
    DownloadMax = 1
    UploadBatch = 2
    UploadMax = 1
    MaxJobs = 2
    Attempts = 2
    Purify = TRUE
    DownloadFaults = TRUE
    OutputFaults = {f1, f2, f3}
    MaxRestarts = 0
INVARIANTS
    OnePlaceFile
    NoFileForgotten
    LoopExitComplete
    UploadsFirst
CHECK_DEADLOCK FALSE
