SPECIFICATION FairSpec
CONSTANTS
    f1 = f1
    f2 = f2
    f3 = f3
    FileList <- TwoFiles
    DownloadBatch = 2
    DownloadMax = 1
    UploadBatch = 2
    UploadMax = 1
    MaxJobs = 2
    Attempts = 1
    Purify = TRUE
    DownloadFaults = TRUE
    OutputFaults = {f1, f2}
    MaxRestarts = 1
PROPERTIES
    QueuedCollected
    EndsUnlessLost
CHECK_DEADLOCK FALSE
