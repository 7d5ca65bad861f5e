\* Three requests against a channel of one and two workers: submit_job blocks,
\* both workers are busy and one restart is possible.
CONSTANTS
    Jobs = {j1, j2, j3}
    Workers = {w1, w2}
    Capacity = 1
    Purify = TRUE
    MaxCrashes = 1
    NoJob = NoJob
    NoWorker = NoWorker
SPECIFICATION FairSpec
INVARIANTS
    OnePlace
    PublishedOutputs
PROPERTIES
    ImplementsService
    SentFinishes
    SubmitAnswers
CHECK_DEADLOCK FALSE
