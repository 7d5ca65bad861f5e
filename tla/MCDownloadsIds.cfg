\* A suite that is copied and one that is downloaded, one command.
CONSTANTS
    SuiteOrder <- Order
    BundledConfig <- Config0
    Examples <- Data
    BundledFiles <- Copied
    ChunkSize = 3
    FlushAt = 2
    MaxCommands = 1
    MaxKills = 0
    MaxEdits = 0
    NoConfig = NoConfig
SPECIFICATION Spec
INVARIANTS
    DocIdsUnique
CHECK_DEADLOCK FALSE
