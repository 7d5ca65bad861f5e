\* Three suites, three commands with a kill, an edit of the configuration, failures.
CONSTANTS
    SuiteOrder <- Order
    BundledConfig <- Config0
    Examples <- Data
    BundledFiles <- Copied
    ChunkSize = 3
    FlushAt = 2
    MaxCommands = 3
    MaxKills = 1
    MaxEdits = 1
    NoConfig = NoConfig
SPECIFICATION Spec
INVARIANTS
    IdsUnique
    ChunksWhole
    StatsComplete
CHECK_DEADLOCK FALSE
