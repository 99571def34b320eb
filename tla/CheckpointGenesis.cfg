SPECIFICATION Spec
CONSTANTS
    Key = {k1, k2}
    TileHeight = 1
    BatchSize = 2
    MaxTileLag = 1
    CommitTimesOut = FALSE
    PruneOrphans = TRUE
    MaxEntries = 1
    MaxFaults = 0
    MaxRestarts = 0
INVARIANT GenesisHeadMatches
CHECK_DEADLOCK FALSE
