SPECIFICATION Spec
CONSTANTS
    Key = {k1, k2}
    TileHeight = 1
    BatchSize = 2
    MaxTileLag = 1
    CommitTimesOut = FALSE
    PruneOrphans = TRUE
    MaxEntries = 3
    MaxFaults = 0
    MaxRestarts = 1
INVARIANT ReceiptRangeIsLadderStep
CHECK_DEADLOCK FALSE
