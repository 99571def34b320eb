SPECIFICATION Spec
CONSTANTS
    Key = {k1, k2}
    TileHeight = 1
    BatchSize = 2
    MaxTileLag = 1
    CommitTimesOut = TRUE
    PruneOrphans = TRUE
    MaxEntries = 3
    MaxFaults = 1
    MaxRestarts = 1
SYMMETRY KeySymmetry
INVARIANTS
    TypeOK
    NoLeafLost
    RootIsLeaves
    CommittedRootServable
    PublishedIsDurable
    HorizonIsReadable
    ReceiptsCoverHorizon
    HeadsMatchPrefix
    NoEquivocation
CHECK_DEADLOCK FALSE
