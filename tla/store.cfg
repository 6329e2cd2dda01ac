SPECIFICATION StoreSpec
CONSTANTS
    PageSizes = {1}
    Offsets = {0, 1}
    Sizes = {1, 3}
    Appends = {TRUE, FALSE}
    MaxBlobs = 2
    MaxTickets = 3
    Width = 4
    SparseWrites = FALSE
    LostGets = FALSE
    MaxWrites = 3
    MaxFailures = 1
INVARIANTS VersionsConsecutive RootsFit
PROPERTIES RootsImmutable PublishedInOrder SnapshotsAreSequential
CHECK_DEADLOCK FALSE
