SPECIFICATION StoreSpec
CONSTANTS
    PageSizes = {1}
    Offsets = {0, 1}
    Sizes = {1, 2}
    Appends = {TRUE, FALSE}
    MaxBlobs = 1
    MaxTickets = 2
    Width = 3
    SparseWrites = FALSE
    LostGets = TRUE
    MaxWrites = 2
    MaxFailures = 0
PROPERTIES SnapshotsAreSequential
CHECK_DEADLOCK FALSE
