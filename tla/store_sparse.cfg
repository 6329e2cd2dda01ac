SPECIFICATION StoreSpec
CONSTANTS
    PageSizes = {1}
    Offsets = {0, 4}
    Sizes = {1, 2}
    Appends = {TRUE, FALSE}
    MaxBlobs = 1
    MaxTickets = 2
    Width = 4
    SparseWrites = TRUE
    LostGets = FALSE
    MaxWrites = 2
    MaxFailures = 0
PROPERTIES SnapshotsAreSequential
CHECK_DEADLOCK FALSE
