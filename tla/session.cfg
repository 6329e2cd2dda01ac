SPECIFICATION SessionSpec
CONSTANTS
    h1 = h1
    h2 = h2
    p1 = p1
    p2 = p2
    Handlers = {h1, h2}
    Writers = {h2}
    Providers = {p1, p2}
    PageSizes = {3}
    Offsets = {0}
    Sizes = {6}
    Appends = {FALSE}
    MaxBlobs = 2
    MaxTickets = 2
    Width = 5
    MaxWrites = 2
    MaxFaults = 1
SYMMETRY Symmetry
INVARIANTS VersionCacheRight PublishedPagesStored ReadFindsReplica BuffersFilled
PROPERTIES StepsBackOnlyBehindWriter
CHECK_DEADLOCK FALSE
