SPECIFICATION FuseSpec
CONSTANTS
    h1 = h1
    h2 = h2
    f1 = f1
    f2 = f2
    p1 = p1
    None = None
    Handlers = {h1, h2, f1, f2}
    Pool = {f1, f2}
    Writers = {h1, h2}
    Providers = {p1}
    PageSizes = {2}
    Offsets = {0}
    Sizes = {2}
    Appends = {FALSE}
    MaxBlobs = 2
    MaxTickets = 1
    Width = 5
    MaxWrites = 2
    MaxFaults = 0
INVARIANT FileShowsItsVersion
CHECK_DEADLOCK FALSE
