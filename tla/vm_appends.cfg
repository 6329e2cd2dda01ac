SPECIFICATION LiveSpec
CONSTANTS
    PageSizes = {1, 2}
    Offsets = {0}
    Sizes = {1, 2}
    Appends = {TRUE}
    MaxBlobs = 2
    MaxTickets = 3
    Width = 5
INVARIANTS AppendsTile
PROPERTIES EveryTicketPublished
CHECK_DEADLOCK FALSE
