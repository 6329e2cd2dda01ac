SPECIFICATION Spec
CONSTANTS
    PageCount = 3
    page_size = 2
    WriteSizes = {1, 3}
    MaxWrites = 2
    MaxOpens = 2
INVARIANTS ValidPrefixRight ReadsServeValid UserBytesCommitted CommitKeepsTheRest
CHECK_DEADLOCK FALSE
