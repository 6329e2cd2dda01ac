SPECIFICATION ProviderSpec
CONSTANTS
    Keys = {k1, k2, k3}
    CacheSlots = 2
    TotalSpace = 3
    MaxFaults = 1
    MaxLost = 1
INVARIANTS CacheConsistent CleanPagesStored PagesKept SpaceHonest ReportingAlive
PROPERTIES PagesEventuallyReadable ReportsCatchUp
CHECK_DEADLOCK FALSE
