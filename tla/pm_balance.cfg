SPECIFICATION LiveSpec
CONSTANTS
    Providers = {p1, p2, p3}
    FreeSpaces = {0, 1, 2}
    PageCounts = {1}
    ReplicaCounts = {1, 2}
    Timeout = 0
    MaxScore = 2
INVARIANTS TypeOK IndexOrdered ReplicasApart
PROPERTIES LowestScoreWins FailsOnlyWhenFull SilentProvidersBlacklisted
CHECK_DEADLOCK FALSE
