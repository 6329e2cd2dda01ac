SPECIFICATION LiveSpec
CONSTANTS
    Clients = {c1, c2}
    Writers = {c1}
    k1 = k1
    k2 = k2
    g1 = g1
    g2 = g2
    Keys = {k1, k2}
    Gateways = {g1, g2}
    Empty = Empty
    replication = 2
    choose_gateway <- Place
    Space = {2}
    MaxFaults = 2
INVARIANTS CopiesCounted AckedPutStored ValuesBelong EmptyOnlyIfAbsent
PROPERTIES WaitAnswersAll
CHECK_DEADLOCK FALSE
