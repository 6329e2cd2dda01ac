SPECIFICATION LiveSpec
CONSTANTS
    None = None
    r1 = r1
    r2 = r2
    r3 = r3
    hA = hA
    Requests = {r1, r2, r3}
    Hosts = {hA}
    HostOf <- MCHostOf
    Retry <- MCRetry
    Refusable = {r1}
    WAIT_LIMIT = 1
    NamesResolve = FALSE
    Registered = {r1, r3}
    ExtRequests = {r3}
INVARIANTS TypeOK OnePlace HandlesBounded AnswersMatch
PROPERTIES EveryRequestAnswered ConnectionsReleased
CHECK_DEADLOCK FALSE
