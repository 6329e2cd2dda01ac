SPECIFICATION ClientSpec
CONSTANTS
    None = None
    r1 = r1
    r2 = r2
    r3 = r3
    hA = hA
    hB = hB
    Requests = {r1, r2, r3}
    Hosts = {hA, hB}
    HostOf <- MCHostOf
    Retry <- MCRetry
    Refusable = {r1}
    WAIT_LIMIT = 1
    NamesResolve = TRUE
INVARIANT AllCallbacksExecute
CHECK_DEADLOCK FALSE
