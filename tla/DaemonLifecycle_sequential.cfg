SPECIFICATION FairSpec
CONSTANTS
    p1 = p1
    p2 = p2
    p3 = p3
    c1 = c1
    c2 = c2
    c3 = c3
    s1 = s1
    Daemons = {p1, p2, p3}
    Callers = {c1, c2, c3}
    Stoppers = {s1}
    Sequential = TRUE
    IdleTimeout = FALSE
    MaxCrashes = 2
CHECK_DEADLOCK FALSE
INVARIANTS
    OneDaemon
    ServingIsReachable
    FailsOnlyByCrash
    StopIsComplete
PROPERTY CommandsEnd
