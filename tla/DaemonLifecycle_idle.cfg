SPECIFICATION Spec
CONSTANTS
    p1 = p1
    p2 = p2
    p3 = p3
    c1 = c1
    c2 = c2
    c3 = c3
    s1 = s1
    Daemons = {p1, p2}
    Callers = {c1, c2}
    Stoppers = {}
    Sequential = TRUE
    IdleTimeout = TRUE
    MaxCrashes = 0
CHECK_DEADLOCK FALSE
INVARIANT ServingIsReachable
