SPECIFICATION Spec
CONSTANTS
    t1 = t1
    t2 = t2
    s1 = s1
    Tools = {t1, t2}
    Stops = {}
CHECK_DEADLOCK FALSE
INVARIANT ExitClosesBrowser
