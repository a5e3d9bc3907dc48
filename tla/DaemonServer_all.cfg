SPECIFICATION FairSpec
CONSTANTS
    t1 = t1
    t2 = t2
    s1 = s1
    Tools = {t1, t2}
    Stops = {s1}
CHECK_DEADLOCK FALSE
INVARIANTS
    RequestsAreFinished
    BrowserIsClosed
PROPERTIES
    ShutdownEnds
    RequestsEnd
