SPECIFICATION FairSpec
CONSTANTS
    c1 = c1
    c2 = c2
    Callers = {c1, c2}
    EventBuffer = 1
    MaxEvents = 0
CHECK_DEADLOCK FALSE
PROPERTY SendsFailWhenReaderGone
