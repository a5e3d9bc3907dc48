SPECIFICATION FairSpec
CONSTANTS
    c1 = c1
    c2 = c2
    Callers = {c1}
    EventBuffer = 1
    MaxEvents = 2
CHECK_DEADLOCK FALSE
INVARIANTS
    RoutedIsReturned
    NothingLeaks
PROPERTIES
    CallsEnd
    CloseReturns
    DeathIsNoticed
