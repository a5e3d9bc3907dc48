SPECIFICATION Spec
CONSTANTS
    MaxContexts = 3
    MaxLaunches = 2
    MaxEvents = 1
CHECK_DEADLOCK FALSE
INVARIANTS
    ActsWhereTold
    CurrentIsAlive
    NothingLeaks
