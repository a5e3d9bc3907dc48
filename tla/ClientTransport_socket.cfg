SPECIFICATION FairSpec
CONSTANTS
    Messages = {m1, m2}
    OtherClosers = {"router", "stop"}
    WebSocket = TRUE
    MaxSends = 3
INVARIANTS
    CloseDrains
PROPERTIES
    Delivers
    CloseReturns
    FailureIsReported
CHECK_DEADLOCK FALSE
