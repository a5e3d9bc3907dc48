SPECIFICATION FairSpec
CONSTANTS
    h1 = h1
    Handlers = {h1}
    Closers = {"CloseAll", "OnClientDisconnect"}
    RawIds = {1}
    FirstInternalID = 10
    MaxInternal = 3
    MaxCommands = 1
    MaxBegun = 2
INVARIANTS
    RepliesReachTheirCaller
    InternalRepliesStayInside
    TeardownInOrder
PROPERTIES
    KeepsPromise
    SessionSettles
CHECK_DEADLOCK FALSE
