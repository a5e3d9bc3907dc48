SPECIFICATION FairSpec
CONSTANTS
    click = click
    eval = eval
    dismiss = dismiss
    tool = tool
    start = start
    restart = restart
    stop = stop
    group = group
    model = model
    teardown = teardown
    nobody = nobody
    Commands = {click, eval}
    Unblockers = {dismiss}
    Tools = {tool}
    Starts = {start, restart}
    Stops = {stop}
    Edits = {group}
    Model = model
    Teardown = teardown
    NoOne = nobody
    MaxBegun = 3
CHECK_DEADLOCK FALSE
INVARIANTS
    ModelIsUndisturbed
    RecordingsAreWhole
    NothingIsLeftBehind

PROPERTY EverythingEnds
