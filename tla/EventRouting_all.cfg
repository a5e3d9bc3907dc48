SPECIFICATION FairSpec
CONSTANTS
    dialogCapture = dialogCapture
    loadCapture = loadCapture
    file = file
    DialogCaptures = {dialogCapture}
    LoadCaptures = {loadCapture}
    Downloads = {file}
    MaxPrompts = 2
    MaxNavs = 2
    MaxActivity = 3
CHECK_DEADLOCK FALSE
INVARIANTS
    TrackersAreCurrent
    CaptureGetsFirst
    DismissesItsOwn
    CaptureDecides
PROPERTIES
    PromptsEnd
    WaitersEnd
