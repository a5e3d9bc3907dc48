SPECIFICATION Spec
CONSTANTS
    Programs <- MCPrograms
    Screen <- MCScreen
    Elements = {1, 2}
    Spots = {1, 2, 3}
    Shadowed = {2}
    Inert = {2}
    MaxTries = 1
    MaxChanges = 2
CHECK_DEADLOCK FALSE
INVARIANTS
    ActsOnTarget
    AnswersAreTrue
    OkMeansDone
