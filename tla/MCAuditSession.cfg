CONSTANTS
    File = {f1, f2}
    MaxPending = 1
    LiveIndex = TRUE
    MaxClock = 3
    MaxIndexes = 1
SPECIFICATION FairSpec
INVARIANTS SavedFilesCurrent
PROPERTIES UnsavedTextIndexed StaleMarkEnds
CHECK_DEADLOCK FALSE
