SPECIFICATION Spec
CONSTANTS
    Seasons = {1, 2}
    NeverWatchedFor = 2
    WatchedFor = 1
    MaxTime = 3
    MaxChanges = 2
    Overlap = FALSE
PROPERTY
    ResetsStand
CHECK_DEADLOCK FALSE
