SPECIFICATION Spec
CONSTANTS
    Seasons = {1}
    NeverWatchedFor = 2
    WatchedFor = 1
    MaxTime = 1
    MaxChanges = 3
    Overlap = TRUE
INVARIANTS TagProtects
CHECK_DEADLOCK FALSE
