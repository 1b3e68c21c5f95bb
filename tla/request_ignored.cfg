SPECIFICATION Spec
CONSTANTS
    Seasons = {1}
    NeverWatchedFor = 2
    WatchedFor = 1
    MaxTime = 3
    MaxChanges = 1
    Overlap = FALSE
INVARIANTS RequesterProtects
CHECK_DEADLOCK FALSE
