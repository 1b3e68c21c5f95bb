SPECIFICATION Spec
CONSTANTS
    Seasons = {1}
    NeverWatchedFor = 2
    WatchedFor = 1
    MaxTime = 3
    MaxChanges = 2
    Overlap = FALSE
INVARIANTS ReturnedSeasonHasATerm
CHECK_DEADLOCK FALSE
