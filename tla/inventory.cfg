SPECIFICATION Spec
CONSTANTS
    Seasons = {1, 2}
    NeverWatchedFor = 2
    WatchedFor = 1
    MaxTime = 3
    MaxChanges = 2
    Overlap = FALSE
INVARIANTS
    ProtectionStands
    OriginalImport
    WatchesAreReal
    EligibleIsExpired
PROPERTIES
    WatchResetsLaterSeasons
    OnlyFreshEvidenceCondemns
CHECK_DEADLOCK FALSE
