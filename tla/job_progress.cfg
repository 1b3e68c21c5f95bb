SPECIFICATION FairSpec
CONSTANTS
    Executors = {e1}
    Admins = {}
    Torrents = {t1, t2}
    NoOne = NoOne
    NoTorrent = NoTorrent
    PlexMatched = TRUE
    MaxFaults = 2
INVARIANTS
    CompletedLeavesNoTorrent
    ProgressIsReal
    RecordedDeletionsHold
PROPERTIES
    TerminalStatesAreFinal
    DeletionIsRemembered
    DeletionResumes
    CoordinatorIsReleased
CHECK_DEADLOCK FALSE
