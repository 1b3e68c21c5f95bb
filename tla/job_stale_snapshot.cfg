SPECIFICATION Spec
CONSTANTS
    Executors = {e1, e2}
    Admins = {}
    Torrents = {t1}
    NoOne = NoOne
    NoTorrent = NoTorrent
    PlexMatched = TRUE
SYMMETRY Symmetry
INVARIANTS CompletedLeavesNoTorrent
CHECK_DEADLOCK FALSE
