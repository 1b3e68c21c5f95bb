SPECIFICATION Spec
CONSTANTS
    Executors = {e1, e2}
    Admins = {a1}
    Torrents = {t1}
    NoOne = NoOne
    NoTorrent = NoTorrent
    PlexMatched = TRUE
SYMMETRY Symmetry
CONSTRAINT TwoAtATime
INVARIANTS
    SessionsHold
    CompletedIsUnlisted
PROPERTIES
    KeepsPromise
CHECK_DEADLOCK FALSE
