SPECIFICATION Spec
CONSTANTS
    Items = {i1}
    Torrents = {t1, t2}
    Retries = {r1}
    NoItem = NoItem
    NoTorrent = NoTorrent
SYMMETRY Symmetry
INVARIANTS
    RunFollowsRow
    ArrDeletionHolds
    NoTorrentIsLeft
PROPERTIES
    ItemsOnlyAdvance
    KeepsPromise
CHECK_DEADLOCK FALSE
