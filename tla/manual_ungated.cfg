SPECIFICATION Spec
CONSTANTS
    Items = {i1}
    Torrents = {t1}
    Retries = {r1}
    NoItem = NoItem
    NoTorrent = NoTorrent
SYMMETRY Symmetry
PROPERTIES ResumesAreGated
CHECK_DEADLOCK FALSE
