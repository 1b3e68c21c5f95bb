SPECIFICATION Spec
CONSTANTS
    Items = {i1}
    Torrents = {}
    Retries = {r1}
    NoItem = NoItem
    NoTorrent = NoTorrent
PROPERTIES OnlySameMovieIsDeleted
CHECK_DEADLOCK FALSE
