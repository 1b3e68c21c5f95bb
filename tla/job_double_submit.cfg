SPECIFICATION Spec
CONSTANTS
    Executors = {e1, e2}
    Admins = {}
    Torrents = {t1}
    NoOne = NoOne
    NoTorrent = NoTorrent
    PlexMatched = TRUE
PROPERTIES DeletionIsRemembered
CHECK_DEADLOCK FALSE
