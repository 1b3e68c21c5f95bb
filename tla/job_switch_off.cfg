SPECIFICATION Spec
CONSTANTS
    Executors = {e1}
    Admins = {a1}
    Torrents = {t1}
    NoOne = NoOne
    NoTorrent = NoTorrent
    PlexMatched = TRUE
PROPERTIES NoStepWhileOff
CHECK_DEADLOCK FALSE
