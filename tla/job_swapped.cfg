SPECIFICATION Spec
CONSTANTS
    Executors = {e1}
    Admins = {}
    Torrents = {}
    NoOne = NoOne
    NoTorrent = NoTorrent
    PlexMatched = TRUE
PROPERTIES OnlyVerifiedIsDeleted
CHECK_DEADLOCK FALSE
