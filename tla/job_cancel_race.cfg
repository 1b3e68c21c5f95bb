SPECIFICATION Spec
CONSTANTS
    Executors = {e1}
    Admins = {a1}
    Torrents = {}
    NoOne = NoOne
    NoTorrent = NoTorrent
    PlexMatched = TRUE
PROPERTIES TerminalStatesAreFinal
CHECK_DEADLOCK FALSE
