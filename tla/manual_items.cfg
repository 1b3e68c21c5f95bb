SPECIFICATION Spec
CONSTANTS
    Items = {i1, i2}
    Torrents = {}
    Retries = {r1}
    NoItem = NoItem
    NoTorrent = NoTorrent
SYMMETRY Symmetry
CONSTRAINT QbitStaysOn
PROPERTIES
    ReportIsRight
CHECK_DEADLOCK FALSE
