SPECIFICATION Spec
CONSTANTS
    NoMovie = NoMovie
    Movies = {m1, m2}
    Torrents = {t1}
    Resumes = {m1}
PROPERTIES
    AllRemovedIsUnshared
