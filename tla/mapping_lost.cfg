SPECIFICATION Spec
CONSTANTS
    NoMovie = NoMovie
    Movies = {m1, m2}
    Torrents = {t1, t2}
    Resumes = {}
PROPERTIES
    AllIsExamined
