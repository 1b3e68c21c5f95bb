SPECIFICATION Spec
CONSTANTS
    NoMovie = NoMovie
    Movies = {m1, m2, m3}
    Torrents = {t1}
    Resumes = {m1}
INVARIANTS
    SharedIsSeen
PROPERTIES
    RemovedIsUnshared
    MappingRecovers
