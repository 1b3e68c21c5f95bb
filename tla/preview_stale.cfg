SPECIFICATION Spec
CONSTANTS
    Movies = {m1}
    Torrents = {t1}
    Domains = {d1}
    Unnamed = {}
    Rows <- SomeRows
    Forms <- SomeForms
    RatioLimit = 2
    TimeLimit = 2
    GraceLimit = 2
    Default <- MCDefault
    Overlap = FALSE
INVARIANTS
    PreviewIsCurrent
CHECK_DEADLOCK FALSE
