SPECIFICATION Spec
CONSTANTS
    Movies = {m1, m2}
    Torrents = {t1}
    Domains = {d1}
    Unnamed = {}
    Rows <- SomeRows
    Forms <- SomeForms
    RatioLimit = 2
    TimeLimit = 2
    GraceLimit = 2
    Default <- MCDefault
    Overlap = FALSE
SYMMETRY Symmetry
INVARIANTS
    PreviewMatches
    GatesAgree
PROPERTIES
    EligibleIsMet
CHECK_DEADLOCK FALSE
