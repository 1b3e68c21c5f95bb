SPECIFICATION Spec
CONSTANTS
    Radarrs = {r1}
    QBits = {}
    Jobs = {j1, j2}
    Short = {s1}
    Long = {l1}
    Nobody = Nobody
    MaxEdits = 1
    MaxCrashes = 1
    Overlap = FALSE
VIEW WithoutHistory
INVARIANTS
    ActiveIsPermitted
    ActiveEndsWithMode
    QueueEndsWithSwitch
SYMMETRY Symmetry
CHECK_DEADLOCK FALSE
