SPECIFICATION Spec
CONSTANTS
    Radarrs = {r1}
    QBits = {}
    Jobs = {j1}
    Short = {s1}
    Long = {l1}
    Nobody = Nobody
    MaxEdits = 0
    MaxCrashes = 1
    Overlap = FALSE
INVARIANTS ActiveNeedsApproval
CHECK_DEADLOCK FALSE
