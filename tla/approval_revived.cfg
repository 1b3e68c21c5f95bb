SPECIFICATION Spec
CONSTANTS
    Radarrs = {r1}
    QBits = {}
    Jobs = {j1}
    Short = {s1}
    Long = {l1}
    Nobody = Nobody
    MaxEdits = 1
    MaxCrashes = 0
    Overlap = FALSE
PROPERTIES ApprovalsDoNotRevive
CHECK_DEADLOCK FALSE
