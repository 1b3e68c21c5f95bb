SPECIFICATION Spec
CONSTANTS
    Radarrs = {r1}
    QBits = {}
    Jobs = {j1, j2}
    Short = {s1}
    Long = {l1}
    Nobody = Nobody
    MaxEdits = 0
    MaxCrashes = 1
    Overlap = FALSE
VIEW WithoutHistory
PROPERTIES SwitchOffDrainsQueue
CHECK_DEADLOCK FALSE
