SPECIFICATION Spec
CONSTANTS
    Radarrs = {r1}
    QBits = {}
    Jobs = {j1}
    Short = {s1}
    Long = {l1}
    Nobody = Nobody
    MaxEdits = 1
    MaxCrashes = 0
    Overlap = FALSE
\* Or ActivationFollowsTest, in its place.
PROPERTIES ActivationFollowsSync
CHECK_DEADLOCK FALSE
