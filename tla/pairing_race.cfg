SPECIFICATION Spec
CONSTANTS
    Arrs = {a1, a2}
    Libraries = {l1, l2}
    MaxScore = 1
    Overlap = {l1}
    Waiting = {}
\* Or PROPERTIES WinnerIsUnambiguous, in its place.
INVARIANTS
    AllPairedIsSelected
