SPECIFICATION Spec
CONSTANTS
    Arrs = {a1, a2}
    Libraries = {l1, l2}
    MaxScore = 2
    Overlap = {l1}
    Waiting = {a1}
INVARIANTS
    OneOwner
    LifecyclesFollow
    PairedIsSelected
PROPERTIES
    ManualStands
    AutoYieldsToEvidence
    ClearWinnerIsPaired
