SPECIFICATION Spec
CONSTANTS
    Arrs = {a1, a2}
    Libraries = {l1, l2}
    MaxScore = 1
    Overlap = {}
    Waiting = {a1}
\* Or PROPERTIES ChoiceIsStored, in its place.
INVARIANTS
    AllLifecyclesFollow
