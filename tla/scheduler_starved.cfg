SPECIFICATION Spec
CONSTANTS
    s1 = s1
    s2 = s2
    s3 = s3
    Sources = {s1, s2, s3}
    Order <- MCOrder
    Broken = {s1}
    MaxVisits = 0
\* Or DisabledIsNotScheduled, in its place.
PROPERTIES
    EverySourceIsSynced
