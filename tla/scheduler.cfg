SPECIFICATION Spec
CONSTANTS
    s1 = s1
    s2 = s2
    s3 = s3
    Sources = {s1, s2, s3}
    Order <- MCOrder
    Broken = {s3}
    MaxVisits = 2
PROPERTIES
    PassShrinks
    PassEnds
    EverySourceIsSynced
