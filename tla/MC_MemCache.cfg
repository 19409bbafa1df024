CONSTANTS
    Keys = {k1, k2}
    Values = {v1, v2}
    Elems = {e1, e2}
    TTLs <- MCTTLs
    MaxTime = 3
    Nil = Nil

SPECIFICATION Spec

INVARIANT TypeOK
INVARIANT IndexConsistent
PROPERTY ImplementsExpiringMap
