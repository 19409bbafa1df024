CONSTANTS
    Keys <- MCKeys
    Values <- MCValues
    Elems <- MCElems
    Procs <- MCProcs
    k1 = k1  k2 = k2  k3 = k3  v1 = v1  v2 = v2
    e1 = e1  e2 = e2  e3 = e3  e4 = e4  p1 = p1
    Nil = Nil
    TTLs = {0, 2}
    InitCap = 2
    Caps = {0, 1, 2}
    InitTTL = 1
    MaxTime = 3
SPECIFICATION Spec
SYMMETRY MCSymmetry
VIEW GarbageFreeView
INVARIANT TypeOK SizeIsLength IndexConsistent WithinCapacity
PROPERTY NoEvictionBelowCapacity
