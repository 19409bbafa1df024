CONSTANTS
    Keys <- MCKeys
    Values <- MCValues
    Elems <- MCElems
    Procs <- MCProcs
    k1 = k1  k2 = k2  k3 = k3  v1 = v1  v2 = v2
    e1 = e1  e2 = e2  e3 = e3  e4 = e4  p1 = p1
    Nil = Nil
    TTLs = {0}
    InitCap = 2
    Caps = {0, 1, 2}
    InitTTL = 0
    MaxTime = 1
SPECIFICATION SpecLRU
SYMMETRY MCSymmetry
VIEW GarbageFreeView
PROPERTY ImplementsLRU
