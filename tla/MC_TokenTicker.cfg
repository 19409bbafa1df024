CONSTANTS
    u1 = u1  u2 = u2  s1 = s1  s2 = s2
    o1 = o1  o2 = o2  o3 = o3  e1 = e1  e2 = e2  p1 = p1  p2 = p2
    Users <- MCUsers
    TokStrs <- MCTokStrs
    TokObjs <- MCTokObjs
    Elems <- MCElems
    Procs = {p1}
    TTLs <- MCTTLs
    Lookahead = 1
    MaxAccess = 1
    MaxTime = 2
    CallbackSet = TRUE
    Nil = Nil
SYMMETRY MCSymmetry
SPECIFICATION Spec
INVARIANT TypeOK
INVARIANT RevokedNeverVerifies
INVARIANT CacheIndexConsistent
PROPERTY ImplementsExpiringMap
VIEW GarbageFreeView
