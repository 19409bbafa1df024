CONSTANTS
    Users <- MCUsers
    NonceStrs <- MCRaceStrs
    NonceObjs <- MCNonceObjs
    Elems <- MCElems
    Procs <- MCRaceProcs
    u1 = u1  o1 = o1  o2 = o2  e1 = e1
    n1 = n1  n2 = n2  n3 = n3  n4 = n4  n5 = n5  n6 = n6
    p1 = p1  p2 = p2
    maxNonceSize = 4
    maxNonceTTL = 2
    MaxTime = 2
    Nil = Nil
SPECIFICATION Spec
VIEW GarbageFreeView
INVARIANT NoReplayAccepted
