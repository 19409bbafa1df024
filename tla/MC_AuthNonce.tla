------------------------------ MODULE MC_AuthNonce ------------------------------
EXTENDS AuthNonce, TLC

CONSTANTS u1, n1, n2, n3, n4, n5, n6, o1, o2, e1, p1, p2

MCUsers == {u1}
MCNonceStrs == {n1, n2, n3, n4, n5, n6}
MCNonceObjs == {o1, o2}
MCElems == {e1}
MCProcs == {p1}
MCRaceProcs == {p1, p2}
MCRaceStrs == {n1, n2}

MCSymmetry == Permutations(MCNonceStrs) \cup Permutations(MCNonceObjs)
              \cup Permutations(MCProcs)
=============================================================================
