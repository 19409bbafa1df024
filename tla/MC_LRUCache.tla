----------------------------- MODULE MC_LRUCache -----------------------------
EXTENDS LRUCache, TLC

CONSTANTS k1, k2, k3, v1, v2, e1, e2, e3, e4, p1

MCKeys == {k1, k2, k3}
MCValues == {v1, v2}
MCElems == {e1, e2, e3, e4}
MCProcs == {p1}

MCSymmetry == Permutations(MCKeys) \cup Permutations(MCValues)
              \cup Permutations(MCElems)
=============================================================================
