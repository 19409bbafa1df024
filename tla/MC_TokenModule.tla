--------------------------- MODULE MC_TokenModule ---------------------------
(* Model-checking instance of TokenModule: constants for the cfg files.   *)
EXTENDS TokenModule, TLC

CONSTANTS u1, u2, s1, s2, o1, o2, o3, e1, e2, p1, p2

MCUsers == {u1, u2}
MCTokStrs == {s1, s2}
MCTokObjs == {o1, o2, o3}
MCElems == {e1, e2}
MCProcs == {p1, p2}

\* ttl arguments: never (-1), at once (0, SetTokenExpired), one second
MCTTLs == {-1, 0, 1}

\* Users, token strings, objects, elements and goroutines are interchangeable
\* model values in every safety property.
MCSymmetry == Permutations(MCUsers) \cup Permutations(MCTokStrs)
              \cup Permutations(MCTokObjs) \cup Permutations(MCElems)
              \cup Permutations(MCProcs)
=============================================================================
