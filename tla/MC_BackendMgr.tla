---------------------------- MODULE MC_BackendMgr ----------------------------
EXTENDS BackendMgr, TLC

CONSTANTS i1, i2, h1, c1, s1, s2, o1, o2

MCIds == {i1, i2}
MCHosts == {h1}
\* i2 has no host: connectSIDAgain gives up at once.
MCHostOf == (i1 :> h1) @@ (i2 :> NoHost)
\* One caller: its own requests already fill the channel, and a second
\* one only adds interleavings of equal requests.
MCCallers == {c1}
MCSess == {s1, s2}
MCStateObjs == {o1, o2}
=============================================================================
