---------------------------- MODULE MC_NetService ----------------------------
EXTENDS NetService

CONSTANTS c1, c2

MCConns == {c1, c2}

====
