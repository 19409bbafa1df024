------------------------------- MODULE MC_Tunnel -------------------------------
EXTENDS Tunnel, TLC

CONSTANTS f1, f2

MCFronts == {f1, f2}
=============================================================================
