CONSTANTS
    pprof = pprof  mysql = mysql  redis = redis  user = user  stray = stray
    Mods <- MCMods
    Names <- MCNames
    Kind <- MCKind
    CfgLists <- MCCfgLists
SPECIFICATION Spec

PROPERTY NoTickerAfterShut
CHECK_DEADLOCK FALSE
