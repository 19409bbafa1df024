CONSTANTS
    i1 = i1  i2 = i2  h1 = h1  c1 = c1
    s1 = s1  s2 = s2  o1 = o1  o2 = o2
    Ids <- MCIds
    Hosts <- MCHosts
    HostOf <- MCHostOf
    Callers <- MCCallers
    Sess <- MCSess
    StateObjs <- MCStateObjs
    NoHost = NoHost
    None = None
    BufCap = 1
    MaxTick = 30
    RemoteIsHost = TRUE
SPECIFICATION Spec
VIEW GarbageFreeView
CHECK_DEADLOCK FALSE
PROPERTY PacingRespected
