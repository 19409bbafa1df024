CONSTANTS
    c1 = c1  c2 = c2
    Conns <- MCConns
    MaxConn = 1
    ResultCap = 1
SPECIFICATION Spec
CHECK_DEADLOCK FALSE
INVARIANT DrainedOnExit
