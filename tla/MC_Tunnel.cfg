CONSTANTS
    Fronts <- MCFronts
    f1 = f1  f2 = f2
    LinkCap = 2
    Nil = Nil
SPECIFICATION Spec
INVARIANT TypeOK NoMisdelivery
PROPERTY ClientsFinish BackendWindsDown
