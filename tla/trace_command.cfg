SPECIFICATION TraceFairSpec
CONSTANTS
    l = l
    t = t
    u = u
    v = v
    none = none
    Ids = {l, t, u, v}
    Launcher = l
    NoProcess = none
INVARIANTS TraceTypeOK Followed NoStranger CleanedUp
PROPERTY CallEnds
CHECK_DEADLOCK FALSE
