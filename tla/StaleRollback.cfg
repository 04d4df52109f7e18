CONSTANTS
    s1 = s1
    s2 = s2
    e1 = e1
    e2 = e2
    a1 = a1
    a2 = a2
    NoSnap = NoSnap
    Streams = {s1, s2}
    Envoys = {e1, e2}
    Owner <- TwoEnvoys
    Types = {"LDS"}
    Served = {"LDS"}
    Roots = {"LDS"}
    References <- ListenerOnly
    ChanCap = 1
    Admins = {a1}
    MaxVersion = 3
SPECIFICATION Spec
INVARIANT LastGoodIsAdvertised
CHECK_DEADLOCK FALSE
