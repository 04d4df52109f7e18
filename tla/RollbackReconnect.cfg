CONSTANTS
    s1 = s1
    s2 = s2
    e1 = e1
    e2 = e2
    a1 = a1
    a2 = a2
    NoSnap = NoSnap
    Streams = {s1, s2}
    Envoys = {e1}
    Owner <- Reconnects
    Types = {"LDS", "RDS"}
    Served = {"LDS", "RDS"}
    Roots = {"LDS"}
    References <- ListenerRoute
    ChanCap = 1
    Admins = {a1}
    MaxVersion = 2
SPECIFICATION FairSpec
INVARIANTS
    TypeOK
    NoLostPush
PROPERTIES
    RollbackHappens
    Converges
    NackStormEnds
CHECK_DEADLOCK FALSE
