CONSTANTS
    s1 = s1
    e1 = e1
    h1 = h1
    h2 = h2
    NoSnap = NoSnap
    NaN = NaN
    None = None
    Envoys = {e1}
    Streams = {s1}
    Owner <- OneStream
    Types = {"EDS"}
    Served = {"EDS"}
    Roots = {"EDS"}
    References <- EndpointsOnly
    ChanCap = 1
    Hosts = {h1, h2}
    Loads <- IdleOrOdd
    MaxRestarts = 1
    MaxVersion = 4
SPECIFICATION Spec
INVARIANTS
    TypeOK
    LastPublisherFits
CHECK_DEADLOCK FALSE
