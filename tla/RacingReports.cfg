CONSTANTS
    s1 = s1
    e1 = e1
    h1 = h1
    h2 = h2
    NoSnap = NoSnap
    NaN = NaN
    None = None
    Envoys = {e1}
    Streams = {s1}
    Owner <- OneStream
    Types = {"EDS"}
    Served = {"EDS"}
    Roots = {"EDS"}
    References <- EndpointsOnly
    ChanCap = 1
    Hosts = {h1, h2}
    Loads <- BusyAndIdle
    MaxRestarts = 0
    MaxVersion = 3
SPECIFICATION FairSpec
PROPERTIES
    WeightsFollowLoad
CHECK_DEADLOCK FALSE
