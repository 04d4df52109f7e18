CONSTANTS
    s1 = s1
    e1 = e1
    h1 = h1
    h2 = h2
    NoSnap = NoSnap
    NaN = NaN
    None = None
    Envoys = {e1}
    Streams = {s1}
    Owner <- OneStream
    Types = {"EDS", "RTDS"}
    Served = {"EDS"}
    Roots = {"EDS", "RTDS"}
    References <- EndpointsOnly
    ChanCap = 1
    Hosts = {h1}
    Loads <- Drifting
    MaxRestarts = 2
    MaxVersion = 4
SPECIFICATION FairSpec
INVARIANTS
    QuietStreamRunsAdvertised
PROPERTIES
    WeightsFollowLoad
CHECK_DEADLOCK FALSE
