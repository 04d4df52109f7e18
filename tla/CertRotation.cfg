CONSTANTS
    s1 = s1
    s2 = s2
    e1 = e1
    a1 = a1
    a2 = a2
    NoSnap = NoSnap
    Streams = {s1, s2}
    Envoys = {e1}
    Owner <- Reconnects
    Types = {"SDS"}
    Served = {"SDS"}
    Roots = {"SDS"}
    References <- NoLinks
    ChanCap = 1
    Admins = {a1, a2}
    MaxVersion = 3
    MaxMinted = 4
    Refused <- Second
SPECIFICATION FairFeedSpec
INVARIANTS
    TypeOK
    RotationLands
    QuietStreamRunsNewest
PROPERTIES
    FeedSafety
    FeedDelivers
    NackStormEnds
CHECK_DEADLOCK FALSE
