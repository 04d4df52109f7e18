CONSTANTS
    s1 = s1
    s2 = s2
    e1 = e1
    ip1 = ip1
    ip2 = ip2
    NoAddress = NoAddress
    Addresses = {ip1, ip2}
    UpstreamIp = ip1
    NoSnap = NoSnap
    Star = Star
    Absent = Absent
    Covers <- Expand
    Names <- AllNames
    Resources <- OneEach
    Envoys = {e1}
    ChanCap = 1
    Refused = {}
    Streams = {s1, s2}
    Owner <- Reconnects
    Types = {"CDS", "EDS"}
    Patterns <- CollectionAndMember
    Bootstrap <- WantCollection
    References <- ClusterEndpoints
    Leftover <- Stale
    MaxDrops = 1
SPECIFICATION FairSpec
INVARIANTS
    TypeOK
    OnlyAddressesGoStale
    NothingUnwanted
    SubscriptionAgrees
    NothingResent
PROPERTIES
    ClientsCatchUp
CHECK_DEADLOCK FALSE
