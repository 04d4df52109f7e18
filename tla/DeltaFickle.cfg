CONSTANTS
    s1 = s1
    s2 = s2
    e1 = e1
    listener = listener
    route = route
    stale = stale
    endpoints = endpoints
    ip1 = ip1
    ip2 = ip2
    NoAddress = NoAddress
    a1 = a1
    a2 = a2
    NoSnap = NoSnap
    Star = Star
    Absent = Absent
    Covers <- Exact
    Streams = {s1}
    Owner <- OneStream
    Envoys = {e1}
    Types = {"LDS", "RDS"}
    Names = {listener, route, stale}
    Patterns = {route}
    Bootstrap <- ListenerWildcard
    References <- ListenerRoute
    NameOf <- ListenerAndRoute
    Leftover <- Stale
    Addresses = {ip1}
    Admins = {a1, a2}
    ChanCap = 1
    Refused = {3}
    MaxDrops = 1
    MaxVersion = 3
    MaxRestarts = 0
SPECIFICATION FairSpec
INVARIANTS
    OnlyAddressesGoStale
    SubscriptionAgrees
PROPERTIES
    NackStormEnds
    ClientsCatchUp
CHECK_DEADLOCK FALSE
