CONSTANTS
    s1 = s1
    s2 = s2
    e1 = e1
    listener = listener
    route = route
    stale = stale
    endpoints = endpoints
    ip1 = ip1
    ip2 = ip2
    NoAddress = NoAddress
    a1 = a1
    a2 = a2
    NoSnap = NoSnap
    Star = Star
    Absent = Absent
    Covers <- Exact
    Streams = {s1, s2}
    Owner <- Reconnects
    Envoys = {e1}
    Types = {"RDS", "EDS"}
    Names = {route, endpoints}
    Patterns = {route, endpoints}
    Bootstrap <- RouteAndEndpoints
    References <- NoFollowUp
    NameOf <- RouteAndEndpointsOnly
    Leftover <- Clean
    Addresses = {ip1, ip2}
    Admins = {a1}
    ChanCap = 1
    Refused = {}
    MaxDrops = 0
    MaxVersion = 2
    MaxRestarts = 1
SPECIFICATION Spec
INVARIANTS
    TypeOK
    OnlyAddressesGoStale
    NothingResent
CHECK_DEADLOCK FALSE
