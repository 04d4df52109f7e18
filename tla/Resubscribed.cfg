CONSTANTS
    s1 = s1
    s2 = s2
    e1 = e1
    listener = listener
    route = route
    stale = stale
    endpoints = endpoints
    ip1 = ip1
    ip2 = ip2
    NoAddress = NoAddress
    a1 = a1
    a2 = a2
    NoSnap = NoSnap
    Star = Star
    Absent = Absent
    Covers <- Exact
    Streams = {s1}
    Owner <- OneStream
    Envoys = {e1}
    Types = {"RDS"}
    Names = {route}
    Patterns = {route}
    Bootstrap <- RouteOnly
    References <- NoFollowUp
    NameOf <- OneRoute
    Leftover <- Clean
    Addresses = {ip1}
    Admins = {a1}
    ChanCap = 1
    Refused = {}
    MaxDrops = 1
    MaxVersion = 2
    MaxRestarts = 0
SPECIFICATION Spec
INVARIANTS
    QuietClientIsServed
CHECK_DEADLOCK FALSE
