CONSTANTS
    Types = {"LDS", "RDS", "SDS"}
    Served = {"LDS", "RDS"}
    Roots = {"LDS", "SDS"}
    References <- ListenerRoute
    ChanCap = 1
    MaxRefusals = 2
    MaxResubscribes = 2
    MaxStreams = 2
    MaxAttempts = 10
SPECIFICATION FairSpec
INVARIANTS
    TypeOK
    OneAnswerInFlight
PROPERTIES
    ClientIsServed
CHECK_DEADLOCK FALSE
