------------------------------ MODULE MCRouteBump ------------------------------
(***************************************************************************)
(* Instances of RouteBump for TLC.                                         *)
(***************************************************************************)
EXTENDS RouteBump, TLC

CONSTANTS s1, s2, e1, listener, route, stale, endpoints, ip1, ip2, a1, a2

OneStream  == s1 :> e1
Reconnects == s1 :> e1 @@ s2 :> e1

\* Chapter 4 matches names as they are.
Exact == [p \in Patterns |-> {p}]

\* Envoy asks for all Listeners, and for the route that its Listener names.
ListenerWildcard == [t \in Types |-> IF t = "LDS" THEN {Star} ELSE {}]
ListenerRoute ==
    [t \in Types |-> [u \in Types |-> IF t = "LDS" /\ u = "RDS" THEN {route} ELSE {}]]

ListenerAndRoute == "LDS" :> listener @@ "RDS" :> route

\* A client that watches one route, as a client without Listeners would.
RouteOnly  == [t \in Types |-> {route}]
NoFollowUp == [t \in Types |-> [u \in Types |-> {}]]
OneRoute   == "RDS" :> route

\* One that watches endpoints as well.
RouteAndEndpoints == "RDS" :> {route} @@ "EDS" :> {endpoints}
RouteAndEndpointsOnly == "RDS" :> route @@ "EDS" :> endpoints

NothingHeld == [t \in Types |-> [n \in Names |-> Absent]]
Clean == {NothingHeld}

\* A Listener that this control plane does not have.
Stale ==
    {NothingHeld,
     [t \in Types |-> [n \in Names |->
        IF t = "LDS" /\ n = stale THEN [version |-> 1, body |-> NoAddress] ELSE Absent]]}
===============================================================================
