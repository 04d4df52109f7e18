----------------------------- MODULE MCXdstpStream -----------------------------
(***************************************************************************)
(* Instances of XdstpStream for TLC.                                       *)
(***************************************************************************)
EXTENDS XdstpStream, TLC

CONSTANTS s1, s2, e1, ip1, ip2

Reconnects == s1 :> e1 @@ s2 :> e1

EdgeUp    == <<"edge", "/", "up">>
EdgeOld   == <<"edge", "/", "old">>
HardwayUp == <<"hardway", "/", "up">>
AllNames  == {EdgeUp, EdgeOld, HardwayUp}

Exactly(n)  == [text |-> n, star |-> FALSE]
Edge        == [text |-> <<"edge", "/">>, star |-> TRUE]

CollectionAndMember == {Edge, Exactly(EdgeUp)}

\* The one cluster there is, and its endpoints.
OneEach == [t \in Types |-> {EdgeUp}]

\* Envoy asks for the collection of clusters and, by name, for a member of it,
\* and for the endpoints that the cluster refers to.
WantCollection == [t \in Types |-> IF t = "CDS" THEN Patterns ELSE {}]
ClusterEndpoints ==
    [t \in Types |-> [u \in Types |->
        IF t = "CDS" /\ u = "EDS" THEN {Exactly(EdgeUp)} ELSE {}]]

NothingHeld == [t \in Types |-> [n \in Names |-> Absent]]
AtOne(address) == [version |-> 1, body |-> address]

\* Nothing, or clusters of either authority that are no longer there, and
\* endpoints from when the upstream was elsewhere.
Stale ==
    {NothingHeld,
     [NothingHeld EXCEPT !["CDS"][EdgeOld] = AtOne(NoAddress),
                         !["CDS"][HardwayUp] = AtOne(NoAddress),
                         !["EDS"][EdgeUp] = AtOne(ip2)]}
===============================================================================
