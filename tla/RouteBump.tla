------------------------------- MODULE RouteBump -------------------------------
(***************************************************************************)
(* Chapter 4: POST /bump gives the RouteConfiguration a new version, while *)
(* all other resources stay at "v1"; the snapshot goes to clients over     *)
(* delta streams.  The control plane keeps nothing on disk: after a        *)
(* restart it begins at route version 1 again, with the address that the   *)
(* upstream then has.                                                      *)
(***************************************************************************)
EXTENDS EnvoyDelta

CONSTANTS
    NoAddress,    \* the body of a resource that holds no address
    Admins,       \* admin requests that may be in progress at once
    NameOf,       \* NameOf[t]: the name of the one resource of type t
    Addresses,    \* addresses the upstream may be resolved to
    Leftover,     \* what a client may hold from before, addresses left to Restart
    MaxVersion,   \* bound: no bump begins once the counter is here
    MaxRestarts   \* bound on the restarts of the control plane

ASSUME BumpAssumption ==
    /\ NameOf \in [Types -> Names]
    /\ Leftover \subseteq Holding({NoAddress})
    /\ \A h \in Leftover, n \in Names : "EDS" \in Types => h["EDS"][n] = Absent
    /\ MaxVersion \in Nat \ {0}
    /\ MaxRestarts \in Nat

VARIABLES
    upstream_ip,    \* the address resolved at start-up
    route_version,  \* the version counter
    made,           \* made[a]: the snapshot admin request a is about to send
    restarts        \* how often the control plane has been restarted

controlVars == <<upstream_ip, route_version, made, restarts>>
vars == <<streamVars, envoyVars, controlVars>>

\* Snapshot::build: one resource per type, all at version 1 but the route.  Only
\* the endpoints hold the address.
Build(rv, ip) ==
    [t \in Types |-> [n \in Names |->
        IF n # NameOf[t] THEN Absent
        ELSE [version |-> IF t = "RDS" THEN rv ELSE 1,
              body    |-> IF t = "EDS" THEN ip ELSE NoAddress]]]

Bodies == Addresses \cup {NoAddress}

TypeOK ==
    /\ StreamTypeOK(Bodies)
    /\ EnvoyTypeOK(Bodies)
    /\ upstream_ip \in Addresses
    /\ route_version \in Nat
    /\ made \in [Admins -> Holding(Bodies) \cup {NoSnap}]
    /\ restarts \in Nat

Init ==
    /\ upstream_ip \in Addresses
    /\ StreamInit(Build(1, upstream_ip))
    /\ EnvoyInit(Leftover)
    /\ route_version = 1
    /\ made = [a \in Admins |-> NoSnap]
    /\ restarts = 0

-----------------------------------------------------------------------------
\* bump draws a version and builds a snapshot ...
Bump(a) ==
    /\ made[a] = NoSnap
    /\ route_version < MaxVersion
    /\ route_version' = route_version + 1
    /\ made' = [made EXCEPT ![a] = Build(route_version', upstream_ip)]
    /\ UNCHANGED <<streamVars, envoyVars, upstream_ip, restarts>>

\* ... and advertises it.
Publish(a) ==
    /\ made[a] # NoSnap
    /\ WatchSend(made[a])
    /\ made' = [made EXCEPT ![a] = NoSnap]
    /\ UNCHANGED <<wireVars, taskVars, envoyVars, upstream_ip, route_version, restarts>>

\* The control plane goes down and comes up: every stream and every admin
\* request is lost, the clients keep what they have.
Restart ==
    /\ restarts < MaxRestarts
    /\ restarts' = restarts + 1
    /\ upstream_ip' \in Addresses
    /\ route_version' = 1
    /\ made' = [a \in Admins |-> NoSnap]
    /\ advertised' = Build(1, upstream_ip')
    /\ changes' = 1
    /\ up' = [s \in Streams |-> FALSE]
    /\ CloseAll({s \in Streams : pc[s] # "unused"})
    /\ ForgetAll(Streams)

-----------------------------------------------------------------------------
Serve(s)   == Task(s) /\ UNCHANGED <<envoyVars, controlVars>>
Envoy(s)   == Client(s) /\ UNCHANGED controlVars
Link(s)    == Connect(s) /\ UNCHANGED controlVars
Drop(s)    == Disconnect(s) /\ UNCHANGED controlVars
Discover(e) == (\E t \in Types : TakeInterest(e, t)) /\ UNCHANGED controlVars
LoseInterest(s) ==
    /\ \E t \in Types, p \in Patterns \cup {Star} : Unsubscribe(s, t, p)
    /\ UNCHANGED controlVars

Next ==
    \/ \E a \in Admins : Bump(a) \/ Publish(a)
    \/ Restart
    \/ \E s \in Streams : Serve(s) \/ Envoy(s) \/ Link(s) \/ Drop(s) \/ LoseInterest(s)
    \/ \E e \in Envoys : Discover(e)

\* Tasks, begun requests and clients proceed; nothing has to be bumped, given
\* up, restarted or cut.
Fairness ==
    /\ \A s \in Streams : WF_vars(Serve(s)) /\ WF_vars(Envoy(s)) /\ WF_vars(Link(s))
    /\ \A e \in Envoys : WF_vars(Discover(e))
    /\ \A a \in Admins : WF_vars(Publish(a))

Spec == Init /\ [][Next]_vars
FairSpec == Spec /\ Fairness

-----------------------------------------------------------------------------
\* Versions under which resources of type t are offered.
Offered(t) == IF t = "RDS" THEN 1 .. MaxVersion ELSE {1}

\* README, chapter 4: a reconnecting client "tells the server which (name,
\* version) pairs it already holds; the server skips anything still current".
\* It goes by the version, which does not say where the upstream is.  So after
\* a restart, but only then, a quiet client may be left with the address that
\* its endpoints had.  With anything else it is up to date, also when what it
\* held is at a higher version than what the restarted control plane offers;
\* but for what it gave up and asked for again, and for a removal in a response
\* that it refused for something else in it.
OnlyAddressesGoStale ==
    \A s \in Streams : Quiet(s) =>
        \A t \in Types :
            \A n \in Meant(requested[s][t] \cap wants[Owner[s]][t]) :
                \/ Current(Owner[s], t, n)
                \/ drops > 0 /\ has[Owner[s]][t][n] = Absent
                \/ Offered(t) \cap Refused # {} /\ advertised[t][n] = Absent
                \/ restarts > 0 /\ OldAddress(Owner[s], t, n)

===============================================================================
