------------------------------ MODULE XdstpStream ------------------------------
(***************************************************************************)
(* Chapter 5: delta streams over one fixed snapshot whose resources have   *)
(* xdstp:// names of two authorities.  A subscription to a name that ends  *)
(* in "*" stands for all names with the same beginning.                    *)
(*                                                                         *)
(* A name is a sequence of pieces, "/" among them, so that one name can be *)
(* the beginning of another.                                               *)
(***************************************************************************)
EXTENDS EnvoyDelta

LOCAL INSTANCE SequencesExt

CONSTANTS
    Resources,   \* Resources[t]: names of the resources of type t
    NoAddress,   \* the body of a resource that holds no address
    Addresses,   \* addresses the upstream may be resolved to
    UpstreamIp,  \* the one it is resolved to at start-up
    Leftover     \* what a client may hold from an earlier control plane

\* matches and names_with_prefix: a pattern [text, star] is a name and whether
\* a "*" followed it.
Expand ==
    [p \in Patterns |-> {n \in Names : IF p.star THEN IsPrefix(p.text, n) ELSE n = p.text}]

Bodies == Addresses \cup {NoAddress}

\* What clients still hold may be at other versions, and its endpoints at other
\* addresses.
ASSUME XdstpAssumption ==
    /\ Covers = Expand
    /\ Resources \in [Types -> SUBSET Names]
    /\ UpstreamIp \in Addresses
    /\ Leftover \subseteq Holding(Bodies)
    /\ \A h \in Leftover, t \in Types \ {"EDS"}, n \in Names :
          h[t][n] # Absent => h[t][n].body = NoAddress

vars == <<streamVars, envoyVars>>

\* Only the endpoints hold the address.
BodyOf(t) == IF t = "EDS" THEN UpstreamIp ELSE NoAddress

\* Resources without a version, which is what the streams take for not sent.
Build_Unversioned ==
    [t \in Types |-> [n \in Names |->
        IF n \in Resources[t] THEN [version |-> 0, body |-> BodyOf(t)] ELSE Absent]]

\* Snapshot::build: everything at version 1, wherever the upstream is.
Build ==
    [t \in Types |-> [n \in Names |->
        IF n \in Resources[t] THEN [version |-> 1, body |-> BodyOf(t)] ELSE Absent]]

TypeOK == StreamTypeOK(Bodies) /\ EnvoyTypeOK(Bodies)

Init == StreamInit(Build) /\ EnvoyInit(Leftover)

Serve(s) == Task(s) /\ UNCHANGED envoyVars
\* The snapshot is fixed: no step of a client comes with another one.
Envoy(s) == Client(s) /\ UNCHANGED watchVars
Discover(e) == \E t \in Types : TakeInterest(e, t)
LoseInterest(s) == \E t \in Types, p \in Patterns \cup {Star} : Unsubscribe(s, t, p)

Next ==
    \/ \E s \in Streams :
          Serve(s) \/ Envoy(s) \/ Connect(s) \/ Disconnect(s) \/ LoseInterest(s)
    \/ \E e \in Envoys : Discover(e)

Fairness ==
    /\ \A s \in Streams : WF_vars(Serve(s)) /\ WF_vars(Envoy(s)) /\ WF_vars(Connect(s))
    /\ \A e \in Envoys : WF_vars(Discover(e))

Spec == Init /\ [][Next]_vars
FairSpec == Spec /\ Fairness

-----------------------------------------------------------------------------
\* main.rs, delta_aggregated_resources: a client that is served over a collection,
\* a name or both, over its first stream or a later one, ends up with each
\* resource that it asked for as the snapshot has it and without those that are
\* gone, whatever it held before; but for what it gave up and asked for again.
\* The one thing it may be left with from before are endpoints of the version on
\* offer: the version is "v1" wherever the upstream was when they were built.
OnlyAddressesGoStale ==
    \A s \in Streams : Quiet(s) =>
        \A t \in Types :
            \A n \in Meant(requested[s][t] \cap wants[Owner[s]][t]) :
                \/ Current(Owner[s], t, n)
                \/ drops > 0 /\ has[Owner[s]][t][n] = Absent
                \/ /\ OldAddress(Owner[s], t, n)
                   /\ \E h \in Leftover : has[Owner[s]][t][n] = h[t][n]

===============================================================================
