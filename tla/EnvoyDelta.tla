------------------------------ MODULE EnvoyDelta -------------------------------
(***************************************************************************)
(* The client at the far end of a delta ADS stream, as the control plane   *)
(* sees it; Envoy is not in the repository.  It subscribes to what its     *)
(* bootstrap file says and then to what the resources it holds refer to.   *)
(* With its first request for a type on a stream it reports the versions   *)
(* it already holds.  It answers every response with an ACK or a NACK, and *)
(* it may lose interest in a resource and gain it again.                   *)
(***************************************************************************)
EXTENDS DeltaStream

CONSTANTS
    Envoys,
    Owner,       \* Owner[s]: the client that may open stream s
    Bootstrap,   \* Bootstrap[t]: patterns wanted from the start
    References,  \* References[t][u]: patterns of u that resources of t refer to
    Refused,     \* versions that the client does not accept
    MaxDrops     \* bound on how often a client loses interest

ASSUME EnvoyAssumption ==
    /\ Owner \in [Streams -> Envoys]
    /\ Bootstrap \in [Types -> SUBSET (Patterns \cup {Star})]
    /\ References \in [Types -> [Types -> SUBSET Patterns]]
    /\ MaxDrops \in Nat

VARIABLES
    wants,      \* wants[e][t]: the patterns e is interested in
    requested,  \* requested[s][t]: the patterns e has subscribed to on s
    asked,      \* asked[s]: the types e has sent a request for on s
    has,        \* has[e][t][n]: the resource e runs
    drops       \* how often a client has lost interest

envoyVars == <<wants, requested, asked, has, drops>>

EnvoyTypeOK(Bodies) ==
    /\ wants \in [Envoys -> [Types -> SUBSET (Patterns \cup {Star})]]
    /\ requested \in [Streams -> [Types -> SUBSET (Patterns \cup {Star})]]
    /\ asked \in [Streams -> SUBSET Types]
    /\ has \in [Envoys -> Holding(Bodies)]
    /\ drops \in Nat

\* A client may hold resources of an earlier control plane.
EnvoyInit(leftover) ==
    /\ wants = [e \in Envoys |-> Bootstrap]
    /\ requested = [s \in Streams |-> [t \in Types |-> {}]]
    /\ asked = [s \in Streams |-> {}]
    /\ has \in [Envoys -> leftover]
    /\ drops = 0

-----------------------------------------------------------------------------
Connected(e) == \E s \in Streams : Owner[s] = e /\ up[s]

Connect(s) ==
    /\ ~Connected(Owner[s])
    /\ Open(s)
    /\ UNCHANGED envoyVars

\* The streams in S are lost, and with them what was asked for on them.
ForgetAll(S) ==
    /\ requested' = [s \in Streams |-> IF s \in S THEN [t \in Types |-> {}] ELSE requested[s]]
    /\ asked' = [s \in Streams |-> IF s \in S THEN {} ELSE asked[s]]
    /\ UNCHANGED <<wants, has, drops>>

Disconnect(s) == Cut(s) /\ ForgetAll({s})

\* Names that a set of patterns stands for.
Meant(patterns) == IF Star \in patterns THEN Names ELSE UNION {Covers[p] : p \in patterns}

VersionsOf(resources) ==
    [n \in Names |-> IF resources[n] = Absent THEN 0 ELSE resources[n].version]

\* Subscribe to what is wanted and not asked for yet.  Envoy asks for all
\* resources of a type with an empty list.
Subscribe(s, t) ==
    LET e     == Owner[s]
        new   == wants[e][t] \ requested[s][t]
        first == t \notin asked[s]
    IN  /\ up[s]
        /\ new # {}
        /\ requested' = [requested EXCEPT ![s][t] = wants[e][t]]
        /\ asked' = [asked EXCEPT ![s] = @ \cup {t}]
        /\ inbound' = [inbound EXCEPT ![s] = Append(@,
               Subscription(t, IF first THEN VersionsOf(has[e][t]) ELSE NothingInitial,
                            IF first /\ new = {Star} THEN {} ELSE new))]
        /\ UNCHANGED <<watchVars, up, outbound, taskVars, wants, has, drops>>

\* The client loses interest: it unsubscribes and gives the resources up ...
Unsubscribe(s, t, p) ==
    LET e == Owner[s]
        kept == Meant(wants[e][t] \ {p})
    IN  /\ up[s]
        /\ drops < MaxDrops
        /\ p \in requested[s][t] \cap wants[e][t]
        /\ drops' = drops + 1
        /\ wants' = [wants EXCEPT ![e][t] = @ \ {p}]
        /\ requested' = [requested EXCEPT ![s][t] = @ \ {p}]
        /\ has' = [has EXCEPT ![e][t] = [n \in Names |-> IF n \in kept THEN @[n] ELSE Absent]]
        /\ inbound' = [inbound EXCEPT ![s] = Append(@, Unsubscription(t, {p}))]
        /\ UNCHANGED <<watchVars, up, outbound, taskVars, asked>>

Due(e, t) ==
    Bootstrap[t] \cup
    UNION {References[u][t] : u \in {v \in Types : \E n \in Names : has[e][v][n] # Absent}}

\* ... and takes one in what it is to have, for the first time or again.
TakeInterest(e, t) ==
    /\ Due(e, t) \ wants[e][t] # {}
    /\ wants' = [wants EXCEPT ![e][t] = @ \cup Due(e, t)]
    /\ UNCHANGED <<streamVars, requested, asked, has, drops>>

\* Read the next response and reply to it.
Reply(s, request) ==
    /\ up[s]
    /\ outbound[s] # <<>>
    /\ outbound' = [outbound EXCEPT ![s] = Tail(@)]
    /\ inbound' = [inbound EXCEPT ![s] = Append(@, request)]
    /\ UNCHANGED <<watchVars, up, taskVars, wants, requested, asked, drops>>

Refuses(resp) ==
    \E n \in Names : resp.resources[n] # Absent /\ resp.resources[n].version \in Refused

\* What arrives and is no longer wanted is not kept.
Accept(s) ==
    LET e    == Owner[s]
        resp == Head(outbound[s])
        t    == resp.type
        Is(n) == IF n \in resp.removed THEN Absent
                 ELSE IF resp.resources[n] = Absent THEN has[e][t][n]
                 ELSE IF n \in Meant(wants[e][t]) THEN resp.resources[n] ELSE Absent
    IN  /\ Reply(s, Ack(t))
        /\ ~Refuses(resp)
        /\ has' = [has EXCEPT ![e][t] = [n \in Names |-> Is(n)]]

Reject(s) ==
    /\ Reply(s, Nack(Head(outbound[s]).type))
    /\ Refuses(Head(outbound[s]))
    /\ UNCHANGED has

Client(s) == (\E t \in Types : Subscribe(s, t)) \/ Accept(s) \/ Reject(s)

-----------------------------------------------------------------------------
(* What the control plane owes a client. *)

\* e holds what the snapshot has of name n, be it nothing, unless it refuses it.
Current(e, t, n) ==
    \/ has[e][t][n] = advertised[t][n]
    \/ advertised[t][n] # Absent /\ advertised[t][n].version \in Refused

\* Resources are compared by version, which says nothing of the address in the
\* endpoints.
OldAddress(e, t, n) ==
    /\ t = "EDS"
    /\ has[e][t][n] # Absent /\ advertised[t][n] # Absent
    /\ has[e][t][n].version = advertised[t][n].version

\* A quiet stream's client holds every resource it asked for and wants as the
\* advertised snapshot has it, and none that the snapshot lacks.
ServedInFull(s) ==
    \A t \in Types :
        \A n \in Meant(requested[s][t] \cap wants[Owner[s]][t]) : Current(Owner[s], t, n)

\* Once a stream is quiet the server's idea of the subscription is the client's:
\* it stands for the same resources, whatever was subscribed to, given up and
\* acknowledged on the way.  An empty request after the last name was given up,
\* such as an ACK, is not a wildcard.
SubscriptionAgrees ==
    \A s \in Streams : Quiet(s) =>
        \A t \in Types, n \in Names :
            Matches(subs[s][t], n) <=> n \in Meant(requested[s][t])

\* README, chapter 4: a client "tells the server which (name, version) pairs it
\* already holds; the server skips anything still current", and send_delta
\* "emits only the difference".  Here: no response that reaches a client brings
\* it a resource at the version it holds, over one stream or several.
NothingResent ==
    \A s \in Streams : up[s] /\ outbound[s] # <<>> =>
        LET resp == Head(outbound[s])
            mine == has[Owner[s]][resp.type]
        IN  \A n \in Names :
                resp.resources[n] # Absent /\ mine[n] # Absent =>
                    resp.resources[n].version # mine[n].version

\* send_delta, "removals for subscribed names that have disappeared": a client
\* reports all that it holds, also what it has no subscription for any more, and
\* may share a collection's prefix with it.  No response brings a client that has
\* given nothing up anything it does not want, or takes that away.
NothingUnwanted ==
    \A s \in Streams : up[s] /\ drops = 0 =>
        \A resp \in Range(outbound[s]), n \in Names :
            resp.resources[n] # Absent \/ n \in resp.removed =>
                n \in Meant(wants[Owner[s]][resp.type])

\* A NACK does not make the server send the refused version again.
NackStormEnds ==
    <>[](\A s \in Streams : \A req \in Range(inbound[s]) : ~req.error)

\* Once nothing changes any more every connected client gets all it wants, as
\* long as it has not given up any of it; for endpoints that is their version.
ClientsCatchUp ==
    <>[](\A s \in Streams : up[s] /\ drops = 0 =>
            \A t \in Types :
                \A n \in Meant(wants[Owner[s]][t]) :
                    Current(Owner[s], t, n) \/ OldAddress(Owner[s], t, n))

\* README, chapter 4: the server "records what each client already has" and sends
\* the rest.  Here: giving a resource up and asking for it again is no exception.
QuietClientIsServed == \A s \in Streams : Quiet(s) => ServedInFull(s)

===============================================================================
