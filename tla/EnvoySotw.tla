------------------------------- MODULE EnvoySotw -------------------------------
(***************************************************************************)
(* The Envoy at the far end of a state-of-the-world ADS stream.  Envoy is  *)
(* not in the repository; it is modelled as the control plane sees it.  It *)
(* asks for the root types with an empty nonce, then for the types that    *)
(* the resources it runs refer to; it answers every response with an ACK   *)
(* or a NACK carrying that response's nonce; it keeps what it runs when it *)
(* rejects an update and when it loses its stream.                         *)
(***************************************************************************)
EXTENDS SotwStream

CONSTANTS
    Envoys,
    Owner,       \* Owner[s]: the Envoy that may open stream s
    Roots,       \* types asked for by the bootstrap file
    References   \* References[t]: types that resources of type t point to

ASSUME EnvoyAssumption ==
    /\ Owner \in [Streams -> Envoys]
    /\ Roots \subseteq Types
    /\ References \in [Types -> SUBSET Types]

VARIABLES
    requested,   \* requested[s]: types asked for on stream s
    running      \* running[e][t]: the snapshot whose resources e runs

envoyVars == <<requested, running>>

EnvoyTypeOK(Snapshots) ==
    /\ requested \in [Streams -> SUBSET Types]
    /\ running \in [Envoys -> [Types -> Snapshots \cup {NoSnap}]]

EnvoyInit ==
    /\ requested = [s \in Streams |-> {}]
    /\ running = [e \in Envoys |-> [t \in Types |-> NoSnap]]

-----------------------------------------------------------------------------
Connected(e) == \E s \in Streams : Owner[s] = e /\ up[s]

\* An Envoy has one ADS stream at a time and opens a new one when it is cut.
Connect(s) ==
    /\ ~Connected(Owner[s])
    /\ Open(s)
    /\ UNCHANGED envoyVars

\* What was asked for goes with the stream.
Disconnect(s) ==
    /\ Cut(s)
    /\ requested' = [requested EXCEPT ![s] = {}]
    /\ UNCHANGED running

\* Types Envoy wants: the roots, and what its running resources point to.
Wanted(e) ==
    Roots \cup UNION {References[t] : t \in {u \in Types : running[e][u] # NoSnap}}

\* The first request for a type on a stream has an empty nonce.
Subscribe(s, t) ==
    /\ up[s]
    /\ t \in Wanted(Owner[s]) \ requested[s]
    /\ requested' = [requested EXCEPT ![s] = @ \cup {t}]
    /\ inbound' = [inbound EXCEPT ![s] = Append(@, Subscription(t))]
    /\ UNCHANGED <<watchVars, up, outbound, taskVars, running>>

\* Read the next response and reply to it.
Reply(s, request) ==
    /\ up[s]
    /\ outbound[s] # <<>>
    /\ outbound' = [outbound EXCEPT ![s] = Tail(@)]
    /\ inbound' = [inbound EXCEPT ![s] = Append(@, request)]
    /\ UNCHANGED <<watchVars, up, taskVars, requested>>

Accept(s) ==
    LET resp == Head(outbound[s])
    IN  /\ Reply(s, Ack(resp.type, NonceOf(resp)))
        /\ running' = [running EXCEPT ![Owner[s]][resp.type] = resp.snap]

Reject(s) ==
    LET resp == Head(outbound[s])
    IN  /\ Reply(s, Nack(resp.type, NonceOf(resp)))
        /\ UNCHANGED running

-----------------------------------------------------------------------------
(* What the chapters' control planes owe an Envoy that accepts what they   *)
(* advertise in the end.                                                   *)

\* Once a stream is quiet its Envoy runs the advertised snapshot, in every
\* type it asked for: rejected updates, rollbacks by other streams and the
\* version check of push_if_new leave no type behind, and no quiet stream
\* sits on a snapshot it rejected.
QuietStreamRunsAdvertised ==
    \A s \in Streams : Quiet(s) =>
        \A t \in requested[s] \cap Served : running[Owner[s]][t] = advertised

===============================================================================
