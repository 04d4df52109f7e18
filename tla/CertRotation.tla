----------------------------- MODULE CertRotation -----------------------------
(***************************************************************************)
(* Chapter 3: every POST /rotate mints a certificate and advertises a new  *)
(* snapshot that carries it as an SDS secret.  A NACK is logged; nothing   *)
(* is rolled back.  The control plane keeps nothing on disk: after a       *)
(* restart it begins at version 1 again, with a fresh certificate.         *)
(*                                                                         *)
(* A snapshot's body is the number of its certificate, in the order of     *)
(* minting; its other resources are the same in all snapshots.             *)
(***************************************************************************)
EXTENDS EnvoySotw

CONSTANTS
    Admins,       \* admin requests that may be in progress at once
    MaxVersion,   \* bound: no rotation begins once the counter is here
    MaxMinted,    \* bound on certificates, those of restarts included
    Refused       \* snapshots whose secret Envoy does not accept

Snapshot == [version : Nat, body : Nat]

ASSUME RotationAssumption ==
    /\ NoSnap \notin Snapshot
    /\ MaxVersion \in Nat \ {0}
    /\ MaxMinted \in Nat \ {0}

VARIABLES
    version,     \* the version counter
    minted,      \* how many certificates have been minted
    made         \* made[a]: the snapshot admin request a is about to send

controlVars == <<version, minted, made>>
vars == <<streamVars, envoyVars, controlVars>>

TypeOK ==
    /\ StreamTypeOK(Snapshot)
    /\ EnvoyTypeOK(Snapshot)
    /\ version \in Nat
    /\ minted \in Nat
    /\ made \in [Admins -> Snapshot \cup {NoSnap}]

\* Version v of a process, with certificate c.
Build(v, c) == [version |-> v, body |-> c]

Init ==
    /\ StreamInit(Build(1, 1))
    /\ EnvoyInit
    /\ version = 1
    /\ minted = 1
    /\ made = [a \in Admins |-> NoSnap]

-----------------------------------------------------------------------------
(* rotate: draw a version and mint a certificate, then advertise.          *)

Rotate(a) ==
    /\ made[a] = NoSnap
    /\ version < MaxVersion
    /\ minted < MaxMinted
    /\ version' = version + 1
    /\ minted' = minted + 1
    /\ made' = [made EXCEPT ![a] = Build(version', minted')]
    /\ UNCHANGED <<streamVars, envoyVars>>

\* self_signed fails: the version is used up and nothing is advertised.
RotateFails(a) ==
    /\ made[a] = NoSnap
    /\ version < MaxVersion
    /\ minted < MaxMinted
    /\ version' = version + 1
    /\ UNCHANGED <<streamVars, envoyVars, minted, made>>

Publish(a) ==
    /\ made[a] # NoSnap
    /\ WatchSend(made[a])
    /\ made' = [made EXCEPT ![a] = NoSnap]
    /\ UNCHANGED <<wireVars, taskVars, envoyVars, version, minted>>

\* The control plane goes down and comes up: every stream and every admin
\* request is lost, Envoy keeps what it runs.
Restart ==
    /\ minted < MaxMinted
    /\ version' = 1
    /\ minted' = minted + 1
    /\ made' = [a \in Admins |-> NoSnap]
    /\ Crash(Build(1, minted'))
    /\ requested' = [s \in Streams |-> {}]
    /\ UNCHANGED running

\* A NACK answered with the same snapshot again.
ReceiveNack_Resends(s) ==
    /\ Take(s)
    /\ Head(inbound[s]).error
    /\ Visit(s, {Head(inbound[s]).type}, advertised)
    /\ sent_version' = [sent_version EXCEPT ![s][Head(inbound[s]).type] = 0]
    /\ UNCHANGED <<watchVars, seen>>

\* Chapter 2's arm, with a last_good that no rotation replaces.
ReceiveNack_RollsBack(s) ==
    /\ Take(s)
    /\ Head(inbound[s]).error
    /\ WatchSend(Build(1, 1))
    /\ UNCHANGED <<pc, held, todo, sent_version, seen>>

\* A NACK is logged and nothing else.
ReceiveNack(s) ==
    /\ Take(s)
    /\ Head(inbound[s]).error
    /\ UNCHANGED <<watchVars, pc, held, todo, sent_version, seen>>

-----------------------------------------------------------------------------
Task(s) ==
    /\ \/ ReceiveSubscription(s)
       \/ ReceiveAck(s)
       \/ ReceiveNack(s)
       \/ WatchChanged(s)
       \/ Push(s)
       \/ StreamEnds(s)
    /\ UNCHANGED <<envoyVars, controlVars>>

Refuses(resp) == resp.type = "SDS" /\ resp.snap \in Refused

Envoy(s) ==
    /\ \/ \E t \in Types : Subscribe(s, t)
       \/ Accept(s) /\ ~Refuses(Head(outbound[s]))
       \/ Reject(s) /\ Refuses(Head(outbound[s]))
    /\ UNCHANGED controlVars

Link(s) == Connect(s) /\ UNCHANGED controlVars
Drop(s) == Disconnect(s) /\ UNCHANGED controlVars

Next ==
    \/ \E a \in Admins : Rotate(a) \/ RotateFails(a) \/ Publish(a)
    \/ Restart
    \/ \E s \in Streams : Task(s) \/ Envoy(s) \/ Link(s) \/ Drop(s)

\* As in chapter 2: tasks, begun requests and Envoy proceed; rotations, restarts
\* and lost connections need not happen.
Fairness ==
    /\ \A s \in Streams : WF_vars(Task(s)) /\ WF_vars(Envoy(s)) /\ WF_vars(Link(s))
    /\ \A a \in Admins : WF_vars(Publish(a))

Spec == Init /\ [][Next]_vars
FairSpec == Spec /\ Fairness

-----------------------------------------------------------------------------
(* Properties. *)

\* Once a stream is quiet its Envoy runs what is advertised, in every type it
\* asked for, unless that is what it refuses; over rotations that overtake each
\* other, and over restarts, which use the versions of the last process again
\* for other certificates.
QuietStreamRunsNewest ==
    \A s \in Streams : Quiet(s) =>
        \A t \in requested[s] \cap Served :
            \/ running[Owner[s]][t] = advertised
            \/ Refuses(BuildResponse(advertised, t))

\* A refused certificate is sent once: the NACK is not answered with it.
NackStormEnds ==
    <>[](\A s \in Streams : \A req \in Range(inbound[s]) : ~req.error)

===============================================================================
