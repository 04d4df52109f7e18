------------------------------ MODULE OrcaWeights ------------------------------
(***************************************************************************)
(* Chapter 6: the control plane reads the utilization of every backend     *)
(* over ORCA, turns it into EDS weights and advertises a new snapshot when *)
(* a reading has moved.  One client task per backend; the tasks share the  *)
(* map of readings, behind a mutex, the version counter and the watch      *)
(* channel, and run on different threads.                                  *)
(*                                                                         *)
(* A reading is a float in the code.  Here it is an integer, in units of   *)
(* 1/10000, or NaN.                                                        *)
(***************************************************************************)
EXTENDS EnvoySotw, Integers

CONSTANTS
    Hosts,        \* backends
    Loads,        \* utilizations a backend can be started with
    NaN,          \* the float that is not a number
    None,         \* no reading yet
    MaxRestarts,  \* bound on the restarts of backends
    MaxVersion    \* bound: no reading counts as moved once the counter is here

ASSUME OrcaAssumption ==
    /\ Hosts # {}
    /\ Loads \subseteq Int \cup {NaN}
    /\ NaN \notin Int
    /\ None \notin Int \cup {NaN} \cup Hosts
    /\ MaxRestarts \in Nat
    /\ MaxVersion \in Nat \ {0}

VARIABLES
    load,      \* load[h]: what backend h reports, fixed while it runs
    linked,    \* linked[h]: its report stream is intact
    restarts,  \* how often backends have been restarted
    util,      \* util[h]: the reading on record
    version,   \* the version counter
    client,    \* client[h]: where run_orca_client is
    weighted,  \* weighted[h]: the weights that task has computed
    made,      \* made[h]: the snapshot that task is about to send
    publisher  \* the backend whose task advertised last; no step depends on it

backendVars == <<load, linked, restarts>>
controlVars == <<util, version, client, weighted, made, publisher>>
vars == <<streamVars, envoyVars, backendVars, controlVars>>

-----------------------------------------------------------------------------
(* Weights. *)

Clamp(u, lo, hi) == IF u < lo THEN lo ELSE IF u > hi THEN hi ELSE u

\* The cast of NaN to u32 is 0; the maximum that follows is left out.
WeightFromUtil_NoFloor(u) ==
    IF u = NaN THEN 0 ELSE (10000 - Clamp(u, 0, 9900) + 5) \div 10

\* round((1 - u) * 1000) of the clamped reading, and at least 1.
WeightFromUtil(u) ==
    IF u = NaN THEN 1 ELSE (10000 - Clamp(u, 0, 9900) + 5) \div 10

Weights == [Hosts -> 1 .. 1000]

Snapshot == [version : Nat, body : Weights]

ASSUME NoSnapAssumption == NoSnap \notin Snapshot

\* recompute_and_push takes 0.5 for a backend that has not reported.
WeightsOf(readings) ==
    [h \in Hosts |-> WeightFromUtil(IF readings[h] = None THEN 5000 ELSE readings[h])]

\* Equal weights: nobody has reported.
Initial == [version |-> 1, body |-> WeightsOf([h \in Hosts |-> None])]

TypeOK ==
    /\ StreamTypeOK(Snapshot)
    /\ EnvoyTypeOK(Snapshot)
    /\ load \in [Hosts -> Loads]
    /\ linked \in [Hosts -> BOOLEAN]
    /\ restarts \in Nat
    /\ util \in [Hosts -> Loads \cup {None}]
    /\ version \in Nat
    /\ client \in [Hosts -> {"connect", "stream", "recompute", "build", "send"}]
    /\ weighted \in [Hosts -> Weights]
    /\ made \in [Hosts -> Snapshot \cup {NoSnap}]
    /\ publisher \in Hosts \cup {None}

Init ==
    /\ StreamInit(Initial)
    /\ EnvoyInit
    /\ load \in [Hosts -> Loads]
    /\ linked = [h \in Hosts |-> FALSE]
    /\ restarts = 0
    /\ util = [h \in Hosts |-> None]
    /\ version = 1
    /\ client = [h \in Hosts |-> "connect"]
    /\ weighted = [h \in Hosts |-> Initial.body]
    /\ made = [h \in Hosts |-> NoSnap]
    /\ publisher = None

-----------------------------------------------------------------------------
(* The backends. *)

\* A backend goes down and comes back with another ORCA_UTILIZATION.  Its
\* report stream is lost.
Restart(h) ==
    /\ restarts < MaxRestarts
    /\ restarts' = restarts + 1
    /\ \E u \in Loads : load' = [load EXCEPT ![h] = u]
    /\ linked' = [linked EXCEPT ![h] = FALSE]
    /\ UNCHANGED <<streamVars, envoyVars, controlVars>>

-----------------------------------------------------------------------------
(* run_orca_client, one task per backend. *)

\* The task of h goes from one place to another.
Go(h, from, to) ==
    /\ client[h] = from
    /\ client' = [client EXCEPT ![h] = to]

\* Connect and ask for reports.  An attempt that fails leads to a pause and
\* to the next attempt.
OrcaConnect(h) ==
    /\ Go(h, "connect", "stream")
    /\ linked' = [linked EXCEPT ![h] = TRUE]
    /\ UNCHANGED <<streamVars, envoyVars, load, restarts, util, version,
                   weighted, made, publisher>>

\* The stream ends: the reading stays on record.
OrcaLost(h) ==
    /\ Go(h, "stream", "connect")
    /\ ~linked[h]
    /\ UNCHANGED <<streamVars, envoyVars, backendVars, util, version, weighted,
                   made, publisher>>

\* observe keeps quiet about a reading within 0.001 of the one on record.
\* NaN is within no distance of anything.
Unmoved(prev, u) ==
    /\ prev \notin {None, NaN}
    /\ u # NaN
    /\ prev - u < 10
    /\ u - prev < 10

\* The reading is recorded whether or not it has moved.
Observe_RecordsAll(h) ==
    /\ client[h] = "stream"
    /\ linked[h]
    /\ version < MaxVersion
    /\ util' = [util EXCEPT ![h] = load[h]]
    /\ client' = [client EXCEPT ![h] =
                    IF Unmoved(util[h], load[h]) THEN "stream" ELSE "recompute"]
    /\ UNCHANGED <<streamVars, envoyVars, backendVars, version, weighted, made,
                   publisher>>

\* The insert is forgotten.
Observe_Unrecorded(h) ==
    /\ Go(h, "stream", "recompute")
    /\ linked[h]
    /\ version < MaxVersion
    /\ ~Unmoved(util[h], load[h])
    /\ UNCHANGED <<streamVars, envoyVars, backendVars, util, version, weighted,
                   made, publisher>>

\* A report whose reading has moved is recorded, under the mutex.  Both of
\* its utilization fields hold the backend's one figure, so that it does not
\* matter which of them is taken.
Observe(h) ==
    /\ Go(h, "stream", "recompute")
    /\ linked[h]
    /\ version < MaxVersion
    /\ ~Unmoved(util[h], load[h])
    /\ util' = [util EXCEPT ![h] = load[h]]
    /\ UNCHANGED <<streamVars, envoyVars, backendVars, version, weighted, made,
                   publisher>>

\* recompute_and_push takes the mutex again to read everybody's reading ...
Recompute(h) ==
    /\ Go(h, "recompute", "build")
    /\ weighted' = [weighted EXCEPT ![h] = WeightsOf(util)]
    /\ UNCHANGED <<streamVars, envoyVars, backendVars, util, version, made,
                   publisher>>

\* ... draws a version for the weights ...
Build(h) ==
    /\ Go(h, "build", "send")
    /\ version' = version + 1
    /\ made' = [made EXCEPT ![h] = [version |-> version', body |-> weighted[h]]]
    /\ weighted' = [weighted EXCEPT ![h] = Initial.body]
    /\ UNCHANGED <<streamVars, envoyVars, backendVars, util, publisher>>

\* ... and advertises the snapshot.  The task then waits for the next report.
Publish(h) ==
    /\ Go(h, "send", "stream")
    /\ WatchSend(made[h])
    /\ made' = [made EXCEPT ![h] = NoSnap]
    /\ publisher' = h
    /\ UNCHANGED <<wireVars, taskVars, envoyVars, backendVars, util, version,
                   weighted>>

OrcaClient(h) ==
    OrcaConnect(h) \/ OrcaLost(h) \/ Observe(h) \/ Recompute(h) \/ Build(h) \/ Publish(h)

-----------------------------------------------------------------------------
(* The ADS streams. *)

\* A NACK is logged and nothing else.
ReceiveNack(s) ==
    /\ Take(s)
    /\ Head(inbound[s]).error
    /\ UNCHANGED <<watchVars, pc, held, todo, sent_version, seen>>

Task(s) ==
    /\ \/ ReceiveSubscription(s)
       \/ ReceiveAck(s)
       \/ ReceiveNack(s)
       \/ WatchChanged(s)
       \/ Push(s)
       \/ StreamEnds(s)
    /\ UNCHANGED <<envoyVars, backendVars, controlVars>>

\* Envoy requires load_balancing_weight to be at least 1.
Valid(resp) == resp.type # "EDS" \/ \A h \in Hosts : resp.snap.body[h] >= 1

Envoy(s) ==
    /\ \/ \E t \in Types : Subscribe(s, t)
       \/ Accept(s) /\ Valid(Head(outbound[s]))
       \/ Reject(s) /\ ~Valid(Head(outbound[s]))
    /\ UNCHANGED <<backendVars, controlVars>>

Link(s) == Connect(s) /\ UNCHANGED <<backendVars, controlVars>>
Drop(s) == Disconnect(s) /\ UNCHANGED <<backendVars, controlVars>>

Next ==
    \/ \E h \in Hosts : Restart(h) \/ OrcaClient(h)
    \/ \E s \in Streams : Task(s) \/ Envoy(s) \/ Link(s) \/ Drop(s)

\* Tasks and Envoy proceed, and a backend reports every second and can be
\* reached again after a restart.  Restarts and lost streams need not happen.
Fairness ==
    /\ \A h \in Hosts : WF_vars(OrcaClient(h))
    /\ \A s \in Streams : WF_vars(Task(s)) /\ WF_vars(Envoy(s)) /\ WF_vars(Link(s))

Spec == Init /\ [][Next]_vars
FairSpec == Spec /\ Fairness

-----------------------------------------------------------------------------
(* Properties. *)

\* The weight that h has in weights fits what h has on record.
Fits(weights, h) == util[h] # None /\ weights[h] = WeightFromUtil(util[h])

\* The task that advertised last, once it waits for a report again, has put the
\* reading that its backend has on record into what is advertised, whatever the
\* other tasks read, computed and recorded meanwhile.  With a single backend that
\* is all the weights there are.  (Those of the other backends may be stale for
\* good: see WeightsFollowLoad.)
LastPublisherFits ==
    publisher # None /\ client[publisher] \in {"connect", "stream"} =>
        Fits(advertised.body, publisher)

\* README, chapter 6: the control plane "on every reading recomputes an EDS
\* load_balancing_weight ... and re-pushes EDS".  Here: once the backends keep
\* running, a connected Envoy gives every backend the weight of the load it
\* reports, or, as observe ignores small moves, one off that.
Near(w, v) == w - v \in -1 .. 1

WeightsFollowLoad ==
    <>[](\A s \in Streams : up[s] /\ "EDS" \in Wanted(Owner[s]) =>
            /\ running[Owner[s]]["EDS"] # NoSnap
            /\ \A h \in Hosts :
                  Near(running[Owner[s]]["EDS"].body[h], WeightFromUtil(load[h])))

===============================================================================
