------------------------------- MODULE Rollback -------------------------------
(***************************************************************************)
(* Chapter 2: an operator pushes good and broken snapshots through the     *)
(* admin API; an Envoy that receives a broken Listener NACKs it, and the   *)
(* stream task that reads the NACK re-advertises the last good snapshot to *)
(* every stream.                                                           *)
(*                                                                         *)
(* Admin calls and stream tasks run on a multi-threaded runtime: a step    *)
(* below ends where another thread can observe or change what it touched,  *)
(* at the atomic counter, at the mutex around last_good and at the watch   *)
(* channel.                                                                *)
(***************************************************************************)
EXTENDS EnvoySotw

CONSTANTS
    Admins,      \* admin requests that may be in progress at once
    MaxVersion   \* bound: no push begins once the counter is here

ASSUME RollbackAssumption == MaxVersion \in Nat \ {0}

VARIABLES
    last_good,   \* the rollback target
    version,     \* the version counter
    call,        \* call[a]: the next step of admin request a
    made         \* made[a]: the snapshot that request has built

controlVars == <<last_good, version, call, made>>
vars == <<streamVars, envoyVars, controlVars>>

\* Versions are drawn from a counter that starts at 1.
Snapshot == [version : Nat \ {0}, body : {"good", "broken"}]
Good(n)   == [version |-> n, body |-> "good"]
Broken(n) == [version |-> n, body |-> "broken"]

ASSUME NoSnapAssumption == NoSnap \notin Snapshot

TypeOK ==
    /\ StreamTypeOK(Snapshot)
    /\ EnvoyTypeOK(Snapshot)
    /\ last_good \in Snapshot
    /\ version \in Nat
    /\ call \in [Admins -> {"idle", "record", "send"}]
    /\ made \in [Admins -> Snapshot \cup {NoSnap}]

Init ==
    /\ StreamInit(Good(1))
    /\ EnvoyInit
    /\ last_good = Good(1)
    /\ version = 1
    /\ call = [a \in Admins |-> "idle"]
    /\ made = [a \in Admins |-> NoSnap]

-----------------------------------------------------------------------------
(* The admin API. *)

\* A counter that is rewound with the advertised snapshot.
NextVersion_OfAdvertised == advertised.version + 1

NextVersion == version + 1

\* Draw a version and build a snapshot of it; next is where the call goes on.
Build(a, snap, next) ==
    /\ call[a] = "idle"
    /\ version < MaxVersion
    /\ version' = NextVersion
    /\ made' = [made EXCEPT ![a] = snap]
    /\ call' = [call EXCEPT ![a] = next]
    /\ UNCHANGED <<streamVars, envoyVars, last_good>>

PushGood(a) == Build(a, Good(NextVersion), "record")

\* push_broken that records its snapshot the way push_good does.
PushBroken_Records(a) == Build(a, Broken(NextVersion), "record")

PushBroken(a) == Build(a, Broken(NextVersion), "send")

\* push_good stores its snapshot in last_good, under the mutex ...
RecordGood(a) ==
    /\ call[a] = "record"
    /\ last_good' = made[a]
    /\ call' = [call EXCEPT ![a] = "send"]
    /\ UNCHANGED <<streamVars, envoyVars, version, made>>

\* ... and both pushes end with advertised.send.
Publish(a) ==
    /\ call[a] = "send"
    /\ WatchSend(made[a])
    /\ call' = [call EXCEPT ![a] = "idle"]
    /\ made' = [made EXCEPT ![a] = NoSnap]
    /\ UNCHANGED <<wireVars, taskVars, envoyVars, last_good, version>>

-----------------------------------------------------------------------------
(* The NACK arm.  It copies last_good under the mutex, releases it, and    *)
(* sends the copy.                                                         *)

\* A NACK answered as chapter 1 answers it: with the advertised snapshot again.
ReceiveNack_Resends(s) ==
    /\ Take(s)
    /\ Head(inbound[s]).error
    /\ Visit(s, {Head(inbound[s]).type}, advertised)
    /\ sent_version' = [sent_version EXCEPT ![s][Head(inbound[s]).type] = 0]
    /\ UNCHANGED <<watchVars, seen, envoyVars, controlVars>>

\* A NACK that is only logged, as chapters 3 and 6 do.
ReceiveNack_Logs(s) ==
    /\ Take(s)
    /\ Head(inbound[s]).error
    /\ UNCHANGED <<watchVars, pc, held, todo, sent_version, seen, envoyVars,
                   controlVars>>

ReceiveNack(s) ==
    /\ Take(s)
    /\ Head(inbound[s]).error
    /\ pc' = [pc EXCEPT ![s] = "rollback"]
    /\ held' = [held EXCEPT ![s] = last_good]
    /\ UNCHANGED <<watchVars, todo, sent_version, seen, envoyVars, controlVars>>

RollBack(s) ==
    /\ pc[s] = "rollback"
    /\ WatchSend(held[s])
    /\ pc' = [pc EXCEPT ![s] = "select"]
    /\ held' = [held EXCEPT ![s] = NoSnap]
    /\ UNCHANGED <<wireVars, todo, subscribed, sent_version, seen, envoyVars,
                   controlVars>>

-----------------------------------------------------------------------------
\* The steps of stream s's task.
Task(s) ==
    \/ /\ \/ ReceiveSubscription(s)
          \/ ReceiveAck(s)
          \/ WatchChanged(s)
          \/ Push(s)
          \/ StreamEnds(s)
       /\ UNCHANGED <<envoyVars, controlVars>>
    \/ ReceiveNack(s)
    \/ RollBack(s)

\* Envoy's Listener validation rejects the empty stat_prefix of a broken
\* snapshot; its other resources are valid.
Valid(resp) == resp.type # "LDS" \/ resp.snap.body = "good"

Envoy(s) ==
    /\ \/ \E t \in Types : Subscribe(s, t)
       \/ Accept(s) /\ Valid(Head(outbound[s]))
       \/ Reject(s) /\ ~Valid(Head(outbound[s]))
    /\ UNCHANGED controlVars

Link(s) == Connect(s) /\ UNCHANGED controlVars
Drop(s) == Disconnect(s) /\ UNCHANGED controlVars

Finish(a) == RecordGood(a) \/ Publish(a)

Next ==
    \/ \E a \in Admins : PushGood(a) \/ PushBroken(a) \/ Finish(a)
    \/ \E s \in Streams : Task(s) \/ Envoy(s) \/ Link(s) \/ Drop(s)

\* The runtime keeps polling a task that can move, and an admin request that
\* began runs to its end; Envoy answers, and reconnects.  Nobody has to push,
\* and no connection has to break.
Fairness ==
    /\ \A s \in Streams : WF_vars(Task(s)) /\ WF_vars(Envoy(s)) /\ WF_vars(Link(s))
    /\ \A a \in Admins : WF_vars(Finish(a))

Spec == Init /\ [][Next]_vars
FairSpec == Spec /\ Fairness

-----------------------------------------------------------------------------
(* Safety. *)

\* Every snapshot there is a copy of.
Known ==
    {advertised, last_good}
      \cup {held[s] : s \in Streams}
      \cup {made[a] : a \in Admins}
      \cup {running[e][t] : e \in Envoys, t \in Types}
      \cup UNION {{resp.snap : resp \in Range(outbound[s])} : s \in Streams}

\* A version names one snapshot for good, rollbacks and concurrent pushes
\* notwithstanding.  push_if_new relies on it: it compares versions only.
VersionIdentifiesSnapshot ==
    \A x, y \in Known \ {NoSnap} : x.version = y.version => x = y

\* A rollback never re-advertises a snapshot that Envoy would reject, so one
\* NACK never leads to the next.
RollbackTargetIsGood ==
    /\ last_good.body = "good"
    /\ \A s \in Streams : pc[s] = "rollback" => held[s].body = "good"

-----------------------------------------------------------------------------
(* Liveness, under FairSpec. *)

SomeoneConnected == \E s \in Streams : up[s]

\* A broken snapshot does not stay advertised while an Envoy is connected.
RollbackHappens ==
    advertised.body = "broken" ~> (advertised.body = "good" \/ ~SomeoneConnected)

\* When the operator and the network have come to rest every connected Envoy
\* runs what is advertised, in every type it wants and the server has.
Converges ==
    <>[](\A s \in Streams : up[s] =>
            \A t \in Wanted(Owner[s]) \cap Served :
                running[Owner[s]][t] = advertised)

\* NACKs die out: the rollback ends the exchange it answers.
NackStormEnds ==
    <>[](\A s \in Streams : \A req \in Range(inbound[s]) : ~req.error)

-----------------------------------------------------------------------------
(* A claim of the repository that the code does not keep. *)

\* main.rs, NACK arm: "re-advertise the last-known-good snapshot"; README:
\* push_good "updates both".  Here: with no call and no rollback in progress,
\* a good advertised snapshot is the last good one.
AtRest ==
    /\ \A a \in Admins : call[a] = "idle"
    /\ \A s \in Streams : pc[s] # "rollback"

LastGoodIsAdvertised ==
    AtRest /\ advertised.body = "good" => advertised = last_good

===============================================================================
