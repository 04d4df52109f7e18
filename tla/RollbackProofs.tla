---------------------------- MODULE RollbackProofs ----------------------------
(***************************************************************************)
(* Chapter 2, for any streams, Envoys, types, admin requests, channel      *)
(* capacity and number of pushes: no push is lost, a rollback never        *)
(* advertises a broken snapshot, a version names one snapshot, and a quiet *)
(* stream's Envoy runs what is advertised.                                 *)
(***************************************************************************)
EXTENDS Rollback, SotwStreamProofs

\* An admin request past its first step holds the snapshot it built, and only
\* a good one is on its way to last_good.
CallInv ==
    \A a \in Admins :
        /\ call[a] # "idle" => made[a] \in Snapshot
        /\ call[a] = "record" => made[a].body = "good"

Snapshots == Known \ {NoSnap}

\* No copy of a snapshot is younger than the counter, so that the next
\* version drawn is new to all of them.
VersionInv ==
    /\ \A snap \in Snapshots : snap.version <= version
    /\ VersionIdentifiesSnapshot

\* The inductive invariant.
IInv ==
    /\ TypeOK
    /\ StreamInv(Snapshot)
    /\ CallInv
    /\ RollbackTargetIsGood
    /\ VersionInv

LEMMA SnapshotVersioned == Versioned(Snapshot)
BY DEF Versioned, Snapshot

LEMMA SnapshotsTyped == ASSUME TypeOK PROVE Snapshots \subseteq Snapshot
<1>1. ASSUME NEW s \in Streams, NEW resp \in Range(outbound[s])
      PROVE  resp.snap \in Snapshot
  <2>1. outbound[s] \in Seq(Responses(Snapshot))
    BY DEF TypeOK, StreamTypeOK
  <2>2. resp \in Responses(Snapshot)
    BY <2>1, LenProperties DEF Range
  <2> QED BY <2>2 DEF Responses
<1> QED BY <1>1 DEF TypeOK, StreamTypeOK, EnvoyTypeOK, Snapshots, Known

\* A step that draws no version and only copies snapshots that exist already
\* cannot make two snapshots share one.
LEMMA CopiesOnly ==
    ASSUME VersionInv, Known' \subseteq Known \cup {NoSnap}, version' = version
    PROVE  VersionInv'
BY DEF VersionInv, VersionIdentifiesSnapshot, Snapshots

THEOREM InitIInv == Init => IInv
<1> SUFFICES ASSUME Init PROVE IInv
  OBVIOUS
<1>1. Good(1) \in Snapshot /\ Good(1).body = "good" /\ Good(1).version = 1
  BY DEF Good, Snapshot
<1>2. StreamInv(Snapshot)
  BY <1>1, StreamInitInv DEF Init
<1>3. TypeOK
  BY <1>1, <1>2 DEF TypeOK, StreamInv, Init, EnvoyInit, EnvoyTypeOK
<1>4. CallInv /\ RollbackTargetIsGood
  BY <1>1 DEF CallInv, RollbackTargetIsGood, Init, StreamInit
<1>5. Known \subseteq {Good(1), NoSnap}
  BY EmptyRange DEF Known, Init, StreamInit, EnvoyInit
<1>6. VersionInv
  BY <1>1, <1>5 DEF VersionInv, VersionIdentifiesSnapshot, Snapshots, Init
<1> QED BY <1>2, <1>3, <1>4, <1>6 DEF IInv

-----------------------------------------------------------------------------
(* The admin API. *)

LEMMA BuildInv ==
    ASSUME IInv, NEW a \in Admins, PushGood(a) \/ PushBroken(a)
    PROVE  IInv'
<1> PICK body \in {"good", "broken"} :
        LET snap == [version |-> version + 1, body |-> body] IN
        /\ call' = [call EXCEPT ![a] = IF body = "good" THEN "record" ELSE "send"]
        /\ made' = [made EXCEPT ![a] = snap]
        /\ version' = version + 1
        /\ UNCHANGED <<streamVars, envoyVars, last_good>>
  BY DEF PushGood, PushBroken, Build, Good, Broken, NextVersion
<1> DEFINE new == [version |-> version + 1, body |-> body]
<1>1. /\ version \in Nat
      /\ new \in Snapshot /\ new.version = version + 1 /\ new.body = body
  BY DEF IInv, TypeOK, Snapshot
<1>2. /\ made' = [made EXCEPT ![a] = new]
      /\ version' = version + 1
  OBVIOUS
<1> HIDE DEF new
<1>3. StreamInv(Snapshot)'
  BY DEF IInv, StreamInv, StreamTypeOK, HeldInv, TaskInv, streamVars, watchVars,
         wireVars, taskVars
<1>4. TypeOK'
  BY <1>1, <1>2, <1>3 DEF IInv, TypeOK, StreamInv, EnvoyTypeOK, envoyVars
<1>5. CallInv'
  BY <1>1, <1>2 DEF IInv, TypeOK, CallInv
<1>6. RollbackTargetIsGood'
  BY DEF IInv, RollbackTargetIsGood, streamVars, taskVars
<1>7. Known' \subseteq Known \cup {new}
  BY <1>2 DEF IInv, TypeOK, Known, streamVars, watchVars, wireVars, taskVars, envoyVars
<1>8. VersionInv'
  <2>1. \A snap \in Snapshots : snap.version \in Nat
    BY SnapshotsTyped DEF IInv, Snapshot
  <2> QED BY <1>1, <1>2, <1>7, <2>1
          DEF IInv, VersionInv, VersionIdentifiesSnapshot, Snapshots
<1> QED BY <1>3, <1>4, <1>5, <1>6, <1>8 DEF IInv

LEMMA RecordGoodInv ==
    ASSUME IInv, NEW a \in Admins, RecordGood(a)
    PROVE  IInv'
<1>1. /\ made[a] \in Snapshot /\ made[a].body = "good"
      /\ made[a] \in Known
  BY DEF IInv, CallInv, RecordGood, Known
<1>2. StreamInv(Snapshot)'
  BY DEF IInv, StreamInv, StreamTypeOK, HeldInv, TaskInv, RecordGood, streamVars,
         watchVars, wireVars, taskVars
<1>3. TypeOK'
  BY <1>1, <1>2 DEF IInv, TypeOK, StreamInv, EnvoyTypeOK, RecordGood, envoyVars
<1>4. CallInv'
  BY DEF IInv, TypeOK, CallInv, RecordGood
<1>5. RollbackTargetIsGood'
  BY <1>1 DEF IInv, RollbackTargetIsGood, RecordGood, streamVars, taskVars
<1>6. Known' \subseteq Known
  BY <1>1 DEF RecordGood, Known, streamVars, watchVars, wireVars, taskVars, envoyVars
<1>7. VersionInv'
  BY <1>6, CopiesOnly DEF IInv, RecordGood
<1> QED BY <1>2, <1>3, <1>4, <1>5, <1>7 DEF IInv

LEMMA PublishInv ==
    ASSUME IInv, NEW a \in Admins, Publish(a)
    PROVE  IInv'
<1>1. made[a] \in Snapshot /\ made[a] \in Known
  BY DEF IInv, CallInv, Publish, Known
<1>2. StreamInv(Snapshot)'
  <2>1. WatchSend(made[a]) /\ UNCHANGED <<wireVars, taskVars>>
    BY DEF Publish
  <2> QED BY <1>1, <2>1, WatchSendInv DEF IInv
<1>3. TypeOK'
  BY <1>2 DEF IInv, TypeOK, StreamInv, EnvoyTypeOK, Publish, envoyVars
<1>4. CallInv'
  BY DEF IInv, TypeOK, CallInv, Publish
<1>5. RollbackTargetIsGood'
  BY DEF IInv, RollbackTargetIsGood, Publish, taskVars
<1>6. Known' \subseteq Known \cup {NoSnap}
  BY <1>1 DEF IInv, TypeOK, Publish, WatchSend, Known, watchVars, wireVars, taskVars,
             envoyVars
<1>7. VersionInv'
  BY <1>6, CopiesOnly DEF IInv, Publish
<1> QED BY <1>2, <1>3, <1>4, <1>5, <1>7 DEF IInv

-----------------------------------------------------------------------------
(* Steps of the streams and of Envoy. *)

\* What is left to show of a step that leaves the admin API alone.
LEMMA StreamStepInv ==
    ASSUME IInv, UNCHANGED controlVars,
           StreamInv(Snapshot)', EnvoyTypeOK(Snapshot)',
           Known' \subseteq Known \cup {NoSnap}, RollbackTargetIsGood'
    PROVE  IInv'
<1>1. TypeOK' /\ CallInv'
  BY DEF IInv, TypeOK, CallInv, StreamInv, controlVars
<1>2. VersionInv'
  BY CopiesOnly DEF IInv, controlVars
<1> QED BY <1>1, <1>2 DEF IInv

\* The snapshots a stream step can move: to a task from the watch channel, to
\* the wire from a task.
LEMMA KnownCopied ==
    ASSUME IInv, UNCHANGED <<advertised, running, controlVars>>, NEW s \in Streams,
           \A r \in Streams : held'[r] \in {held[r], advertised, last_good, NoSnap},
           \A r \in Streams : \A resp \in Range(outbound'[r]) :
              resp \in Range(outbound[r]) \/ resp.snap = held[r]
    PROVE  Known' \subseteq Known \cup {NoSnap}
BY DEF Known, controlVars

LEMMA ReceiveNackInv ==
    ASSUME IInv, NEW s \in Streams, ReceiveNack(s)
    PROVE  IInv'
<1>1. last_good \in Snapshot /\ last_good.body = "good"
  BY DEF IInv, TypeOK, RollbackTargetIsGood
<1>2. StreamInv(Snapshot)
  BY DEF IInv
<1>3. StreamInv(Snapshot)'
  <2>1. Take(s)
    BY DEF ReceiveNack
  <2>2. StreamTypeOK(Snapshot)'
    BY <1>1, <1>2, <2>1, TakeFacts
    DEF StreamInv, StreamTypeOK, ReceiveNack, Take, watchVars
  <2>3. HeldInv(Snapshot)'
    BY <1>1, <1>2 DEF StreamInv, StreamTypeOK, HeldInv, ReceiveNack
  <2>4. subscribed' = subscribed
    <3>1. Head(inbound[s]).type \in subscribed[s]
      BY <1>2, <2>1, TakeFacts DEF StreamInv, TaskInv, ReceiveNack
    <3> QED BY <1>2, <2>1, <3>1 DEF StreamInv, StreamTypeOK, Take
  <2>5. ASSUME NEW r \in Streams PROVE TaskInv(r)'
    BY <1>2, <2>1, <2>4, <2>5, TakeFacts
    DEF StreamInv, StreamTypeOK, TaskInv, ReceiveNack, Take, watchVars
  <2> QED BY <2>2, <2>3, <2>5 DEF StreamInv
<1>4. EnvoyTypeOK(Snapshot)'
  BY DEF IInv, TypeOK, EnvoyTypeOK, ReceiveNack, envoyVars
<1>5. Known' \subseteq Known \cup {NoSnap}
  BY KnownCopied DEF IInv, TypeOK, StreamTypeOK, ReceiveNack, Take, watchVars, envoyVars
<1>6. RollbackTargetIsGood'
  BY <1>1 DEF IInv, TypeOK, StreamTypeOK, RollbackTargetIsGood, ReceiveNack, controlVars
<1> QED BY <1>3, <1>4, <1>5, <1>6, StreamStepInv DEF ReceiveNack

LEMMA RollBackInv ==
    ASSUME IInv, NEW s \in Streams, RollBack(s)
    PROVE  IInv'
<1>1. held[s] \in Snapshot /\ held[s] \in Known
  BY DEF IInv, StreamInv, HeldInv, RollBack, Known
<1>2. StreamInv(Snapshot)'
  <2>1. StreamTypeOK(Snapshot)'
    BY <1>1 DEF IInv, StreamInv, StreamTypeOK, RollBack, WatchSend, watchVars, wireVars
  <2>2. HeldInv(Snapshot)'
    BY DEF IInv, StreamInv, StreamTypeOK, HeldInv, RollBack
  <2>3. ASSUME NEW r \in Streams PROVE TaskInv(r)'
    BY <2>3 DEF IInv, StreamInv, StreamTypeOK, TaskInv, RollBack, WatchSend, Receivers,
                watchVars, wireVars
  <2> QED BY <2>1, <2>2, <2>3 DEF StreamInv
<1>3. EnvoyTypeOK(Snapshot)'
  BY DEF IInv, TypeOK, EnvoyTypeOK, RollBack, envoyVars
<1>4. Known' \subseteq Known \cup {NoSnap}
  BY <1>1 DEF IInv, TypeOK, StreamTypeOK, RollBack, WatchSend, Known, watchVars,
              wireVars, envoyVars, controlVars
<1>5. RollbackTargetIsGood'
  BY DEF IInv, TypeOK, StreamTypeOK, RollbackTargetIsGood, RollBack, controlVars
<1> QED BY <1>2, <1>3, <1>4, <1>5, StreamStepInv DEF RollBack

\* The arms that chapter 2 shares with chapters 3 and 6.
LEMMA SharedTaskInv ==
    ASSUME IInv, NEW s \in Streams, UNCHANGED <<envoyVars, controlVars>>,
           \/ ReceiveSubscription(s) \/ ReceiveAck(s) \/ WatchChanged(s)
           \/ Push(s) \/ StreamEnds(s)
    PROVE  IInv'
<1>1. StreamInv(Snapshot)'
  BY ReceiveSubscriptionInv, ReceiveAckInv, WatchChangedInv, PushInv, CloseInv,
     SnapshotVersioned
  DEF IInv, StreamEnds
<1>2. EnvoyTypeOK(Snapshot)'
  BY DEF IInv, TypeOK, EnvoyTypeOK, envoyVars
<1> DEFINE Copies ==
        /\ advertised' = advertised
        /\ \A r \in Streams : held'[r] \in {held[r], advertised, NoSnap}
        /\ \A r \in Streams : pc'[r] = "rollback" =>
              pc[r] = "rollback" /\ held'[r] = held[r]
        /\ \A r \in Streams : \A resp \in Range(outbound'[r]) :
              resp \in Range(outbound[r]) \/ resp.snap = held[r]
<1>3. Copies
  <2> USE DEF IInv, TypeOK, StreamTypeOK, watchVars, wireVars, Visit
  <2>1. CASE ReceiveSubscription(s)
    BY <2>1 DEF ReceiveSubscription, Take
  <2>2. CASE ReceiveAck(s)
    BY <2>2 DEF ReceiveAck, Take
  <2>3. CASE WatchChanged(s)
    BY <2>3 DEF WatchChanged
  <2>4. ASSUME NEW t \in Types, PushSkip(s, t) PROVE Copies
    BY <2>4 DEF PushSkip
  <2>5. ASSUME NEW t \in Types, PushSend(s, t) PROVE Copies
    <3>1. BuildResponse(held[s], t) \in Responses(Snapshot)
      BY <2>5 DEF StreamInv, HeldInv, PushSend, BuildResponse, Responses
    <3>2. Range(outbound'[s]) = Range(outbound[s]) \cup {BuildResponse(held[s], t)}
      BY <2>5, <3>1, AppendRange DEF PushSend
    <3> QED BY <2>5, <3>2 DEF PushSend, BuildResponse
  <2>6. CASE Close(s)
    BY <2>6, EmptyRange DEF Close
  <2> QED BY <2>1, <2>2, <2>3, <2>4, <2>5, <2>6 DEF Push, PushFails, StreamEnds
<1>4. Known' \subseteq Known \cup {NoSnap}
  BY <1>3, KnownCopied DEF envoyVars
<1>5. RollbackTargetIsGood'
  BY <1>3 DEF IInv, RollbackTargetIsGood, controlVars
<1> QED BY <1>1, <1>2, <1>4, <1>5, StreamStepInv

LEMMA EnvoyInv ==
    ASSUME IInv, NEW s \in Streams, Envoy(s)
    PROVE  IInv'
<1> USE DEF IInv, TypeOK, StreamTypeOK, EnvoyTypeOK
<1>1. ASSUME NEW t \in Types, Subscribe(s, t), UNCHANGED controlVars PROVE IInv'
  <2>1. StreamInv(Snapshot)'
    BY <1>1, SubscribeInv
  <2>2. EnvoyTypeOK(Snapshot)'
    BY <1>1 DEF Subscribe
  <2>3. Known' \subseteq Known \cup {NoSnap}
    BY <1>1, KnownCopied DEF Subscribe, watchVars, taskVars
  <2>4. RollbackTargetIsGood'
    BY <1>1 DEF Subscribe, RollbackTargetIsGood, taskVars, controlVars
  <2> QED BY <1>1, <2>1, <2>2, <2>3, <2>4, StreamStepInv
<1>2. ASSUME outbound[s] # <<>>, UNCHANGED controlVars,
             \/ Accept(s) /\ Valid(Head(outbound[s]))
             \/ Reject(s) /\ ~Valid(Head(outbound[s]))
      PROVE  IInv'
  <2> DEFINE resp == Head(outbound[s])
  <2>1. /\ resp \in Responses(Snapshot)
        /\ resp \in Range(outbound[s])
        /\ Range(Tail(outbound[s])) \subseteq Range(outbound[s])
    BY <1>2, TailRange
  <2>2. /\ resp.type \in Types
        /\ resp.snap \in Snapshot
        /\ resp.snap.version \in Nat
        /\ resp.snap \in Known
    BY <2>1 DEF Responses, Snapshot, Known
  <2>3. PICK req \in Requests : Reply(s, req) /\ req.type = resp.type
    <3>1. /\ Ack(resp.type, NonceOf(resp)) \in Requests
          /\ Nack(resp.type, NonceOf(resp)) \in Requests
      BY <2>2 DEF Ack, Nack, NonceOf, Requests
    <3>2. /\ Ack(resp.type, NonceOf(resp)).type = resp.type
          /\ Nack(resp.type, NonceOf(resp)).type = resp.type
      BY DEF Ack, Nack
    <3>3. \/ Reply(s, Ack(resp.type, NonceOf(resp)))
          \/ Reply(s, Nack(resp.type, NonceOf(resp)))
      BY <1>2 DEF Accept, Reject
    <3> QED BY <3>1, <3>2, <3>3
  <2>4. StreamInv(Snapshot)'
    BY <2>3, ReplyInv
  <2>5. /\ requested' = requested
        /\ \/ running' = running
           \/ running' = [running EXCEPT ![Owner[s]][resp.type] = resp.snap]
    BY <1>2, <2>3 DEF Accept, Reject, Reply
  <2> HIDE DEF resp
  <2>6. /\ requested' \in [Streams -> SUBSET Types]
        /\ running' \in [Envoys -> [Types -> Snapshot \cup {NoSnap}]]
        /\ \A e \in Envoys, t \in Types : running'[e][t] \in {running[e][t], resp.snap}
    <3>1. /\ requested \in [Streams -> SUBSET Types]
          /\ running \in [Envoys -> [Types -> Snapshot \cup {NoSnap}]]
      OBVIOUS
    <3>2. Owner[s] \in Envoys
      BY EnvoyAssumption
    <3>3. CASE running' = [running EXCEPT ![Owner[s]][resp.type] = resp.snap]
      <4> HIDE DEF IInv, TypeOK, StreamTypeOK, EnvoyTypeOK
      <4> QED BY <2>2, <2>5, <3>1, <3>2, <3>3
    <3>4. CASE running' = running
      BY <2>5, <3>1, <3>4
    <3> QED BY <2>5, <3>1, <3>3, <3>4
  <2>7. EnvoyTypeOK(Snapshot)'
    BY <2>6
  <2>8. Known' \subseteq Known \cup {NoSnap}
    <3>1. \A e \in Envoys, t \in Types : running'[e][t] \in {running[e][t], resp.snap}
      BY <2>6
    <3>2. \A r \in Streams : Range(outbound'[r]) \subseteq Range(outbound[r])
      BY <2>1, <2>3 DEF Reply
    <3>3. UNCHANGED <<advertised, last_good, held, made>>
      BY <1>2, <2>3 DEF Reply, watchVars, taskVars, controlVars
    <3> QED BY <2>2, <3>1, <3>2, <3>3 DEF Known
  <2>9. RollbackTargetIsGood'
    BY <1>2, <2>3 DEF Reply, RollbackTargetIsGood, taskVars, controlVars
  <2> QED BY <1>2, <2>4, <2>7, <2>8, <2>9, StreamStepInv
<1> QED BY <1>1, <1>2 DEF Envoy, Accept, Reject, Reply

LEMMA LinkInv ==
    ASSUME IInv, NEW s \in Streams, Link(s) \/ Drop(s)
    PROVE  IInv'
<1>1. StreamInv(Snapshot)'
  BY OpenInv, CutInv DEF IInv, Link, Connect, Drop, Disconnect
<1>2. /\ UNCHANGED <<advertised, held, outbound, running, controlVars>>
      /\ \A r \in Streams : pc'[r] = "rollback" => pc[r] = "rollback"
  BY DEF IInv, TypeOK, StreamTypeOK, Link, Connect, Open, Drop, Disconnect, Cut,
         watchVars, taskVars, envoyVars
<1>3. EnvoyTypeOK(Snapshot)'
  BY <1>2 DEF IInv, TypeOK, EnvoyTypeOK, envoyVars, Link, Connect, Drop, Disconnect
<1>4. Known' \subseteq Known \cup {NoSnap}
  BY <1>2, KnownCopied
<1>5. RollbackTargetIsGood'
  BY <1>2 DEF IInv, RollbackTargetIsGood, controlVars
<1> QED BY <1>1, <1>2, <1>3, <1>4, <1>5, StreamStepInv

-----------------------------------------------------------------------------
\* The step theorem: every action, and a stutter, preserves the invariant.
THEOREM NextIInv == IInv /\ [Next]_vars => IInv'
<1> SUFFICES ASSUME IInv, [Next]_vars PROVE IInv'
  OBVIOUS
<1>1. CASE UNCHANGED vars
  <2> USE <1>1 DEF vars, streamVars, watchVars, wireVars, taskVars, envoyVars, controlVars
  <2>1. StreamInv(Snapshot)'
    BY DEF IInv, StreamInv, StreamTypeOK, HeldInv, TaskInv
  <2>2. EnvoyTypeOK(Snapshot)'
    BY DEF IInv, TypeOK, EnvoyTypeOK
  <2>3. Known' = Known
    BY DEF Known
  <2>4. RollbackTargetIsGood'
    BY DEF IInv, RollbackTargetIsGood
  <2> QED BY <2>1, <2>2, <2>3, <2>4, StreamStepInv
<1>2. ASSUME NEW a \in Admins, PushGood(a) \/ PushBroken(a) \/ Finish(a) PROVE IInv'
  BY <1>2, BuildInv, RecordGoodInv, PublishInv DEF Finish
<1>3. ASSUME NEW s \in Streams, Task(s) PROVE IInv'
  BY <1>3, SharedTaskInv, ReceiveNackInv, RollBackInv DEF Task
<1>4. ASSUME NEW s \in Streams, Envoy(s) \/ Link(s) \/ Drop(s) PROVE IInv'
  BY <1>4, EnvoyInv, LinkInv
<1> QED BY <1>1, <1>2, <1>3, <1>4 DEF Next

THEOREM Invariance == Spec => []IInv
BY InitIInv, NextIInv, PTL DEF Spec

\* Every variable keeps its type, for any number of pushes and streams.
THEOREM TypeCorrect == Spec => []TypeOK
<1>1. IInv => TypeOK
  BY DEF IInv
<1> QED BY <1>1, Invariance, PTL

\* A change of the watch channel that arrives while a task is busy or blocked
\* on a full channel is not lost: see NoLostPush.
THEOREM PushesNotLost == Spec => []NoLostPush
<1>1. IInv => NoLostPush
  BY DEF IInv, StreamInv, TaskInv, NoLostPush
<1> QED BY <1>1, Invariance, PTL

\* The NACK arm never re-advertises a broken snapshot: see RollbackTargetIsGood.
THEOREM RollbackIsGood == Spec => []RollbackTargetIsGood
<1>1. IInv => RollbackTargetIsGood
  BY DEF IInv
<1> QED BY <1>1, Invariance, PTL

\* What push_if_new takes for granted when it compares versions only: see
\* VersionIdentifiesSnapshot.
THEOREM VersionsIdentify == Spec => []VersionIdentifiesSnapshot
<1>1. IInv => VersionIdentifiesSnapshot
  BY DEF IInv, VersionInv
<1> QED BY <1>1, Invariance, PTL

-----------------------------------------------------------------------------
(***************************************************************************)
(* Second: a quiet stream's Envoy runs what is advertised, whatever        *)
(* pushes, NACKs, rollbacks and reconnects led there.                      *)
(***************************************************************************)

\* Nobody is about to advertise version v, for the first time or again.
Buried(v) ==
    /\ last_good.version # v
    /\ \A s \in Streams : pc[s] = "rollback" => held[s].version # v
    /\ \A a \in Admins : call[a] # "idle" => made[a].version # v

\* The version sent last was refused, and is advertised no more or will soon
\* be replaced.
Refused(s, t) ==
    /\ NoneOf(outbound[s], t)
    /\ Buried(sent_version[s][t])
    /\ \/ advertised.version # sent_version[s][t]
       \/ pc[s] = "rollback"
       \/ \E req \in Range(inbound[s]) : req.error

\* How far the last version sent has got.
SentInv ==
    \A s \in Streams, t \in Types :
        /\ sent_version[s][t] <= version
        /\ up[s] => Reached(s, t) \/ Refused(s, t)

\* Of a broken snapshot that is yet to be published there is no copy.
FreshInv ==
    \A a \in Admins : call[a] # "idle" /\ made[a].body = "broken" =>
        /\ advertised # made[a]
        /\ \A s \in Streams : held[s] # made[a]
        /\ \A s \in Streams : \A resp \in Range(outbound[s]) : resp.snap # made[a]
        /\ \A b \in Admins \ {a} : made[b] # made[a]

QuietInv == SentInv /\ AskedInv /\ LinkInvariant /\ FreshInv

-----------------------------------------------------------------------------
(* The start and the admin API. *)

LEMMA InitQuiet == Init => QuietInv
<1> SUFFICES ASSUME Init PROVE QuietInv
  OBVIOUS
<1> USE DEF Init, StreamInit, EnvoyInit
<1>1. SentInv
  BY DEF SentInv, Reached
<1>2. AskedInv /\ LinkInvariant /\ FreshInv
  BY DEF AskedInv, LinkInvariant, FreshInv
<1> QED BY <1>1, <1>2 DEF QuietInv

\* A step of the admin API moves neither a stream nor an Envoy.
LEMMA AdminQuiet ==
    ASSUME QuietInv, UNCHANGED <<wireVars, taskVars, envoyVars>>,
           version \in Nat, version' \in Nat, version <= version',
           sent_version \in [Streams -> [Types -> Nat]],
           \A v \in Nat : Buried(v) /\ v <= version =>
              Buried(v)' /\ (advertised' = advertised \/ advertised'.version # v),
           FreshInv'
    PROVE  QuietInv'
<1> USE DEF QuietInv, wireVars, taskVars, envoyVars
<1>1. SentInv'
  <2> SUFFICES ASSUME NEW s \in Streams, NEW t \in Types
               PROVE  /\ sent_version[s][t] <= version'
                      /\ up[s] => (Reached(s, t) \/ Refused(s, t))'
    BY DEF SentInv
  <2>1. sent_version[s][t] \in Nat /\ sent_version[s][t] <= version
    BY DEF SentInv
  <2>2. Reached(s, t) => Reached(s, t)'
    BY DEF Reached
  <2>3. Refused(s, t) => Refused(s, t)'
    BY <2>1 DEF Refused
  <2> QED BY <2>1, <2>2, <2>3 DEF SentInv
<1>2. AskedInv' /\ LinkInvariant'
  BY DEF AskedInv, LinkInvariant
<1> QED BY <1>1, <1>2

LEMMA BuildQuiet ==
    ASSUME IInv, QuietInv, NEW a \in Admins, PushGood(a) \/ PushBroken(a)
    PROVE  QuietInv'
<1> PICK body \in {"good", "broken"} :
        LET snap == [version |-> version + 1, body |-> body] IN
        /\ call' = [call EXCEPT ![a] = IF body = "good" THEN "record" ELSE "send"]
        /\ made' = [made EXCEPT ![a] = snap]
        /\ version' = version + 1
        /\ UNCHANGED <<streamVars, envoyVars, last_good>>
  BY DEF PushGood, PushBroken, Build, Good, Broken, NextVersion
<1> DEFINE new == [version |-> version + 1, body |-> body]
<1>1. /\ version \in Nat
      /\ new \in Snapshot /\ new.version = version + 1
      /\ made' = [made EXCEPT ![a] = new]
  BY DEF IInv, TypeOK, Snapshot
<1> HIDE DEF new
<1>2. UNCHANGED <<advertised, wireVars, taskVars, envoyVars, last_good>>
  BY DEF streamVars, watchVars
<1>3. \A v \in Nat : Buried(v) /\ v <= version => Buried(v)'
  BY <1>1, <1>2 DEF Buried, IInv, TypeOK, taskVars
<1>4. \A snap \in Known : snap # new
  BY <1>1, NoSnapAssumption, SnapshotsTyped
  DEF IInv, VersionInv, Snapshots, Snapshot
<1>5. FreshInv'
  <2> SUFFICES ASSUME NEW b \in Admins, call'[b] # "idle", made'[b].body = "broken"
               PROVE  /\ advertised # made'[b]
                      /\ \A s \in Streams : held[s] # made'[b]
                      /\ \A s \in Streams : \A resp \in Range(outbound[s]) :
                            resp.snap # made'[b]
                      /\ \A c \in Admins \ {b} : made'[c] # made'[b]
    BY <1>2 DEF FreshInv, wireVars, taskVars
  <2>1. CASE b = a
    BY <1>1, <1>4, <2>1 DEF Known, IInv, TypeOK
  <2>2. CASE b # a
    <3>1. call[b] # "idle" /\ made'[b] = made[b] /\ made[b].body = "broken"
      BY <1>1, <2>2 DEF IInv, TypeOK
    <3>2. made[b] # new
      BY <1>4 DEF Known
    <3> QED BY <1>1, <3>1, <3>2 DEF QuietInv, FreshInv, IInv, TypeOK
  <2> QED BY <2>1, <2>2
<1>6. sent_version \in [Streams -> [Types -> Nat]]
  BY DEF IInv, TypeOK, StreamTypeOK
<1> QED BY <1>1, <1>2, <1>3, <1>5, <1>6, AdminQuiet

LEMMA FinishQuiet ==
    ASSUME IInv, QuietInv, NEW a \in Admins, Finish(a)
    PROVE  QuietInv'
<1>1. version \in Nat /\ sent_version \in [Streams -> [Types -> Nat]]
  BY DEF IInv, TypeOK, StreamTypeOK
<1>2. CASE RecordGood(a)
  <2>1. UNCHANGED <<advertised, wireVars, taskVars, envoyVars, version, made>>
    BY <1>2 DEF RecordGood, streamVars, watchVars
  <2>2. \A v \in Nat : Buried(v) => Buried(v)'
    BY <1>2, <2>1 DEF RecordGood, Buried, IInv, TypeOK, taskVars
  <2>3. FreshInv'
    BY <1>2, <2>1 DEF RecordGood, QuietInv, FreshInv, IInv, TypeOK, wireVars, taskVars
  <2> QED BY <1>1, <2>1, <2>2, <2>3, AdminQuiet
<1>3. CASE Publish(a)
  <2>1. /\ UNCHANGED <<wireVars, taskVars, envoyVars, version, last_good>>
        /\ call[a] = "send"
        /\ call' = [call EXCEPT ![a] = "idle"]
        /\ made' = [made EXCEPT ![a] = NoSnap]
        /\ advertised' = made[a]
    BY <1>3 DEF Publish, WatchSend, Receivers
  <2>2. \A v \in Nat : Buried(v) => Buried(v)' /\ advertised'.version # v
    BY <2>1 DEF Buried, IInv, TypeOK, taskVars
  <2>3. FreshInv'
    <3> SUFFICES ASSUME NEW b \in Admins, call'[b] # "idle", made'[b].body = "broken"
                 PROVE  /\ advertised' # made'[b]
                        /\ \A s \in Streams : held[s] # made'[b]
                        /\ \A s \in Streams : \A resp \in Range(outbound[s]) :
                              resp.snap # made'[b]
                        /\ \A c \in Admins \ {b} : made'[c] # made'[b]
      BY <2>1 DEF FreshInv, wireVars, taskVars
    <3>1. b # a /\ call[b] # "idle" /\ made'[b] = made[b] /\ made[b] \in Snapshot
      BY <2>1 DEF IInv, TypeOK, CallInv
    <3>2. made[b] # NoSnap
      BY <3>1, NoSnapAssumption
    <3> QED BY <2>1, <3>1, <3>2 DEF QuietInv, FreshInv, IInv, TypeOK
  <2> QED BY <1>1, <2>1, <2>2, <2>3, AdminQuiet
<1> QED BY <1>2, <1>3 DEF Finish

-----------------------------------------------------------------------------
(* The task. *)

\* A step of tasks that are between reading a request and sending a response.
LocalStep ==
    /\ UNCHANGED <<advertised, up, outbound, sent_version, envoyVars, controlVars>>
    /\ \A r \in Streams :
          /\ pc'[r] \in {"unused", "closed"} <=> pc[r] \in {"unused", "closed"}
          /\ pc'[r] = "rollback" <=> pc[r] = "rollback"
          /\ pc'[r] = "rollback" => held'[r] = held[r]
          /\ held'[r] \in {held[r], advertised, NoSnap}

\* Requests are lost only when their types are seen, and none of them a NACK.
RequestsSeen ==
    \A r \in Streams :
        /\ subscribed[r] \subseteq subscribed'[r]
        /\ \A req \in Range(inbound[r]) :
              \/ req \in Range(inbound'[r])
              \/ ~req.error /\ req.type \in subscribed'[r]

LEMMA LocalStepQuiet ==
    ASSUME IInv, QuietInv, LocalStep, RequestsSeen
    PROVE  QuietInv'
<1> USE DEF QuietInv, envoyVars, controlVars, LocalStep, RequestsSeen
<1>1. SentInv'
  <2> SUFFICES ASSUME NEW s \in Streams, NEW t \in Types
               PROVE  /\ sent_version[s][t] <= version
                      /\ up[s] => (Reached(s, t) \/ Refused(s, t))'
    BY DEF SentInv
  <2>1. Reached(s, t) => Reached(s, t)'
    BY DEF Reached
  <2>2. Buried(sent_version[s][t]) => Buried(sent_version[s][t])'
    BY DEF Buried
  <2>3. Refused(s, t) => Refused(s, t)'
    BY <2>2 DEF Refused
  <2> QED BY <2>1, <2>3 DEF SentInv
<1>2. AskedInv'
  BY DEF AskedInv
<1>3. LinkInvariant'
  BY DEF LinkInvariant
<1>4. FreshInv'
  <2>1. \A a \in Admins : call[a] # "idle" => made[a] # NoSnap
    BY NoSnapAssumption DEF IInv, CallInv
  <2> QED BY <2>1 DEF FreshInv
<1> QED BY <1>1, <1>2, <1>3, <1>4

LEMMA LocalQuiet ==
    ASSUME IInv, QuietInv, NEW s \in Streams, UNCHANGED <<envoyVars, controlVars>>,
           \/ ReceiveSubscription(s) \/ ReceiveAck(s) \/ WatchChanged(s)
           \/ \E t \in Types : PushSkip(s, t)
    PROVE  QuietInv'
<1>1. LocalStep
  <2> USE DEF IInv, TypeOK, StreamTypeOK, watchVars, wireVars, Visit, LocalStep
  <2>1. CASE ReceiveSubscription(s)
    BY <2>1 DEF ReceiveSubscription, Take
  <2>2. CASE ReceiveAck(s)
    BY <2>2 DEF ReceiveAck, Take
  <2>3. CASE WatchChanged(s)
    BY <2>3 DEF WatchChanged
  <2>4. ASSUME NEW t \in Types, PushSkip(s, t) PROVE LocalStep
    BY <2>4 DEF PushSkip
  <2> QED BY <2>1, <2>2, <2>3, <2>4
<1>2. RequestsSeen
  <2>1. CASE ReceiveSubscription(s) \/ ReceiveAck(s)
    <3>1. Take(s) /\ ~Head(inbound[s]).error
      BY <2>1 DEF ReceiveSubscription, ReceiveAck
    <3> QED BY <3>1, TakeRange DEF RequestsSeen, IInv
  <2>2. CASE WatchChanged(s) \/ \E t \in Types : PushSkip(s, t)
    <3>1. UNCHANGED <<inbound, subscribed>>
      BY <2>2 DEF WatchChanged, PushSkip, wireVars
    <3> QED BY <3>1 DEF RequestsSeen
  <2> QED BY <2>1, <2>2
<1> QED BY <1>1, <1>2, LocalStepQuiet

LEMMA PushSendQuiet ==
    ASSUME IInv, QuietInv, NEW s \in Streams, NEW t \in Types, PushSend(s, t),
           UNCHANGED <<envoyVars, controlVars>>
    PROVE  QuietInv'
<1> DEFINE resp == BuildResponse(held[s], t)
<1> USE DEF QuietInv, envoyVars, controlVars
<1>1. /\ held[s] \in Snapshot /\ held[s] \in Snapshots
      /\ resp \in Responses(Snapshot)
      /\ resp.type = t /\ resp.snap = held[s]
  BY NoSnapAssumption
  DEF IInv, StreamInv, HeldInv, PushSend, BuildResponse, Responses, Snapshots, Known
<1>2. /\ outbound[s] \in Seq(Responses(Snapshot))
      /\ sent_version[s] \in [Types -> Nat]
      /\ outbound' = [outbound EXCEPT ![s] = Append(outbound[s], resp)]
      /\ sent_version' = [sent_version EXCEPT ![s][t] = held[s].version]
      /\ UNCHANGED <<advertised, up, inbound, subscribed>>
      /\ pc[s] = "push" /\ pc'[s] \in {"select", "push"}
      /\ \A r \in Streams \ {s} : pc'[r] = pc[r] /\ held'[r] = held[r]
      /\ held'[s] \in {held[s], NoSnap}
  BY DEF IInv, TypeOK, StreamTypeOK, PushSend, Visit, watchVars
<1>3. \A r \in Streams : outbound'[r] =
         IF r = s THEN Append(outbound[s], resp) ELSE outbound[r]
  BY <1>2 DEF IInv, TypeOK, StreamTypeOK
<1>4. \A r \in Streams, u \in Types : sent_version'[r][u] =
         IF r = s /\ u = t THEN held[s].version ELSE sent_version[r][u]
  BY <1>2 DEF IInv, TypeOK, StreamTypeOK
<1> HIDE DEF resp
<1>5. \A v : Buried(v) => Buried(v)'
  BY <1>2 DEF Buried
<1>6. SentInv'
  <2> SUFFICES ASSUME NEW r \in Streams, NEW u \in Types
               PROVE  /\ sent_version'[r][u] <= version
                      /\ up[r] => (Reached(r, u) \/ Refused(r, u))'
    BY <1>2 DEF SentInv
  <2>1. CASE r = s /\ u = t
    <3>1. held[s].version <= version
      BY <1>1 DEF IInv, VersionInv
    <3>2. LastIs(outbound'[s], t, held[s].version)
      BY <1>1, <1>2, <1>3, AppendLast
    <3> QED BY <1>4, <2>1, <3>1, <3>2 DEF Reached
  <2>2. CASE r = s /\ u # t
    <3>1. /\ NoneOf(outbound[s], u) => NoneOf(outbound'[s], u)
          /\ LastIs(outbound[s], u, sent_version[s][u]) =>
                LastIs(outbound'[s], u, sent_version[s][u])
      <4>1. outbound'[s] = Append(outbound[s], resp) /\ resp.type # u
        BY <1>1, <1>3, <2>2
      <4> DEFINE v == sent_version[s][u]
      <4> HIDE DEF v
      <4>2. /\ NoneOf(outbound[s], u) => NoneOf(Append(outbound[s], resp), u)
            /\ LastIs(outbound[s], u, v) => LastIs(Append(outbound[s], resp), u, v)
        BY <1>1, <1>2, <4>1, AppendLast
      <4> QED BY <4>1, <4>2 DEF v
    <3>2. sent_version'[s][u] = sent_version[s][u]
      BY <1>4, <2>2
    <3>3. Reached(s, u) => Reached(s, u)'
      BY <3>1, <3>2 DEF Reached
    <3>4. Refused(s, u) => Refused(s, u)'
      BY <1>2, <1>5, <3>1, <3>2 DEF Refused
    <3> QED BY <2>2, <3>2, <3>3, <3>4 DEF SentInv
  <2>3. CASE r # s
    <3>1. sent_version'[r][u] = sent_version[r][u] /\ outbound'[r] = outbound[r]
      BY <1>3, <1>4, <2>3
    <3>2. Reached(r, u) => Reached(r, u)'
      BY <3>1 DEF Reached
    <3>3. Refused(r, u) => Refused(r, u)'
      BY <1>2, <1>5, <2>3, <3>1 DEF Refused
    <3> QED BY <3>1, <3>2, <3>3 DEF SentInv
  <2> QED BY <2>1, <2>2, <2>3
<1>7. AskedInv'
  BY <1>2 DEF AskedInv
<1>8. LinkInvariant'
  <2>1. \A r \in Streams : pc'[r] \in {"unused", "closed"} =>
           r # s /\ pc[r] \in {"unused", "closed"}
    BY <1>2
  <2> QED BY <1>2, <1>4, <2>1 DEF LinkInvariant
<1>9. FreshInv'
  <2>1. Range(outbound'[s]) = Range(outbound[s]) \cup {resp}
    BY <1>1, <1>2, <1>3, AppendRange
  <2>2. \A a \in Admins : call[a] # "idle" => made[a] # NoSnap
    BY NoSnapAssumption DEF IInv, CallInv
  <2> QED BY <1>1, <1>2, <1>3, <2>1, <2>2 DEF FreshInv
<1> QED BY <1>6, <1>7, <1>8, <1>9

\* The task of a lost stream ends.
LEMMA CloseQuiet ==
    ASSUME IInv, QuietInv, NEW s \in Streams, Close(s), ~up[s],
           UNCHANGED <<envoyVars, controlVars>>
    PROVE  QuietInv'
<1> USE DEF QuietInv, envoyVars, controlVars
<1>1. /\ UNCHANGED <<advertised, up>>
      /\ pc'[s] = "closed" /\ held'[s] = NoSnap
      /\ outbound'[s] = <<>> /\ \A t \in Types : sent_version'[s][t] = 0
      /\ \A r \in Streams \ {s} :
            /\ pc'[r] = pc[r] /\ held'[r] = held[r]
            /\ inbound'[r] = inbound[r] /\ outbound'[r] = outbound[r]
            /\ subscribed'[r] = subscribed[r] /\ sent_version'[r] = sent_version[r]
  BY DEF Close, watchVars, IInv, TypeOK, StreamTypeOK
<1>2. \A v : Buried(v) => Buried(v)'
  BY <1>1 DEF Buried
<1>3. SentInv'
  <2> SUFFICES ASSUME NEW r \in Streams, NEW u \in Types
               PROVE  /\ sent_version'[r][u] <= version
                      /\ up[r] => (Reached(r, u) \/ Refused(r, u))'
    BY <1>1 DEF SentInv
  <2>1. CASE r = s
    BY <1>1, <2>1 DEF IInv, TypeOK
  <2>2. CASE r # s
    <3>1. Reached(r, u) => Reached(r, u)'
      BY <1>1, <2>2 DEF Reached
    <3>2. Refused(r, u) => Refused(r, u)'
      BY <1>1, <1>2, <2>2 DEF Refused
    <3> QED BY <1>1, <2>2, <3>1, <3>2 DEF SentInv
  <2> QED BY <2>1, <2>2
<1>4. AskedInv'
  BY <1>1 DEF AskedInv, LinkInvariant
<1>5. LinkInvariant'
  BY <1>1 DEF LinkInvariant
<1>6. FreshInv'
  <2>1. \A a \in Admins : call[a] # "idle" => made[a] # NoSnap
    BY NoSnapAssumption DEF IInv, CallInv
  <2> QED BY <1>1, <2>1, EmptyRange DEF FreshInv
<1> QED BY <1>3, <1>4, <1>5, <1>6

\* The NACK arm: what is about to be rolled back to is not what was refused.
LEMMA NackQuiet ==
    ASSUME IInv, QuietInv, NEW s \in Streams, ReceiveNack(s)
    PROVE  QuietInv'
<1> USE DEF QuietInv
<1>1. /\ UNCHANGED <<advertised, up, outbound, sent_version, envoyVars, controlVars>>
      /\ pc[s] = "select" /\ pc'[s] = "rollback" /\ held'[s] = last_good
      /\ \A r \in Streams \ {s} :
            pc'[r] = pc[r] /\ held'[r] = held[r] /\ inbound'[r] = inbound[r]
  BY DEF ReceiveNack, Take, watchVars, IInv, TypeOK, StreamTypeOK
<1>2. \A v : Buried(v) => Buried(v)'
  BY <1>1 DEF Buried, controlVars
<1>3. SentInv'
  <2> SUFFICES ASSUME NEW r \in Streams, NEW u \in Types
               PROVE  /\ sent_version[r][u] <= version
                      /\ up[r] => (Reached(r, u) \/ Refused(r, u))'
    BY <1>1 DEF SentInv, controlVars
  <2>1. Reached(r, u) => Reached(r, u)'
    BY <1>1 DEF Reached, envoyVars
  <2>2. Refused(r, u) => Refused(r, u)'
    BY <1>1, <1>2 DEF Refused
  <2> QED BY <2>1, <2>2 DEF SentInv
<1>4. AskedInv'
  <2>1. requested' = requested /\ Take(s) /\ StreamInv(Snapshot)
    BY DEF ReceiveNack, envoyVars, IInv
  <2>2. \A r \in Streams :
           /\ subscribed[r] \subseteq subscribed'[r]
           /\ \A req \in Range(inbound[r]) :
                 req \in Range(inbound'[r]) \/ req.type \in subscribed'[r]
    BY <2>1, TakeRange
  <2> QED BY <2>1, <2>2 DEF AskedInv
<1>5. LinkInvariant'
  <2>1. \A r \in Streams : pc'[r] \in {"unused", "closed"} => pc[r] \in {"unused", "closed"}
    BY <1>1
  <2>2. \A r \in Streams : up[r] => pc'[r] \notin {"unused", "closed"}
    BY <1>1 DEF LinkInvariant
  <2> QED BY <1>1, <2>1, <2>2 DEF LinkInvariant, envoyVars
<1>6. FreshInv'
  <2>1. last_good.body = "good"
    BY DEF IInv, RollbackTargetIsGood
  <2> QED BY <1>1, <2>1 DEF FreshInv, controlVars
<1> QED BY <1>3, <1>4, <1>5, <1>6

LEMMA RollBackQuiet ==
    ASSUME IInv, QuietInv, NEW s \in Streams, RollBack(s)
    PROVE  QuietInv'
<1> USE DEF QuietInv
<1>1. /\ UNCHANGED <<up, inbound, outbound, subscribed, sent_version, envoyVars, controlVars>>
      /\ advertised' = held[s]
      /\ pc[s] = "rollback" /\ pc'[s] = "select" /\ held'[s] = NoSnap
      /\ \A r \in Streams \ {s} : pc'[r] = pc[r] /\ held'[r] = held[r]
  BY DEF RollBack, WatchSend, Receivers, wireVars, IInv, TypeOK, StreamTypeOK
<1>2. \A v : Buried(v) => Buried(v)' /\ advertised'.version # v
  BY <1>1 DEF Buried, controlVars
<1>3. SentInv'
  <2> SUFFICES ASSUME NEW r \in Streams, NEW u \in Types
               PROVE  /\ sent_version[r][u] <= version
                      /\ up[r] => (Reached(r, u) \/ Refused(r, u))'
    BY <1>1 DEF SentInv, controlVars
  <2>1. Reached(r, u) => Reached(r, u)'
    BY <1>1 DEF Reached, envoyVars
  <2>2. Refused(r, u) => Refused(r, u)'
    BY <1>1, <1>2 DEF Refused
  <2> QED BY <2>1, <2>2 DEF SentInv
<1>4. AskedInv'
  BY <1>1 DEF AskedInv, envoyVars
<1>5. LinkInvariant'
  <2>1. \A r \in Streams : pc'[r] \in {"unused", "closed"} => pc[r] \in {"unused", "closed"}
    BY <1>1
  <2>2. \A r \in Streams : up[r] => pc'[r] \notin {"unused", "closed"}
    BY <1>1 DEF LinkInvariant
  <2> QED BY <1>1, <2>1, <2>2 DEF LinkInvariant, envoyVars
<1>6. FreshInv'
  <2>1. \A a \in Admins : call[a] # "idle" => made[a] # NoSnap
    BY NoSnapAssumption DEF IInv, CallInv
  <2> QED BY <1>1, <2>1 DEF FreshInv, controlVars
<1> QED BY <1>3, <1>4, <1>5, <1>6

-----------------------------------------------------------------------------
(* Envoy. *)

LEMMA SubscribeQuiet ==
    ASSUME IInv, QuietInv, NEW s \in Streams, NEW t \in Types, Subscribe(s, t),
           UNCHANGED controlVars
    PROVE  QuietInv'
<1> DEFINE new == Subscription(t)
<1> USE DEF QuietInv, controlVars
<1>1. /\ UNCHANGED <<advertised, up, outbound, pc, held, subscribed, sent_version, running>>
      /\ inbound' = [inbound EXCEPT ![s] = Append(inbound[s], new)]
      /\ requested' = [requested EXCEPT ![s] = @ \cup {t}]
      /\ up[s]
  BY DEF Subscribe, watchVars, taskVars
<1>2. new \in Requests /\ new.type = t
  BY DEF Subscription, Requests
<1> HIDE DEF new
<1>3. /\ inbound \in [Streams -> Seq(Requests)]
      /\ requested \in [Streams -> SUBSET Types]
  BY DEF IInv, TypeOK, StreamTypeOK, EnvoyTypeOK
<1>4. /\ Range(inbound'[s]) = Range(inbound[s]) \cup {new}
      /\ \A r \in Streams \ {s} : inbound'[r] = inbound[r]
  <2>1. Range(Append(inbound[s], new)) = Range(inbound[s]) \cup {new}
    BY <1>2, <1>3, AppendRange
  <2> QED BY <1>1, <1>3, <2>1
<1>5. SentInv'
  <2> SUFFICES ASSUME NEW r \in Streams, NEW u \in Types
               PROVE  /\ sent_version[r][u] <= version
                      /\ up[r] => (Reached(r, u) \/ Refused(r, u))'
    BY <1>1 DEF SentInv
  <2>1. Reached(r, u) => Reached(r, u)'
    BY <1>1 DEF Reached
  <2>2. Refused(r, u) => Refused(r, u)'
    BY <1>1, <1>4 DEF Refused, Buried
  <2> QED BY <2>1, <2>2 DEF SentInv
<1>6. AskedInv'
  BY <1>1, <1>2, <1>3, <1>4 DEF AskedInv
<1>7. LinkInvariant'
  BY <1>1, <1>3 DEF LinkInvariant
<1>8. FreshInv'
  BY <1>1 DEF FreshInv
<1> QED BY <1>5, <1>6, <1>7, <1>8

\* What every reply keeps: of the types of other responses, and of the streams
\* of other Envoys, the same is known as before.
LEMMA ReplyQuiet ==
    ASSUME IInv, QuietInv, NEW s \in Streams, NEW req \in Requests, Reply(s, req),
           UNCHANGED controlVars,
           \A r \in Streams, u \in Types :
              (r # s /\ up[r]) \/ u # Head(outbound[s]).type =>
                 running'[Owner[r]][u] = running[Owner[r]][u],
           \A t \in Types :
              /\ t = Head(outbound[s]).type
              /\ NoneOf(outbound'[s], t)
              /\ Head(outbound[s]).snap.version = sent_version[s][t]
              => Reached(s, t)' \/ Refused(s, t)'
    PROVE  QuietInv'
<1> DEFINE resp == Head(outbound[s])
<1> USE DEF QuietInv, controlVars
<1>1. /\ UNCHANGED <<advertised, pc, held, subscribed, sent_version, up, requested>>
      /\ outbound' = [outbound EXCEPT ![s] = Tail(outbound[s])]
      /\ inbound' = [inbound EXCEPT ![s] = Append(inbound[s], req)]
      /\ outbound[s] # <<>> /\ up[s]
  BY DEF Reply, watchVars, taskVars
<1>2. /\ inbound \in [Streams -> Seq(Requests)]
      /\ outbound \in [Streams -> Seq(Responses(Snapshot))]
  BY DEF IInv, TypeOK, StreamTypeOK
<1>3. \A r \in Streams : Range(inbound[r]) \subseteq Range(inbound'[r])
  <2>1. Range(Append(inbound[s], req)) = Range(inbound[s]) \cup {req}
    BY <1>2, AppendRange
  <2> QED BY <1>1, <1>2, <2>1
<1>4. SentInv'
  <2> SUFFICES ASSUME NEW r \in Streams, NEW u \in Types
               PROVE  /\ sent_version[r][u] <= version
                      /\ up[r] => (Reached(r, u) \/ Refused(r, u))'
    BY <1>1 DEF SentInv
  <2> SUFFICES ASSUME up[r] PROVE Reached(r, u)' \/ Refused(r, u)'
    BY DEF SentInv
  <2>1. CASE r # s
    <3>1. outbound'[r] = outbound[r] /\ running'[Owner[r]][u] = running[Owner[r]][u]
      BY <1>1, <1>2, <2>1
    <3>2. Reached(r, u) => Reached(r, u)'
      BY <1>1, <3>1 DEF Reached
    <3>3. Refused(r, u) => Refused(r, u)'
      BY <1>1, <1>3, <3>1 DEF Refused, Buried
    <3> QED BY <3>2, <3>3 DEF SentInv
  <2>2. CASE r = s
    <3> DEFINE v == sent_version[s][u]
    <3>1. /\ NoneOf(outbound[s], u) => NoneOf(outbound'[s], u) /\ resp.type # u
          /\ LastIs(outbound[s], u, v) =>
                \/ LastIs(outbound'[s], u, v)
                \/ NoneOf(outbound'[s], u) /\ resp.type = u /\ resp.snap.version = v
      <4> HIDE DEF v
      <4>1. outbound'[s] = Tail(outbound[s])
        BY <1>1, <1>2
      <4> QED BY <1>1, <1>2, <4>1, TailLast
    <3>2. CASE v = 0
      BY <1>1, <2>2, <3>2 DEF Reached
    <3>3. CASE LastIs(outbound[s], u, v)
      <4>1. CASE LastIs(outbound'[s], u, v)
        BY <1>1, <2>2, <4>1 DEF Reached
      <4>2. CASE NoneOf(outbound'[s], u) /\ resp.type = u /\ resp.snap.version = v
        BY <2>2, <4>2
      <4> QED BY <3>1, <3>3, <4>1, <4>2
    <3>4. CASE NoneOf(outbound[s], u)
      <4>1. running'[Owner[s]][u] = running[Owner[s]][u]
        BY <3>1, <3>4
      <4>2. Reached(s, u) => Reached(s, u)'
        BY <1>1, <3>1, <3>4, <4>1 DEF Reached
      <4>3. Refused(s, u) => Refused(s, u)'
        BY <1>1, <1>3, <3>1, <3>4 DEF Refused, Buried
      <4> QED BY <2>2, <4>2, <4>3 DEF SentInv
    <3> QED BY <2>2, <3>2, <3>3, <3>4 DEF SentInv, Reached, Refused
  <2> QED BY <2>1, <2>2
<1>5. AskedInv'
  <2> SUFFICES ASSUME NEW r \in Streams, NEW u \in requested[r], u \notin subscribed[r]
               PROVE  \E x \in Range(inbound'[r]) : x.type = u
    BY <1>1 DEF AskedInv
  <2>1. PICK x \in Range(inbound[r]) : x.type = u
    BY DEF AskedInv
  <2> QED BY <1>3, <2>1
<1>6. LinkInvariant'
  BY <1>1 DEF LinkInvariant
<1>7. FreshInv'
  <2>1. \A r \in Streams : Range(outbound'[r]) \subseteq Range(outbound[r])
    BY <1>1, <1>2, TailRange
  <2> QED BY <1>1, <2>1 DEF FreshInv
<1> QED BY <1>4, <1>5, <1>6, <1>7

\* A type is quiet at Envoy once the last response of it is accepted, and a
\* refusal is on its way back when the last one is refused.
LEMMA EnvoyQuiet ==
    ASSUME IInv, QuietInv, NEW s \in Streams, Envoy(s)
    PROVE  QuietInv'
<1>1. ASSUME outbound[s] # <<>>, UNCHANGED controlVars,
             \/ Accept(s)
             \/ Reject(s) /\ ~Valid(Head(outbound[s]))
      PROVE  QuietInv'
  <2> DEFINE resp == Head(outbound[s])
             ack  == Ack(resp.type, NonceOf(resp))
             nack == Nack(resp.type, NonceOf(resp))
  <2>1. /\ outbound[s] \in Seq(Responses(Snapshot))
        /\ inbound \in [Streams -> Seq(Requests)]
        /\ running \in [Envoys -> [Types -> Snapshot \cup {NoSnap}]]
        /\ Owner \in [Streams -> Envoys]
    BY EnvoyAssumption DEF IInv, TypeOK, StreamTypeOK, EnvoyTypeOK
  <2>2. resp \in Responses(Snapshot) /\ resp \in Range(outbound[s])
    BY <1>1, <2>1, TailRange
  <2>3. /\ resp.type \in Types /\ resp.snap \in Snapshot /\ resp.snap.version \in Nat
        /\ resp.snap \in Snapshots
    BY <2>2, NoSnapAssumption DEF Responses, Snapshot, Snapshots, Known
  <2>4. ack \in Requests /\ nack \in Requests /\ nack.error
    BY <2>3 DEF Ack, Nack, NonceOf, Requests
  <2>5. CASE Accept(s)
    <3>1. /\ Reply(s, ack) /\ up[s]
          /\ running' = [running EXCEPT ![Owner[s]][resp.type] = resp.snap]
          /\ sent_version' = sent_version
      BY <2>5 DEF Accept, Reply, taskVars
    <3> HIDE DEF resp, ack
    <3>2. \A r \in Streams, u \in Types : (r # s /\ up[r]) \/ u # resp.type =>
             running'[Owner[r]][u] = running[Owner[r]][u]
      <4>1. \A r \in Streams : r # s /\ up[r] => Owner[r] # Owner[s]
        BY <3>1 DEF QuietInv, LinkInvariant
      <4> QED BY <2>1, <3>1, <4>1
    <3>3. running'[Owner[s]][resp.type] = resp.snap
      BY <2>1, <2>3, <3>1
    <3>4. \A t \in Types :
             /\ t = resp.type
             /\ NoneOf(outbound'[s], t)
             /\ resp.snap.version = sent_version[s][t]
             => Reached(s, t)'
      BY <2>3, <3>1, <3>3 DEF Reached, Snapshots
    <3> QED BY <1>1, <2>4, <3>1, <3>2, <3>4, ReplyQuiet DEF resp
  <2>6. CASE Reject(s) /\ ~Valid(resp)
    <3>1. /\ Reply(s, nack)
          /\ running' = running
          /\ UNCHANGED <<advertised, sent_version, held, pc>>
          /\ inbound' = [inbound EXCEPT ![s] = Append(inbound[s], nack)]
      BY <2>6 DEF Reject, Reply, taskVars, watchVars
    <3>2. resp.snap.body = "broken"
      BY <2>3, <2>6 DEF Valid, Snapshot
    <3> HIDE DEF resp, nack
    <3>3. Range(inbound'[s]) = Range(inbound[s]) \cup {nack}
      BY <2>1, <2>4, <3>1, AppendRange
    <3>4. Buried(resp.snap.version)
      <4>1. last_good.version # resp.snap.version
        BY <2>3, <3>2, NoSnapAssumption
        DEF IInv, TypeOK, RollbackTargetIsGood, VersionInv, VersionIdentifiesSnapshot,
            Snapshots, Known
      <4>2. ASSUME NEW r \in Streams, pc[r] = "rollback"
            PROVE  held[r].version # resp.snap.version
        <5>1. held[r] \in Snapshots /\ held[r].body = "good"
          BY <4>2, NoSnapAssumption
          DEF IInv, StreamInv, HeldInv, RollbackTargetIsGood, Snapshots, Known
        <5> QED BY <2>3, <3>2, <5>1 DEF IInv, VersionInv, VersionIdentifiesSnapshot, Snapshots
      <4>3. ASSUME NEW a \in Admins, call[a] # "idle"
            PROVE  made[a].version # resp.snap.version
        <5>1. made[a] \in Snapshots
          BY <4>3, NoSnapAssumption DEF IInv, CallInv, Snapshots, Known
        <5>2. made[a] = resp.snap => FALSE
          BY <2>2, <3>2, <4>3 DEF QuietInv, FreshInv, resp
        <5> QED BY <2>3, <5>1, <5>2 DEF IInv, VersionInv, VersionIdentifiesSnapshot, Snapshots
      <4> QED BY <4>1, <4>2, <4>3 DEF Buried
    <3>5. \A t \in Types :
             /\ t = resp.type
             /\ NoneOf(outbound'[s], t)
             /\ resp.snap.version = sent_version[s][t]
             => Refused(s, t)'
      BY <1>1, <2>4, <3>1, <3>3, <3>4 DEF Refused, Buried, controlVars
    <3> QED BY <1>1, <2>4, <3>1, <3>5, ReplyQuiet DEF resp
  <2> QED BY <1>1, <2>5, <2>6
<1>2. CASE \E t \in Types : Subscribe(s, t)
  BY <1>2, SubscribeQuiet DEF Envoy
<1> QED BY <1>1, <1>2 DEF Envoy, Accept, Reject, Reply

LEMMA LinkQuiet ==
    ASSUME IInv, QuietInv, NEW s \in Streams, Link(s) \/ Drop(s)
    PROVE  QuietInv'
<1> USE DEF QuietInv
<1>1. CASE Link(s)
  <2>1. /\ UNCHANGED <<advertised, inbound, outbound, held, subscribed, sent_version,
                       envoyVars, controlVars>>
        /\ pc[s] = "unused"
        /\ pc' = [pc EXCEPT ![s] = "select"]
        /\ up' = [up EXCEPT ![s] = TRUE]
        /\ \A r \in Streams : Owner[r] = Owner[s] => ~up[r]
    BY <1>1 DEF Link, Connect, Connected, Open, watchVars
  <2>2. /\ pc' \in [Streams -> {"unused", "select", "push", "rollback", "closed"}]
        /\ pc'[s] = "select" /\ up'[s]
        /\ \A r \in Streams \ {s} : pc'[r] = pc[r] /\ up'[r] = up[r]
    BY <2>1 DEF IInv, TypeOK, StreamTypeOK
  <2>3. SentInv'
    <3> SUFFICES ASSUME NEW r \in Streams, NEW u \in Types
                 PROVE  /\ sent_version[r][u] <= version
                        /\ up'[r] => (Reached(r, u) \/ Refused(r, u))'
      BY <2>1 DEF SentInv, controlVars
    <3>1. CASE r = s
      BY <2>1, <3>1 DEF Reached, LinkInvariant, SentInv
    <3>2. CASE r # s
      <4>1. Reached(r, u) => Reached(r, u)'
        BY <2>1 DEF Reached, envoyVars
      <4>2. Refused(r, u) => Refused(r, u)'
        BY <2>1, <2>2, <3>2 DEF Refused, Buried, controlVars
      <4> QED BY <2>2, <3>2, <4>1, <4>2 DEF SentInv
    <3> QED BY <3>1, <3>2
  <2>4. AskedInv' /\ FreshInv'
    BY <2>1 DEF AskedInv, FreshInv, envoyVars, controlVars
  <2>5. LinkInvariant'
    BY <2>1, <2>2 DEF LinkInvariant, envoyVars
  <2> QED BY <2>3, <2>4, <2>5
<1>2. CASE Drop(s)
  <2>1. /\ UNCHANGED <<advertised, inbound, outbound, pc, held, subscribed, sent_version,
                       running, controlVars>>
        /\ up' = [up EXCEPT ![s] = FALSE]
        /\ requested' = [requested EXCEPT ![s] = {}]
    BY <1>2 DEF Drop, Disconnect, Cut, watchVars, taskVars
  <2>2. /\ ~up'[s] /\ requested'[s] = {}
        /\ \A r \in Streams \ {s} : up'[r] = up[r] /\ requested'[r] = requested[r]
    BY <2>1 DEF IInv, TypeOK, StreamTypeOK, EnvoyTypeOK
  <2>3. SentInv'
    <3> SUFFICES ASSUME NEW r \in Streams, NEW u \in Types
                 PROVE  /\ sent_version[r][u] <= version
                        /\ up'[r] => (Reached(r, u) \/ Refused(r, u))'
      BY <2>1 DEF SentInv, controlVars
    <3>1. Reached(r, u) => Reached(r, u)'
      BY <2>1 DEF Reached
    <3>2. Refused(r, u) => Refused(r, u)'
      BY <2>1 DEF Refused, Buried, controlVars
    <3> QED BY <2>2, <3>1, <3>2 DEF SentInv
  <2>4. AskedInv' /\ FreshInv'
    BY <2>1, <2>2 DEF AskedInv, FreshInv, controlVars
  <2>5. LinkInvariant'
    BY <2>1, <2>2 DEF LinkInvariant
  <2> QED BY <2>3, <2>4, <2>5
<1> QED BY <1>1, <1>2

-----------------------------------------------------------------------------
LEMMA NextQuiet == IInv /\ QuietInv /\ [Next]_vars => QuietInv'
<1> SUFFICES ASSUME IInv, QuietInv, [Next]_vars PROVE QuietInv'
  OBVIOUS
<1>1. CASE UNCHANGED vars
  <2> USE <1>1 DEF vars, streamVars, watchVars, wireVars, taskVars, envoyVars, controlVars
  <2>1. SentInv'
    BY DEF QuietInv, SentInv, Reached, Refused, Buried
  <2>2. AskedInv' /\ LinkInvariant' /\ FreshInv'
    BY DEF QuietInv, AskedInv, LinkInvariant, FreshInv
  <2> QED BY <2>1, <2>2 DEF QuietInv
<1>2. ASSUME NEW a \in Admins, PushGood(a) \/ PushBroken(a) \/ Finish(a) PROVE QuietInv'
  BY <1>2, BuildQuiet, FinishQuiet
<1>3. ASSUME NEW s \in Streams, Task(s) PROVE QuietInv'
  BY <1>3, LocalQuiet, PushSendQuiet, CloseQuiet, NackQuiet, RollBackQuiet
  DEF Task, Push, PushFails, StreamEnds
<1>4. ASSUME NEW s \in Streams, Envoy(s) \/ Link(s) \/ Drop(s) PROVE QuietInv'
  BY <1>4, EnvoyQuiet, LinkQuiet
<1> QED BY <1>1, <1>2, <1>3, <1>4 DEF Next

\* Once nothing is left to be sent or read, what was sent last is what Envoy
\* runs, and it is what is advertised.
LEMMA QuietIsCurrent == IInv /\ QuietInv => QuietStreamRunsAdvertised
<1> SUFFICES ASSUME IInv, QuietInv, NEW s \in Streams, Quiet(s),
                    NEW t \in requested[s] \cap Served
             PROVE  running[Owner[s]][t] = advertised
  BY DEF QuietStreamRunsAdvertised
<1>1. t \in Types /\ Owner[s] \in Envoys
  BY StreamAssumption, EnvoyAssumption
<1>2. t \in subscribed[s]
  BY EmptyRange DEF Quiet, QuietInv, AskedInv
<1>3. sent_version[s][t] = advertised.version
  BY <1>2 DEF IInv, StreamInv, TaskInv, Quiet
<1>4. advertised \in Snapshot /\ advertised \in Snapshots /\ advertised.version # 0
  BY NoSnapAssumption DEF IInv, TypeOK, StreamTypeOK, Snapshot, Snapshots, Known
<1>5. ~Refused(s, t)
  BY <1>3, EmptyRange DEF Quiet, Refused
<1>6. Reached(s, t)
  BY <1>1, <1>5 DEF Quiet, QuietInv, SentInv
<1>7. /\ running[Owner[s]][t] # NoSnap
      /\ running[Owner[s]][t].version = advertised.version
  BY <1>3, <1>4, <1>6, EmptyLast DEF Quiet, Reached
<1>8. running[Owner[s]][t] \in Snapshots
  BY <1>1, <1>7, NoSnapAssumption DEF Snapshots, Known
<1> QED BY <1>4, <1>7, <1>8 DEF IInv, VersionInv, VersionIdentifiesSnapshot, Snapshots

\* Chapter 2 owes an Envoy that its quiet stream leaves it with the advertised
\* snapshot, whatever rejections, rollbacks and reconnects led there: see
\* QuietStreamRunsAdvertised.
THEOREM QuietStreamsCurrent == Spec => []QuietStreamRunsAdvertised
<1>1. Init => IInv /\ QuietInv
  BY InitIInv, InitQuiet
<1>2. IInv /\ QuietInv /\ [Next]_vars => (IInv /\ QuietInv)'
  BY NextIInv, NextQuiet
<1> QED BY <1>1, <1>2, QuietIsCurrent, PTL DEF Spec

===============================================================================
