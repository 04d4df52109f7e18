--------------------------- MODULE OrcaWeightsProofs ---------------------------
(***************************************************************************)
(* Chapter 6, for any backends, readings, streams and Envoys and any       *)
(* number of reports and restarts: every weight is one that Envoy accepts, *)
(* the task that advertised last has its own backend's weight right, and a *)
(* quiet stream's Envoy runs the weights that are advertised.              *)
(***************************************************************************)
EXTENDS OrcaWeights, SotwStreamProofs

\* A client task that is between a report and the end of recompute_and_push.
Busy(h) == client[h] \in {"recompute", "build", "send"}

\* What a task carries fits its own backend, whose reading only it can change,
\* and what is advertised fits the backend whose task advertised it, unless that
\* task has begun again.
CarryInv ==
    /\ \A h \in Hosts :
          /\ client[h] = "recompute" => util[h] # None
          /\ client[h] = "build" => Fits(weighted[h], h)
          /\ client[h] = "send" => made[h] \in Snapshot /\ Fits(made[h].body, h)
    /\ publisher # None => Busy(publisher) \/ Fits(advertised.body, publisher)

\* The inductive invariant.
IInv ==
    /\ TypeOK
    /\ StreamInv(Snapshot)
    /\ CarryInv

-----------------------------------------------------------------------------
(* Weights. *)

\* Tenths of what the clamp lets through.
LEMMA TenthInRange ==
    ASSUME NEW x \in Int, 105 <= x, x <= 10005
    PROVE  x \div 10 \in 1 .. 1000
<1> DEFINE q == x \div 10
<1>1. q \in Int /\ 10 * q <= x /\ x < 10 * q + 10
  BY Z3
<1> HIDE DEF q
<1>2. q \in 1 .. 1000
  BY <1>1
<1> QED BY <1>2 DEF q

\* weight_from_util: whatever the reading, the weight is in 1 to 1000.
LEMMA WeightInRange ==
    ASSUME NEW u \in Int \cup {NaN}
    PROVE  WeightFromUtil(u) \in 1 .. 1000
<1>1. CASE u = NaN
  BY <1>1 DEF WeightFromUtil
<1>2. CASE u # NaN
  <2> DEFINE c == Clamp(u, 0, 9900)
  <2>1. WeightFromUtil(u) = (10000 - c + 5) \div 10
    BY <1>2 DEF WeightFromUtil
  <2>2. c \in 0 .. 9900
    BY <1>2 DEF Clamp
  <2> HIDE DEF c
  <2>3. (10000 - c + 5) \div 10 \in 1 .. 1000
    <3>1. 10000 - c + 5 \in Int /\ 105 <= 10000 - c + 5 /\ 10000 - c + 5 <= 10005
      BY <2>2
    <3> QED BY <3>1, TenthInRange
  <2> QED BY <2>1, <2>3
<1> QED BY <1>1, <1>2

\* The weights of any readings on record are such that Envoy accepts them.
LEMMA WeightsTyped ==
    ASSUME NEW readings \in [Hosts -> Loads \cup {None}]
    PROVE  WeightsOf(readings) \in Weights
<1>1. ASSUME NEW h \in Hosts
      PROVE  WeightFromUtil(IF readings[h] = None THEN 5000 ELSE readings[h]) \in 1 .. 1000
  <2>1. CASE readings[h] = None
    <3>1. WeightFromUtil(5000) \in 1 .. 1000
      BY WeightInRange
    <3> QED BY <2>1, <3>1
  <2>2. CASE readings[h] # None
    <3>1. readings[h] \in Int \cup {NaN}
      BY <2>2, OrcaAssumption
    <3>2. WeightFromUtil(readings[h]) \in 1 .. 1000
      BY <3>1, WeightInRange
    <3> QED BY <2>2, <3>2
  <2> QED BY <2>1, <2>2
<1> QED BY <1>1 DEF WeightsOf, Weights

LEMMA InitialTyped == Initial \in Snapshot
<1>1. [h \in Hosts |-> None] \in [Hosts -> Loads \cup {None}]
  OBVIOUS
<1> QED BY <1>1, WeightsTyped DEF Initial, Snapshot

\* The weight of a backend that has reported is that of its reading.
LEMMA WeightsFit ==
    ASSUME NEW h \in Hosts, util[h] # None
    PROVE  Fits(WeightsOf(util), h)
BY DEF Fits, WeightsOf

LEMMA SnapshotVersioned == Versioned(Snapshot)
BY DEF Versioned, Snapshot

THEOREM InitIInv == Init => IInv
<1> SUFFICES ASSUME Init PROVE IInv
  OBVIOUS
<1>1. StreamInv(Snapshot)
  BY InitialTyped, StreamInitInv DEF Init
<1>2. Initial.body \in Weights
  BY InitialTyped DEF Snapshot
<1>3. TypeOK
  BY <1>1, <1>2 DEF TypeOK, StreamInv, Init, EnvoyInit, EnvoyTypeOK
<1>4. CarryInv
  BY DEF CarryInv, Init, StreamInit
<1> QED BY <1>1, <1>3, <1>4 DEF IInv

-----------------------------------------------------------------------------
(* Backends and client tasks. *)

\* What is left to show of a step that leaves the streams alone.
LEMMA ControlStepInv ==
    ASSUME IInv, UNCHANGED <<streamVars, envoyVars>>,
           TypeOK' , CarryInv'
    PROVE  IInv'
BY DEF IInv, StreamInv, TypeOK, StreamTypeOK, HeldInv, TaskInv, streamVars, watchVars,
       wireVars, taskVars

LEMMA BackendInv ==
    ASSUME IInv, NEW h \in Hosts, Restart(h) \/ OrcaConnect(h) \/ OrcaLost(h)
    PROVE  IInv'
<1> USE DEF IInv, TypeOK, StreamTypeOK, EnvoyTypeOK, streamVars, watchVars, wireVars,
            taskVars, envoyVars, controlVars, backendVars
<1>1. TypeOK'
  <2>1. CASE Restart(h)
    BY <2>1 DEF Restart
  <2>2. CASE OrcaConnect(h) \/ OrcaLost(h)
    BY <2>2 DEF OrcaConnect, OrcaLost, Go
  <2> QED BY <2>1, <2>2
<1>2. CarryInv'
  BY DEF Restart, OrcaConnect, OrcaLost, Go, CarryInv, Busy, Fits
<1>3. UNCHANGED <<streamVars, envoyVars>>
  BY DEF Restart, OrcaConnect, OrcaLost
<1> QED BY <1>1, <1>2, <1>3, ControlStepInv

LEMMA ObserveInv ==
    ASSUME IInv, NEW h \in Hosts, Observe(h)
    PROVE  IInv'
<1> USE DEF IInv, TypeOK, Observe, Go
<1>1. load[h] \in Loads /\ load[h] # None
  BY OrcaAssumption
<1>2. TypeOK'
  BY <1>1 DEF StreamTypeOK, EnvoyTypeOK, streamVars, watchVars, wireVars, taskVars,
              envoyVars, backendVars
<1>3. CarryInv'
  BY <1>1 DEF CarryInv, Busy, Fits, streamVars, watchVars
<1> QED BY <1>2, <1>3, ControlStepInv

LEMMA RecomputeInv ==
    ASSUME IInv, NEW h \in Hosts, Recompute(h)
    PROVE  IInv'
<1> USE DEF IInv, TypeOK, Recompute, Go
<1>1. /\ WeightsOf(util) \in Weights
      /\ Fits(WeightsOf(util), h)
  BY WeightsTyped, WeightsFit DEF CarryInv
<1>2. TypeOK'
  BY <1>1 DEF StreamTypeOK, EnvoyTypeOK, streamVars, watchVars, wireVars, taskVars,
              envoyVars, backendVars
<1>3. CarryInv'
  BY <1>1 DEF CarryInv, Busy, Fits, streamVars, watchVars
<1> QED BY <1>2, <1>3, ControlStepInv

LEMMA BuildInv ==
    ASSUME IInv, NEW h \in Hosts, Build(h)
    PROVE  IInv'
<1> DEFINE new == [version |-> version + 1, body |-> weighted[h]]
<1>1. /\ new \in Snapshot /\ new.body = weighted[h]
      /\ Initial.body \in Weights
  BY InitialTyped DEF IInv, TypeOK, Snapshot
<1>2. made' = [made EXCEPT ![h] = new]
  BY DEF Build
<1> HIDE DEF new
<1> USE DEF IInv, TypeOK, Build, Go
<1>3. TypeOK'
  BY <1>1, <1>2 DEF StreamTypeOK, EnvoyTypeOK, streamVars, watchVars, wireVars,
                    taskVars, envoyVars, backendVars
<1>4. CarryInv'
  BY <1>1, <1>2 DEF CarryInv, Busy, Fits, streamVars, watchVars
<1> QED BY <1>3, <1>4, ControlStepInv

\* main keeps a receiver, so that what the task sends is stored.
LEMMA PublishInv ==
    ASSUME IInv, NEW h \in Hosts, Publish(h)
    PROVE  IInv'
<1>1. made[h] \in Snapshot /\ Fits(made[h].body, h)
  BY DEF IInv, CarryInv, Publish, Go
<1>2. advertised' = made[h]
  BY DEF Publish, WatchSend, Receivers
<1>3. StreamInv(Snapshot)'
  <2>1. WatchSend(made[h]) /\ UNCHANGED <<wireVars, taskVars>>
    BY DEF Publish
  <2> QED BY <1>1, <2>1, WatchSendInv DEF IInv
<1>4. TypeOK'
  BY <1>3 DEF IInv, TypeOK, StreamInv, EnvoyTypeOK, Publish, Go, envoyVars, backendVars
<1>5. CarryInv'
  BY <1>1, <1>2 DEF IInv, TypeOK, CarryInv, Busy, Fits, Publish, Go
<1> QED BY <1>3, <1>4, <1>5 DEF IInv

-----------------------------------------------------------------------------
(* Streams and Envoy. *)

\* What is left to show of a step that leaves readings and advertisement alone.
LEMMA StreamStepInv ==
    ASSUME IInv, UNCHANGED <<backendVars, controlVars, watchVars>>,
           StreamInv(Snapshot)', EnvoyTypeOK(Snapshot)'
    PROVE  IInv'
<1>1. TypeOK'
  BY DEF IInv, TypeOK, StreamInv, backendVars, controlVars
<1>2. CarryInv'
  BY DEF IInv, CarryInv, Busy, Fits, controlVars, watchVars
<1> QED BY <1>1, <1>2 DEF IInv

LEMMA ReceiveNackInv ==
    ASSUME StreamInv(Snapshot), NEW s \in Streams, ReceiveNack(s)
    PROVE  StreamInv(Snapshot)'
<1>1. Take(s)
  BY DEF ReceiveNack
<1>2. StreamTypeOK(Snapshot)'
  BY <1>1, TakeFacts DEF StreamInv, StreamTypeOK, ReceiveNack, Take, watchVars
<1>3. HeldInv(Snapshot)'
  BY DEF StreamInv, HeldInv, ReceiveNack
<1>4. subscribed' = subscribed
  <2>1. Head(inbound[s]).type \in subscribed[s]
    BY <1>1, TakeFacts DEF StreamInv, TaskInv, ReceiveNack
  <2> QED BY <1>1, <2>1 DEF StreamInv, StreamTypeOK, Take
<1>5. ASSUME NEW r \in Streams PROVE TaskInv(r)'
  BY <1>1, <1>4, <1>5, TakeFacts DEF StreamInv, TaskInv, ReceiveNack, Take, watchVars
<1> QED BY <1>2, <1>3, <1>5 DEF StreamInv

LEMMA ServeInv ==
    ASSUME IInv, NEW s \in Streams, Task(s)
    PROVE  IInv'
<1>1. StreamInv(Snapshot)'
  BY ReceiveSubscriptionInv, ReceiveAckInv, ReceiveNackInv, WatchChangedInv, PushInv,
     CloseInv, SnapshotVersioned
  DEF IInv, Task, StreamEnds
<1>2. EnvoyTypeOK(Snapshot)'
  BY DEF IInv, TypeOK, EnvoyTypeOK, Task, envoyVars
<1>3. UNCHANGED <<backendVars, controlVars, watchVars>>
  BY DEF Task, ReceiveSubscription, ReceiveAck, ReceiveNack, WatchChanged, Push,
         PushSkip, PushSend, PushFails, StreamEnds, Close, watchVars
<1> QED BY <1>1, <1>2, <1>3, StreamStepInv

LEMMA EnvoyInv ==
    ASSUME IInv, NEW s \in Streams, Envoy(s)
    PROVE  IInv'
<1>1. UNCHANGED <<backendVars, controlVars, watchVars>>
  BY DEF Envoy, Subscribe, Accept, Reject, Reply
<1>2. ASSUME NEW t \in Types, Subscribe(s, t) PROVE IInv'
  <2>1. StreamInv(Snapshot)'
    BY <1>2, SubscribeInv DEF IInv
  <2>2. EnvoyTypeOK(Snapshot)'
    BY <1>2 DEF IInv, TypeOK, EnvoyTypeOK, Subscribe
  <2> QED BY <1>1, <2>1, <2>2, StreamStepInv
<1>3. ASSUME Accept(s) \/ Reject(s) PROVE IInv'
  <2> DEFINE resp == Head(outbound[s])
  <2>1. resp \in Responses(Snapshot)
    BY <1>3, TailRange DEF IInv, TypeOK, StreamTypeOK, Accept, Reject, Reply
  <2>2. /\ resp.type \in Types
        /\ resp.snap \in Snapshot
        /\ resp.snap.version \in Nat
    BY <2>1 DEF Responses, Snapshot
  <2>3. PICK req \in Requests : Reply(s, req) /\ req.type = resp.type
    <3>1. /\ Ack(resp.type, NonceOf(resp)) \in Requests
          /\ Nack(resp.type, NonceOf(resp)) \in Requests
          /\ Ack(resp.type, NonceOf(resp)).type = resp.type
          /\ Nack(resp.type, NonceOf(resp)).type = resp.type
      BY <2>2 DEF Ack, Nack, NonceOf, Requests
    <3> QED BY <1>3, <3>1 DEF Accept, Reject
  <2>4. StreamInv(Snapshot)'
    BY <2>3, ReplyInv DEF IInv
  <2>5. /\ requested' = requested
        /\ \/ running' = running
           \/ running' = [running EXCEPT ![Owner[s]][resp.type] = resp.snap]
    BY <1>3, <2>3 DEF Accept, Reject, Reply
  <2> HIDE DEF resp
  <2>6. /\ requested \in [Streams -> SUBSET Types]
        /\ running \in [Envoys -> [Types -> Snapshot \cup {NoSnap}]]
        /\ Owner[s] \in Envoys
    BY EnvoyAssumption DEF IInv, TypeOK, EnvoyTypeOK
  <2>7. EnvoyTypeOK(Snapshot)'
    <3>1. CASE running' = running
      BY <2>5, <2>6, <3>1 DEF EnvoyTypeOK
    <3>2. CASE running' = [running EXCEPT ![Owner[s]][resp.type] = resp.snap]
      BY <2>2, <2>5, <2>6, <3>2 DEF EnvoyTypeOK
    <3> QED BY <2>5, <3>1, <3>2
  <2> QED BY <1>1, <2>4, <2>7, StreamStepInv
<1> QED BY <1>2, <1>3 DEF Envoy

LEMMA LinkInv ==
    ASSUME IInv, NEW s \in Streams, Link(s) \/ Drop(s)
    PROVE  IInv'
<1>1. StreamInv(Snapshot)'
  BY OpenInv, CutInv DEF IInv, Link, Connect, Drop, Disconnect
<1>2. UNCHANGED <<running, backendVars, controlVars, watchVars>>
  BY DEF Link, Connect, Open, Drop, Disconnect, Cut, envoyVars
<1>3. EnvoyTypeOK(Snapshot)'
  BY <1>2 DEF IInv, TypeOK, EnvoyTypeOK, envoyVars, Link, Connect, Drop, Disconnect
<1> QED BY <1>1, <1>2, <1>3, StreamStepInv

-----------------------------------------------------------------------------
\* The step theorem: every action, and a stutter, preserves the invariant.
THEOREM NextIInv == IInv /\ [Next]_vars => IInv'
<1> SUFFICES ASSUME IInv, [Next]_vars PROVE IInv'
  OBVIOUS
<1>1. CASE UNCHANGED vars
  <2>1. StreamInv(Snapshot)' /\ EnvoyTypeOK(Snapshot)'
    BY <1>1 DEF IInv, TypeOK, StreamInv, StreamTypeOK, HeldInv, TaskInv, EnvoyTypeOK,
                vars, streamVars, watchVars, wireVars, taskVars, envoyVars
  <2> QED BY <1>1, <2>1, StreamStepInv DEF vars, streamVars
<1>2. ASSUME NEW h \in Hosts, Restart(h) \/ OrcaClient(h) PROVE IInv'
  BY <1>2, BackendInv, ObserveInv, RecomputeInv, BuildInv, PublishInv DEF OrcaClient
<1>3. ASSUME NEW s \in Streams, Task(s) \/ Envoy(s) \/ Link(s) \/ Drop(s) PROVE IInv'
  BY <1>3, ServeInv, EnvoyInv, LinkInv
<1> QED BY <1>1, <1>2, <1>3 DEF Next

THEOREM Invariance == Spec => []IInv
BY InitIInv, NextIInv, PTL DEF Spec

\* Every variable keeps its type; the type of a snapshot has weights of 1 to
\* 1000 only.
THEOREM TypeCorrect == Spec => []TypeOK
<1>1. IInv => TypeOK
  BY DEF IInv
<1> QED BY <1>1, Invariance, PTL

\* recompute_and_push, run by one task per backend: the task that advertised
\* last has its own backend's weight right, as soon as it waits for a report
\* again: see LastPublisherFits.
THEOREM LastPublisherIsRight == Spec => []LastPublisherFits
<1>1. IInv => LastPublisherFits
  BY DEF IInv, TypeOK, CarryInv, Busy, LastPublisherFits
<1> QED BY <1>1, Invariance, PTL

\* What is on its way to an Envoy has weights of 1 to 1000 only.
LEMMA AllValid ==
    ASSUME IInv, NEW s \in Streams, NEW resp \in Range(outbound[s])
    PROVE  Valid(resp)
<1>1. outbound[s] \in Seq(Responses(Snapshot))
  BY DEF IInv, TypeOK, StreamTypeOK
<1>2. resp \in Responses(Snapshot)
  BY <1>1, LenProperties DEF Range
<1> QED BY <1>2 DEF Responses, Snapshot, Weights, Valid

\* No response that is on its way holds a weight of 0, which Envoy would
\* refuse, whatever the backends report.
THEOREM WeightsAccepted ==
    Spec => [](\A s \in Streams : \A resp \in Range(outbound[s]) : Valid(resp))
<1>1. IInv => \A s \in Streams : \A resp \in Range(outbound[s]) : Valid(resp)
  BY AllValid
<1> QED BY <1>1, Invariance, PTL

\* No change of weights that is advertised while a task is busy or blocked is
\* lost on it: see NoLostPush.
THEOREM PushesNotLost == Spec => []NoLostPush
<1>1. IInv => NoLostPush
  BY DEF IInv, StreamInv, TaskInv, NoLostPush
<1> QED BY <1>1, Invariance, PTL

-----------------------------------------------------------------------------
(***************************************************************************)
(* Second: versions, which the client tasks draw on their own and may      *)
(* advertise in any order, and what a quiet stream's Envoy runs.           *)
(***************************************************************************)

\* The snapshots there is a copy of.
Known ==
    {advertised}
      \cup {held[s] : s \in Streams}
      \cup {made[h] : h \in Hosts}
      \cup {running[e][t] : e \in Envoys, t \in Types}
      \cup UNION {{resp.snap : resp \in Range(outbound[s])} : s \in Streams}

Snapshots == Known \ {NoSnap}

VersionIdentifiesSnapshot ==
    \A x, y \in Snapshots : x.version = y.version => x = y

\* The counter is at the version drawn last, so that the next is new.
VersionInv ==
    /\ \A snap \in Snapshots : snap.version \in 1 .. version
    /\ VersionIdentifiesSnapshot

QuietInv == VersionInv /\ ServedInv

\* A step that draws no version and only copies snapshots cannot make two of
\* them share one.
LEMMA CopiesOnly ==
    ASSUME VersionInv, Known' \subseteq Known \cup {NoSnap}, version' = version
    PROVE  VersionInv'
BY DEF VersionInv, VersionIdentifiesSnapshot, Snapshots

LEMMA InitQuiet == Init => QuietInv
<1> SUFFICES ASSUME Init PROVE QuietInv
  OBVIOUS
<1>1. ServedInv
  BY ServedInit DEF Init
<1>2. Known \subseteq {Initial, NoSnap}
  BY EmptyRange DEF Known, Init, StreamInit, EnvoyInit
<1>3. version = 1 /\ Initial.version = 1
  BY DEF Init, Initial
<1>4. VersionInv
  BY <1>2, <1>3 DEF VersionInv, VersionIdentifiesSnapshot, Snapshots
<1> QED BY <1>1, <1>4 DEF QuietInv

\* Backends and client tasks move neither a stream nor an Envoy.
LEMMA ControlQuiet ==
    ASSUME QuietInv, UNCHANGED <<wireVars, taskVars, envoyVars>>, VersionInv'
    PROVE  QuietInv'
<1>1. /\ UNCHANGED <<up, outbound, sent_version, envoyVars>>
      /\ UNCHANGED <<pc, subscribed, inbound>>
  BY DEF wireVars, taskVars
<1>2. AskInv'
  BY <1>1, AskKept DEF QuietInv, ServedInv
<1>3. ServedInv'
  BY <1>1, <1>2, ServedKept DEF QuietInv
<1> QED BY <1>3 DEF QuietInv

LEMMA ClientQuiet ==
    ASSUME IInv, QuietInv, NEW h \in Hosts, Restart(h) \/ OrcaClient(h)
    PROVE  QuietInv'
<1>1. made \in [Hosts -> Snapshot \cup {NoSnap}] /\ version \in Nat
  BY DEF IInv, TypeOK
<1>2. CASE Build(h)
  <2> DEFINE new == [version |-> version + 1, body |-> weighted[h]]
  <2>1. /\ made' = [made EXCEPT ![h] = new]
        /\ version' = version + 1 /\ new.version = version + 1
        /\ UNCHANGED <<advertised, wireVars, taskVars, envoyVars>>
    BY <1>2 DEF Build, streamVars, watchVars
  <2> HIDE DEF new
  <2>2. Known' \subseteq Known \cup {new}
    BY <1>1, <2>1 DEF Known, wireVars, taskVars, envoyVars
  <2>3. VersionInv'
    BY <1>1, <2>1, <2>2 DEF QuietInv, VersionInv, VersionIdentifiesSnapshot, Snapshots
  <2> QED BY <2>1, <2>3, ControlQuiet
<1>3. CASE Publish(h)
  <2>1. /\ made' = [made EXCEPT ![h] = NoSnap]
        /\ advertised' = made[h]
        /\ UNCHANGED <<version, wireVars, taskVars, envoyVars>>
    BY <1>3 DEF Publish, WatchSend, Receivers
  <2>2. made[h] \in Known
    BY DEF Known
  <2>3. Known' \subseteq Known \cup {NoSnap}
    BY <1>1, <2>1, <2>2 DEF Known, wireVars, taskVars, envoyVars
  <2> QED BY <2>1, <2>3, CopiesOnly, ControlQuiet DEF QuietInv
<1>4. CASE Restart(h) \/ OrcaConnect(h) \/ OrcaLost(h) \/ Observe(h) \/ Recompute(h)
  <2>1. UNCHANGED <<advertised, wireVars, taskVars, envoyVars, made, version>>
    BY <1>4 DEF Restart, OrcaConnect, OrcaLost, Observe, Recompute, streamVars,
                watchVars, controlVars
  <2>2. Known' = Known
    BY <2>1 DEF Known, wireVars, taskVars, envoyVars
  <2> QED BY <2>1, <2>2, CopiesOnly, ControlQuiet DEF QuietInv
<1> QED BY <1>2, <1>3, <1>4 DEF OrcaClient

\* The snapshots a stream's task can move: to itself from the watch channel,
\* to the wire from itself.
LEMMA KnownCopied ==
    ASSUME UNCHANGED <<advertised, running, controlVars>>,
           \A r \in Streams : held'[r] \in {held[r], advertised, NoSnap},
           \A r \in Streams : \A resp \in Range(outbound'[r]) :
              resp \in Range(outbound[r]) \/ resp.snap = held[r]
    PROVE  Known' \subseteq Known \cup {NoSnap}
BY DEF Known, controlVars

LEMMA TaskQuiet ==
    ASSUME IInv, QuietInv, NEW s \in Streams, Task(s)
    PROVE  QuietInv'
<1> USE DEF QuietInv
<1>1. StreamInv(Snapshot) /\ UNCHANGED <<envoyVars, controlVars>>
  BY DEF IInv, Task
<1> DEFINE Copies ==
        /\ advertised' = advertised
        /\ \A r \in Streams : held'[r] \in {held[r], advertised, NoSnap}
        /\ \A r \in Streams : \A resp \in Range(outbound'[r]) :
              resp \in Range(outbound[r]) \/ resp.snap = held[r]
<1>2. ASSUME Copies PROVE VersionInv'
  <2>1. version' = version /\ running' = running
    BY <1>1 DEF controlVars, envoyVars
  <2>2. Known' \subseteq Known \cup {NoSnap}
    BY <1>1, <1>2, <2>1, KnownCopied
  <2> QED BY <2>1, <2>2, CopiesOnly
<1> USE DEF StreamInv, StreamTypeOK, watchVars, wireVars, Visit
<1>3. CASE ReceiveSubscription(s) \/ ReceiveAck(s) \/ ReceiveNack(s)
  <2>1. /\ Take(s) /\ sent_version' = sent_version
        /\ \A r \in Streams :
              pc'[r] \in {"unused", "closed"} <=> pc[r] \in {"unused", "closed"}
    BY <1>1, <1>3 DEF ReceiveSubscription, ReceiveAck, ReceiveNack, Take
  <2>2. AskInv'
    BY <1>1, <2>1, AskTake DEF ServedInv
  <2>3. ServedInv'
    BY <1>1, <2>1, <2>2, ServedKept DEF Take
  <2>4. Copies
    BY <1>1, <1>3 DEF ReceiveSubscription, ReceiveAck, ReceiveNack, Take
  <2> QED BY <1>2, <2>3, <2>4
<1>4. CASE WatchChanged(s) \/ \E t \in Types : PushSkip(s, t)
  <2>1. /\ UNCHANGED <<up, inbound, outbound, sent_version, subscribed>>
        /\ \A r \in Streams :
              pc'[r] \in {"unused", "closed"} <=> pc[r] \in {"unused", "closed"}
    BY <1>1, <1>4 DEF WatchChanged, PushSkip
  <2>2. AskInv'
    BY <1>1, <2>1, AskKept DEF ServedInv
  <2>3. ServedInv'
    BY <1>1, <2>1, <2>2, ServedKept
  <2>4. Copies
    BY <1>1, <1>4 DEF WatchChanged, PushSkip
  <2> QED BY <1>2, <2>3, <2>4
<1>5. ASSUME NEW t \in Types, PushSend(s, t) PROVE QuietInv'
  <2>1. ServedInv'
    BY <1>1, <1>5, ServedSend
  <2>2. BuildResponse(held[s], t) \in Responses(Snapshot)
    BY <1>1, <1>5 DEF HeldInv, PushSend, BuildResponse, Responses
  <2>3. Range(outbound'[s]) = Range(outbound[s]) \cup {BuildResponse(held[s], t)}
    BY <1>1, <1>5, <2>2, AppendRange DEF PushSend
  <2>4. Copies
    BY <1>1, <1>5, <2>3 DEF PushSend, BuildResponse
  <2> QED BY <1>2, <2>1, <2>4
<1>6. CASE Close(s) /\ ~up[s]
  <2>1. ServedInv'
    BY <1>1, <1>6, ServedClose
  <2>2. Copies
    BY <1>1, <1>6, EmptyRange DEF Close
  <2> QED BY <1>2, <2>1, <2>2
<1> QED BY <1>3, <1>4, <1>5, <1>6 DEF Task, Push, PushFails, StreamEnds

\* Envoy has no weight to refuse.
LEMMA EnvoyQuiet ==
    ASSUME IInv, QuietInv, NEW s \in Streams, Envoy(s)
    PROVE  QuietInv'
<1> USE DEF QuietInv
<1>1. /\ StreamInv(Snapshot) /\ EnvoyTypeOK(Snapshot)
      /\ outbound[s] \in Seq(Responses(Snapshot))
      /\ UNCHANGED controlVars
  BY DEF IInv, TypeOK, StreamTypeOK, Envoy
<1>2. ASSUME NEW t \in Types, Subscribe(s, t) PROVE QuietInv'
  <2>1. ServedInv'
    <3>1. AskInv'
      BY <1>1, <1>2, AskSubscribe DEF ServedInv
    <3>2. \A r \in Streams, u \in Types : Reached(r, u) => Reached(r, u)'
      BY <1>2 DEF Reached, Subscribe, taskVars
    <3> QED BY <1>2, <3>1, <3>2 DEF ServedInv, Subscribe
  <2>2. /\ UNCHANGED <<advertised, outbound, held, running>>
        /\ version' = version
    BY <1>1, <1>2 DEF Subscribe, watchVars, taskVars, controlVars
  <2>3. Known' \subseteq Known \cup {NoSnap}
    BY <1>1, <2>2, KnownCopied
  <2> QED BY <2>1, <2>2, <2>3, CopiesOnly
<1>3. CASE Accept(s)
  <2> DEFINE resp == Head(outbound[s])
  <2>1. ServedInv'
    BY <1>1, <1>3, NoSnapAssumption, SnapshotVersioned, ServedAccept
  <2>2. /\ resp \in Responses(Snapshot)
        /\ resp \in Range(outbound[s])
        /\ Range(Tail(outbound[s])) \subseteq Range(outbound[s])
    BY <1>1, <1>3, TailRange DEF Accept, Reply
  <2>3. resp.snap \in Known
    BY <2>2 DEF Known
  <2>4. /\ UNCHANGED <<advertised, held, made, version>>
        /\ outbound' = [outbound EXCEPT ![s] = Tail(outbound[s])]
        /\ running' = [running EXCEPT ![Owner[s]][resp.type] = resp.snap]
    BY <1>1, <1>3 DEF Accept, Reply, watchVars, taskVars, controlVars
  <2> HIDE DEF resp
  <2>5. \A e \in Envoys, t \in Types : running'[e][t] \in {running[e][t], resp.snap}
    BY <1>1, <2>4 DEF EnvoyTypeOK
  <2>6. \A r \in Streams : Range(outbound'[r]) \subseteq Range(outbound[r])
    BY <1>1, <2>2, <2>4 DEF StreamInv, StreamTypeOK
  <2>7. Known' \subseteq Known
    BY <2>3, <2>4, <2>5, <2>6 DEF Known
  <2> QED BY <2>1, <2>4, <2>7, CopiesOnly
<1>4. ~Reject(s) \/ Valid(Head(outbound[s]))
  <2>1. ASSUME Reject(s) PROVE Valid(Head(outbound[s]))
    <3>1. Head(outbound[s]) \in Range(outbound[s])
      BY <1>1, <2>1, TailRange DEF Reject, Reply
    <3> QED BY <3>1, AllValid
  <2> QED BY <2>1
<1> QED BY <1>2, <1>3, <1>4 DEF Envoy

LEMMA LinkQuiet ==
    ASSUME IInv, QuietInv, NEW s \in Streams, Link(s) \/ Drop(s)
    PROVE  QuietInv'
<1>1. ServedInv'
  BY ServedLink DEF IInv, TypeOK, QuietInv, Link, Drop
<1>2. UNCHANGED <<advertised, held, outbound, running, controlVars>>
  BY DEF Link, Connect, Open, Drop, Disconnect, Cut, watchVars, taskVars, envoyVars
<1>3. Known' \subseteq Known \cup {NoSnap}
  BY <1>2, KnownCopied
<1> QED BY <1>1, <1>2, <1>3, CopiesOnly DEF QuietInv, controlVars

LEMMA NextQuiet == IInv /\ QuietInv /\ [Next]_vars => QuietInv'
<1> SUFFICES ASSUME IInv, QuietInv, [Next]_vars PROVE QuietInv'
  OBVIOUS
<1>1. CASE UNCHANGED vars
  <2>1. UNCHANGED <<advertised, wireVars, taskVars, envoyVars, made, version>>
    BY <1>1 DEF vars, streamVars, watchVars, controlVars
  <2>2. Known' = Known
    BY <2>1 DEF Known, wireVars, taskVars, envoyVars
  <2> QED BY <2>1, <2>2, CopiesOnly, ControlQuiet DEF QuietInv
<1> QED BY <1>1, ClientQuiet, TaskQuiet, EnvoyQuiet, LinkQuiet DEF Next

THEOREM QuietInvariance == Spec => [](IInv /\ QuietInv)
BY InitIInv, NextIInv, InitQuiet, NextQuiet, PTL DEF Spec

\* Two tasks never put the same version on different weights, though they
\* build and advertise without waiting for each other: the comparison of
\* versions in push_if_new is one of weights.
THEOREM VersionsIdentify == Spec => []VersionIdentifiesSnapshot
<1>1. QuietInv => VersionIdentifiesSnapshot
  BY DEF QuietInv, VersionInv
<1> QED BY <1>1, QuietInvariance, PTL

\* Once a stream is quiet its Envoy runs the weights that are advertised,
\* over any reports, reconnects and order in which the tasks advertised: see
\* QuietStreamRunsAdvertised.
THEOREM QuietStreamsCurrent == Spec => []QuietStreamRunsAdvertised
<1>1. ASSUME IInv, QuietInv PROVE QuietStreamRunsAdvertised
  <2> SUFFICES ASSUME NEW s \in Streams, Quiet(s), NEW t \in requested[s] \cap Served
               PROVE  running[Owner[s]][t] = advertised
    BY DEF QuietStreamRunsAdvertised
  <2>1. t \in Types /\ Owner[s] \in Envoys /\ StreamInv(Snapshot)
    BY <1>1, StreamAssumption, EnvoyAssumption DEF IInv
  <2>2. advertised \in Snapshots /\ advertised.version # 0
    BY <1>1, NoSnapAssumption
    DEF IInv, TypeOK, StreamTypeOK, QuietInv, VersionInv, Snapshots, Known
  <2>3. /\ running[Owner[s]][t] # NoSnap
        /\ running[Owner[s]][t].version = advertised.version
    BY <1>1, <2>1, <2>2, ServedWhenQuiet DEF QuietInv
  <2>4. running[Owner[s]][t] \in Snapshots
    BY <2>1, <2>3 DEF Snapshots, Known
  <2> QED BY <1>1, <2>2, <2>3, <2>4 DEF QuietInv, VersionInv, VersionIdentifiesSnapshot
<1> QED BY <1>1, QuietInvariance, PTL

===============================================================================
