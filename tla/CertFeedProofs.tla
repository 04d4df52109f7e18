---------------------------- MODULE CertFeedProofs ----------------------------
(***************************************************************************)
(* Chapter 3, for any streams, Envoys, types, admin requests, channel      *)
(* capacity and bounds: no certificate is lost on its way to the watch     *)
(* channel, CertFeed's safety part implements ConfigFeed's, and a quiet    *)
(* stream's Envoy runs the newest certificate or refuses it.               *)
(***************************************************************************)
EXTENDS CertFeed, SotwStreamProofs

Snaps == Range(log)

\* The log ends with what is advertised, and no certificate is in it twice.
LogInv ==
    /\ log \in Seq(Snapshot)
    /\ Len(log) # 0
    /\ advertised = log[Len(log)]
    /\ \A i \in 1 .. Len(log) : log[i].body <= minted
    /\ \A i, j \in 1 .. Len(log) : log[i].body = log[j].body => i = j

\* What an admin request is about to advertise is new.
MadeInv ==
    \A a \in Admins : made[a] # NoSnap =>
        /\ made[a].body <= minted
        /\ \A x \in Snaps : x.body # made[a].body
        /\ \A b \in Admins \ {a} : made[b] # NoSnap => made[b].body # made[a].body

ControlInv ==
    /\ version \in Nat
    /\ minted \in Nat
    /\ made \in [Admins -> Snapshot \cup {NoSnap}]
    /\ MadeInv

\* A stream's responses are in the order of the log, and none is later in it
\* than what the task is pushing.
OrderInv(s) ==
    /\ pc[s] = "push" => held[s] \in Snaps
    /\ pc[s] = "unused" => inbound[s] = <<>> /\ outbound[s] = <<>> /\ ~up[s]
    /\ \A i \in 1 .. Len(outbound[s]) :
          /\ outbound[s][i].snap \in Snaps
          /\ outbound[s][i].type \in Served
          /\ pc[s] = "push" => Place[outbound[s][i].snap] <= Place[held[s]]
          /\ \A j \in i .. Len(outbound[s]) :
                Place[outbound[s][i].snap] <= Place[outbound[s][j].snap]

\* What an Envoy runs is no later than anything its stream has for it.
BehindInv(s) ==
    up[s] => \A t \in Types :
        LET mine == Place[running[Owner[s]][t]]
        IN  /\ \A i \in 1 .. Len(outbound[s]) : mine <= Place[outbound[s][i].snap]
            /\ pc[s] = "push" => mine <= Place[held[s]]

\* The task serves only what Envoy wants.
WantedInv(s) ==
    IF up[s]
    THEN /\ requested[s] \subseteq Wanted(Owner[s])
         /\ subscribed[s] \subseteq requested[s]
         /\ \A req \in Range(inbound[s]) : req.type \in requested[s]
         /\ \A r \in Streams : up[r] /\ Owner[r] = Owner[s] => r = s
    ELSE requested[s] = {}

RunInv == \A e \in Envoys, t \in Types : running[e][t] \in Snaps \cup {NoSnap}

\* The inductive invariant.
IInv ==
    /\ StreamInv(Snapshot)
    /\ EnvoyTypeOK(Snapshot)
    /\ LogInv
    /\ ControlInv
    /\ RunInv
    /\ \A s \in Streams : OrderInv(s) /\ BehindInv(s) /\ WantedInv(s)
    /\ RotationLands

-----------------------------------------------------------------------------
(* The log. *)

LEMMA SnapshotVersioned == Versioned(Snapshot)
BY DEF Versioned, Snapshot

\* In a sequence without repetitions an element has one place.
LEMMA OnePlace ==
    ASSUME NEW T, NEW q \in Seq(T), NEW i \in 1 .. Len(q),
           \A j \in 1 .. Len(q) : q[i].body = q[j].body => i = j
    PROVE  (CHOOSE j \in DOMAIN q : q[j] = q[i]) = i
<1>1. DOMAIN q = 1 .. Len(q)
  BY LenProperties
<1>2. \A j \in DOMAIN q : q[j] = q[i] => j = i
  BY <1>1
<1> QED BY <1>1, <1>2

LEMMA PlaceFacts ==
    ASSUME LogInv
    PROVE  /\ Place[NoSnap] = 0
           /\ \A i \in 1 .. Len(log) : log[i] \in Snaps /\ Place[log[i]] = i
           /\ \A x \in Snaps :
                 /\ x \in Snapshot /\ x # NoSnap
                 /\ Place[x] \in 1 .. Len(log)
                 /\ log[Place[x]] = x
           /\ Len(log) \in Nat
           /\ advertised \in Snaps /\ Place[advertised] = Len(log)
<1>1. /\ Len(log) \in Nat \ {0}
      /\ DOMAIN log = 1 .. Len(log)
      /\ \A i \in 1 .. Len(log) : log[i] \in Snapshot
  BY LenProperties DEF LogInv
<1>2. NoSnap \notin Snapshot
  BY RotationAssumption
<1>3. \A x \in Snaps : \E i \in 1 .. Len(log) : log[i] = x
  BY <1>1 DEF Snaps, Range
<1>4. \A i \in 1 .. Len(log) : log[i] \in Snaps
  BY <1>1 DEF Snaps, Range
<1>5. ASSUME NEW i \in 1 .. Len(log) PROVE Place[log[i]] = i
  <2>1. Place[log[i]] = CHOOSE j \in DOMAIN log : log[j] = log[i]
    BY <1>1, <1>2, <1>4 DEF Place, Snaps
  <2> QED BY <2>1, OnePlace DEF LogInv
<1>6. Place[NoSnap] = 0
  BY DEF Place
<1>7. advertised = log[Len(log)] /\ Len(log) \in 1 .. Len(log)
  BY <1>1 DEF LogInv
<1> QED BY <1>1, <1>2, <1>3, <1>4, <1>5, <1>6, <1>7

\* Nothing moves in the log when it does not grow ...
LEMMA LogKept ==
    ASSUME UNCHANGED log
    PROVE  Snaps' = Snaps /\ Place' = Place
BY DEF Snaps, Place

\* ... or when it grows.
LEMMA LogGrows ==
    ASSUME LogInv, NEW x \in Snapshot, log' = Append(log, x), advertised' = x,
           minted \in Nat, minted' \in Nat, minted <= minted', x.body <= minted',
           \A y \in Snaps : y.body # x.body
    PROVE  /\ LogInv'
           /\ Snaps' = Snaps \cup {x}
           /\ \A y \in Snaps \cup {NoSnap} : Place'[y] = Place[y]
           /\ Place'[x] = Len(log) + 1 /\ Len(log') = Len(log) + 1
<1>1. /\ log \in Seq(Snapshot)
      /\ Len(log) \in Nat \ {0}
      /\ \A i \in 1 .. Len(log) : log[i] \in Snapshot /\ log[i].body \in Nat
  <2>1. Len(log) \in Nat \ {0} /\ \A i \in 1 .. Len(log) : log[i] \in Snapshot
    BY LenProperties DEF LogInv
  <2> QED BY <2>1 DEF LogInv, Snapshot
<1>2. /\ log' \in Seq(Snapshot)
      /\ Len(log') = Len(log) + 1
      /\ Snaps' = Snaps \cup {x}
      /\ \A i \in 1 .. Len(log) : log'[i] = log[i]
      /\ log'[Len(log) + 1] = x
  <2>1. Append(log, x) \in Seq(Snapshot) /\ Range(Append(log, x)) = Range(log) \cup {x}
    BY <1>1, AppendRange
  <2> QED BY <1>1, <2>1, AppendProperties DEF Snaps
<1>3. \A i \in 1 .. Len(log) : log[i] \in Snaps
  BY PlaceFacts
<1>4. LogInv'
  <2>1. \A i \in 1 .. Len(log') : log'[i].body <= minted'
    BY <1>1, <1>2 DEF LogInv
  <2>2. ASSUME NEW i \in 1 .. Len(log'), NEW j \in 1 .. Len(log'),
               log'[i].body = log'[j].body
        PROVE  i = j
    <3>1. CASE i \in 1 .. Len(log) /\ j \in 1 .. Len(log)
      BY <1>2, <2>2, <3>1 DEF LogInv
    <3> QED BY <1>1, <1>2, <1>3, <2>2, <3>1
  <2> QED BY <1>1, <1>2, <2>1, <2>2 DEF LogInv
<1>5. \A y \in Snaps' : Place'[y] = IF y = NoSnap THEN 0 ELSE CHOOSE j \in DOMAIN log' : log'[j] = y
  BY DEF Place, Snaps
<1>6. ASSUME NEW i \in 1 .. Len(log') PROVE Place'[log'[i]] = i
  <2>1. log'[i] \in Snaps' /\ log'[i] # NoSnap
    <3>1. log'[i] \in Snapshot /\ NoSnap \notin Snapshot
      BY <1>1, <1>2, RotationAssumption
    <3> QED BY <1>1, <1>2, <1>3, <3>1
  <2>2. (CHOOSE j \in DOMAIN log' : log'[j] = log'[i]) = i
    BY <1>2, <1>4, OnePlace DEF LogInv
  <2> QED BY <1>5, <2>1, <2>2
<1>7. ASSUME NEW y \in Snaps PROVE Place'[y] = Place[y]
  <2>1. Place[y] \in 1 .. Len(log) /\ log[Place[y]] = y
    BY PlaceFacts
  <2>2. log'[Place[y]] = y /\ Place[y] \in 1 .. Len(log')
    BY <1>1, <1>2, <2>1
  <2> QED BY <1>6, <2>2
<1>8. Place'[NoSnap] = Place[NoSnap]
  BY DEF Place
<1> QED BY <1>2, <1>4, <1>6, <1>7, <1>8

-----------------------------------------------------------------------------
(* The initial state and the control plane's own steps. *)

LEMMA InitIInv == FeedInit => IInv
<1> SUFFICES ASSUME FeedInit PROVE IInv
  OBVIOUS
<1> DEFINE first == Build(1, 1)
<1>1. first \in Snapshot /\ first.body = 1
  BY DEF Build, Snapshot
<1>2. StreamInv(Snapshot)
  BY <1>1, StreamInitInv DEF FeedInit, Init
<1>3. log = <<first>> /\ advertised = first /\ minted = 1
  BY DEF FeedInit, Init, StreamInit
<1> HIDE DEF first
<1>4. LogInv
  BY <1>1, <1>3 DEF LogInv
<1>5. ControlInv
  BY DEF FeedInit, Init, ControlInv, MadeInv
<1>6. RunInv /\ EnvoyTypeOK(Snapshot)
  BY DEF FeedInit, Init, EnvoyInit, RunInv, EnvoyTypeOK
<1>7. \A s \in Streams : OrderInv(s) /\ BehindInv(s) /\ WantedInv(s)
  BY DEF FeedInit, Init, StreamInit, EnvoyInit, OrderInv, BehindInv, WantedInv
<1>8. RotationLands
  <2>1. first \in Range(log)
    BY <1>3, PlaceFacts, <1>4 DEF Snaps
  <2> QED BY <1>1, <1>3, <2>1 DEF RotationLands
<1> QED BY <1>2, <1>4, <1>5, <1>6, <1>7, <1>8 DEF IInv

\* A step that leaves the streams, the Envoys and the log alone leaves the
\* invariants about them alone.
LEMMA StreamsKept ==
    ASSUME IInv, UNCHANGED <<streamVars, envoyVars, log>>
    PROVE  /\ StreamInv(Snapshot)'
           /\ EnvoyTypeOK(Snapshot)'
           /\ RunInv'
           /\ \A s \in Streams : OrderInv(s)' /\ BehindInv(s)' /\ WantedInv(s)'
<1> USE DEF streamVars, watchVars, wireVars, taskVars, envoyVars
<1>1. StreamInv(Snapshot)'
  BY DEF IInv, StreamInv, StreamTypeOK, HeldInv, TaskInv
<1>2. EnvoyTypeOK(Snapshot)' /\ RunInv'
  BY LogKept DEF IInv, EnvoyTypeOK, RunInv
<1>3. ASSUME NEW s \in Streams PROVE OrderInv(s)' /\ BehindInv(s)' /\ WantedInv(s)'
  BY LogKept DEF IInv, OrderInv, BehindInv, WantedInv, Wanted
<1> QED BY <1>1, <1>2, <1>3

LEMMA RotateInv ==
    ASSUME IInv, NEW a \in Admins, Rotate(a), UNCHANGED log
    PROVE  IInv'
<1> DEFINE new == Build(version + 1, minted + 1)
<1>1. /\ version \in Nat /\ minted \in Nat
      /\ made \in [Admins -> Snapshot \cup {NoSnap}]
      /\ made[a] = NoSnap
  BY DEF IInv, ControlInv, Rotate
<1>2. new \in Snapshot /\ new # NoSnap /\ new.body = minted + 1
  BY <1>1, RotationAssumption DEF Build, Snapshot
<1>3. /\ version' = version + 1
      /\ minted' = minted + 1
      /\ made' = [made EXCEPT ![a] = new]
      /\ UNCHANGED <<streamVars, envoyVars, log>>
  BY DEF Rotate
<1> HIDE DEF new
<1>4. LogInv'
  <2>1. \A i \in 1 .. Len(log) : log[i].body \in Nat
    BY PlaceFacts DEF IInv, Snapshot
  <2> QED BY <1>1, <1>3, <2>1 DEF IInv, LogInv, streamVars, watchVars
<1>5. ControlInv'
  <2>1. \A x \in Snaps : x.body \in Nat /\ x.body <= minted
    BY PlaceFacts DEF IInv, LogInv, Snapshot
  <2>2. \A b \in Admins : made[b] # NoSnap => made[b].body \in Nat
    BY <1>1 DEF Snapshot
  <2>3. Snaps' = Snaps
    BY LogKept
  <2>4. MadeInv'
    BY <1>1, <1>2, <1>3, <2>1, <2>2, <2>3 DEF IInv, ControlInv, MadeInv
  <2> QED BY <1>1, <1>2, <1>3, <2>4 DEF ControlInv
<1>6. RotationLands'
  BY <1>1, <1>2, <1>3 DEF IInv, RotationLands
<1> QED BY <1>3, <1>4, <1>5, <1>6, StreamsKept DEF IInv

LEMMA RotateFailsInv ==
    ASSUME IInv, NEW a \in Admins, RotateFails(a), UNCHANGED log
    PROVE  IInv'
<1>1. /\ version' = version + 1
      /\ UNCHANGED <<streamVars, envoyVars, log, minted, made>>
  BY DEF RotateFails
<1>2. LogInv' /\ RotationLands'
  BY <1>1 DEF IInv, LogInv, RotationLands, streamVars, watchVars
<1>3. ControlInv'
  BY <1>1, LogKept DEF IInv, ControlInv, MadeInv
<1> QED BY <1>1, <1>2, <1>3, StreamsKept DEF IInv

\* What the streams rely on of the log survives its growth.
LEMMA OrderKept ==
    ASSUME IInv, UNCHANGED <<pc, up, held, inbound, outbound, subscribed, envoyVars>>,
           Snaps \subseteq Snaps', \A y \in Snaps \cup {NoSnap} : Place'[y] = Place[y]
    PROVE  /\ RunInv'
           /\ \A s \in Streams : OrderInv(s)' /\ BehindInv(s)' /\ WantedInv(s)'
<1>1. RunInv'
  BY DEF IInv, RunInv, envoyVars
<1>2. ASSUME NEW s \in Streams PROVE OrderInv(s)' /\ BehindInv(s)' /\ WantedInv(s)'
  <2>1. OrderInv(s)'
    BY DEF IInv, OrderInv
  <2>2. BehindInv(s)'
    <3>1. Owner[s] \in Envoys
      BY EnvoyAssumption
    <3> QED BY <3>1 DEF IInv, RunInv, OrderInv, BehindInv, envoyVars
  <2>3. WantedInv(s)'
    BY DEF IInv, WantedInv, Wanted, envoyVars
  <2> QED BY <2>1, <2>2, <2>3
<1> QED BY <1>1, <1>2

\* The watch channel always has a receiver, so that the log grows.
LEMMA PublishGrows ==
    ASSUME IInv, NEW a \in Admins, Publish(a), Write
    PROVE  /\ advertised' = made[a]
           /\ log' = Append(log, made[a])
<1>1. Receivers # {}
  BY DEF Receivers
<1>2. changes \in Nat
  BY DEF IInv, StreamInv, StreamTypeOK
<1> QED BY <1>1, <1>2 DEF Publish, WatchSend, Write

LEMMA PublishInv ==
    ASSUME IInv, NEW a \in Admins, Publish(a), Write
    PROVE  IInv'
<1> DEFINE x == made[a]
<1>1. /\ version \in Nat /\ minted \in Nat
      /\ made \in [Admins -> Snapshot \cup {NoSnap}]
      /\ x \in Snapshot /\ x # NoSnap /\ x.body <= minted
      /\ \A y \in Snaps : y.body # x.body
  BY DEF IInv, ControlInv, MadeInv, Publish
<1>2. /\ advertised' = x
      /\ log' = Append(log, x)
  BY PublishGrows
<1>3. /\ made' = [made EXCEPT ![a] = NoSnap]
      /\ UNCHANGED <<wireVars, taskVars, envoyVars, version, minted>>
      /\ WatchSend(x)
  BY DEF Publish
<1>4. /\ LogInv'
      /\ Snaps' = Snaps \cup {x}
      /\ \A y \in Snaps \cup {NoSnap} : Place'[y] = Place[y]
  <2>1. LogInv
    BY DEF IInv
  <2> HIDE DEF x
  <2> QED BY <1>1, <1>2, <1>3, <2>1, LogGrows
<1>5. StreamInv(Snapshot)'
  BY <1>1, <1>3, WatchSendInv DEF IInv
<1>6. EnvoyTypeOK(Snapshot)'
  BY <1>3 DEF IInv, EnvoyTypeOK, envoyVars
<1>7. ControlInv'
  BY <1>1, <1>3, <1>4 DEF IInv, ControlInv, MadeInv
<1>8. RotationLands'
  <2>1. Range(log') = Range(log) \cup {x}
    BY <1>4 DEF Snaps
  <2> QED BY <1>1, <1>3, <2>1 DEF IInv, RotationLands
<1>9. RunInv' /\ \A s \in Streams : OrderInv(s)' /\ BehindInv(s)' /\ WantedInv(s)'
  BY <1>3, <1>4, OrderKept DEF wireVars, taskVars
<1> QED BY <1>4, <1>5, <1>6, <1>7, <1>8, <1>9 DEF IInv

LEMMA CrashInv ==
    ASSUME NEW S, StreamInv(S), NEW first \in S, Crash(first)
    PROVE  StreamInv(S)'
<1>1. StreamTypeOK(S)'
  BY EmptyRange, ChannelAssumption DEF StreamInv, StreamTypeOK, Crash
<1>2. HeldInv(S)'
  BY DEF StreamInv, StreamTypeOK, HeldInv, Crash
<1>3. ASSUME NEW r \in Streams PROVE TaskInv(r)'
  BY EmptyRange DEF StreamInv, StreamTypeOK, TaskInv, Crash
<1> QED BY <1>1, <1>2, <1>3 DEF StreamInv

LEMMA RestartInv ==
    ASSUME IInv, Restart, log' = Append(log, advertised')
    PROVE  IInv'
<1> DEFINE first == Build(1, minted + 1)
<1>1. minted \in Nat /\ minted' = minted + 1 /\ version' = 1
  BY DEF IInv, ControlInv, Restart
<1>2. first \in Snapshot /\ first.body = minted + 1 /\ first.version = 1
  BY <1>1 DEF Build, Snapshot
<1>3. /\ made' = [b \in Admins |-> NoSnap]
      /\ Crash(first)
      /\ requested' = [s \in Streams |-> {}]
      /\ running' = running
      /\ advertised' = first
      /\ log' = Append(log, first)
  BY <1>1 DEF Restart, Crash
<1> HIDE DEF first
<1>4. \A y \in Snaps : y.body \in Nat /\ y.body <= minted
  BY PlaceFacts DEF IInv, LogInv, Snapshot
<1>5. /\ LogInv'
      /\ Snaps' = Snaps \cup {first}
      /\ \A y \in Snaps \cup {NoSnap} : Place'[y] = Place[y]
  <2>1. \A y \in Snaps : y.body # first.body
    BY <1>1, <1>2, <1>4
  <2>2. LogInv
    BY DEF IInv
  <2> QED BY <1>1, <1>2, <1>3, <2>1, <2>2, LogGrows
<1>6. StreamInv(Snapshot)'
  BY <1>2, <1>3, CrashInv DEF IInv
<1>7. EnvoyTypeOK(Snapshot)' /\ RunInv'
  BY <1>3, <1>5 DEF IInv, EnvoyTypeOK, RunInv
<1>8. ControlInv'
  BY <1>1, <1>3 DEF ControlInv, MadeInv
<1>9. ASSUME NEW s \in Streams PROVE OrderInv(s)' /\ BehindInv(s)' /\ WantedInv(s)'
  BY <1>3 DEF Crash, OrderInv, BehindInv, WantedInv
<1>10. RotationLands'
  <2>1. Range(log') = Range(log) \cup {first}
    BY <1>5 DEF Snaps
  <2> QED BY <1>1, <1>2, <2>1 DEF RotationLands
<1> QED BY <1>5, <1>6, <1>7, <1>8, <1>9, <1>10 DEF IInv

-----------------------------------------------------------------------------
(* The task.  Its steps leave Envoy, the control plane and the log alone.  *)

\* What a step of any task has to show.
LEMMA TaskFrame ==
    ASSUME IInv, UNCHANGED <<advertised, envoyVars, controlVars, log>>,
           StreamInv(Snapshot)',
           \A s \in Streams : OrderInv(s)' /\ BehindInv(s)' /\ WantedInv(s)'
    PROVE  IInv'
<1>1. LogInv' /\ RunInv' /\ RotationLands'
  BY LogKept DEF IInv, LogInv, RunInv, RotationLands, controlVars, envoyVars
<1>2. ControlInv' /\ EnvoyTypeOK(Snapshot)'
  BY LogKept DEF IInv, ControlInv, MadeInv, EnvoyTypeOK, controlVars, envoyVars
<1> QED BY <1>1, <1>2 DEF IInv

\* A stream that a step does not touch keeps its part of the invariant.
LEMMA StreamKept ==
    ASSUME IInv, NEW s \in Streams, UNCHANGED <<running, requested, up, log>>,
           pc'[s] = pc[s], held'[s] = held[s], inbound'[s] = inbound[s],
           outbound'[s] = outbound[s], subscribed'[s] = subscribed[s]
    PROVE  OrderInv(s)' /\ BehindInv(s)' /\ WantedInv(s)'
BY LogKept DEF IInv, OrderInv, BehindInv, WantedInv, Wanted

\* What a task may be given to push.
LEMMA Newest ==
    ASSUME IInv, NEW s \in Streams
    PROVE  /\ \A x \in Snaps : Place[x] <= Place[advertised]
           /\ advertised \in Snaps
           /\ \A e \in Envoys, t \in Types : Place[running[e][t]] <= Place[advertised]
<1>1. /\ \A x \in Snaps : Place[x] \in 1 .. Len(log)
      /\ Place[NoSnap] = 0
      /\ Len(log) \in Nat
      /\ advertised \in Snaps /\ Place[advertised] = Len(log)
  BY PlaceFacts DEF IInv
<1> QED BY <1>1 DEF IInv, RunInv

\* A new request: its type is one that Envoy has asked for.
LEMMA TakeWanted ==
    ASSUME IInv, NEW s \in Streams, Take(s), UNCHANGED envoyVars
    PROVE  WantedInv(s)'
<1>1. /\ Head(inbound[s]) \in Range(inbound[s])
      /\ Range(inbound'[s]) \subseteq Range(inbound[s])
  BY TakeFacts DEF IInv
<1>2. subscribed'[s] = subscribed[s] \cup {Head(inbound[s]).type}
  BY DEF IInv, StreamInv, StreamTypeOK, Take
<1> QED BY <1>1, <1>2 DEF IInv, WantedInv, Wanted, Take, envoyVars

LEMMA TakeInv ==
    ASSUME IInv, NEW s \in Streams, Take(s), UNCHANGED <<advertised, envoyVars, controlVars, log>>,
           StreamInv(Snapshot)',
           \/ UNCHANGED <<pc, held>>
           \/ \E t \in Types : Visit(s, {t}, advertised)
    PROVE  IInv'
<1>1. ASSUME NEW r \in Streams \ {s}
      PROVE  OrderInv(r)' /\ BehindInv(r)' /\ WantedInv(r)'
  BY <1>1, StreamKept
  DEF IInv, StreamInv, StreamTypeOK, Take, Visit, envoyVars
<1>2. WantedInv(s)'
  BY TakeWanted
<1>3. /\ pc[s] = "select"
      /\ UNCHANGED <<outbound, up, running, log>>
      /\ Snaps' = Snaps /\ Place' = Place
  BY LogKept DEF Take, envoyVars
<1>4. Owner[s] \in Envoys
  BY EnvoyAssumption
<1>5. CASE UNCHANGED <<pc, held>>
  <2>1. OrderInv(s)' /\ BehindInv(s)'
    BY <1>3, <1>5 DEF IInv, OrderInv, BehindInv
  <2> QED BY <1>1, <1>2, <2>1, TaskFrame
<1>6. CASE \E t \in Types : Visit(s, {t}, advertised)
  <2>1. pc'[s] = "push" /\ held'[s] = advertised
    BY <1>6 DEF Visit, IInv, StreamInv, StreamTypeOK
  <2>2. OrderInv(s)'
    BY <1>3, <2>1, Newest DEF IInv, OrderInv
  <2>3. BehindInv(s)'
    BY <1>3, <1>4, <2>1, Newest DEF IInv, BehindInv
  <2> QED BY <1>1, <1>2, <2>2, <2>3, TaskFrame
<1> QED BY <1>5, <1>6

LEMMA WatchChangedKeeps ==
    ASSUME IInv, NEW s \in Streams, WatchChanged(s), UNCHANGED <<envoyVars, controlVars, log>>
    PROVE  IInv'
<1>1. StreamInv(Snapshot)'
  BY WatchChangedInv DEF IInv
<1>2. ASSUME NEW r \in Streams \ {s}
      PROVE  OrderInv(r)' /\ BehindInv(r)' /\ WantedInv(r)'
  BY <1>2, StreamKept
  DEF IInv, StreamInv, StreamTypeOK, WatchChanged, Visit, envoyVars, wireVars
<1>3. /\ pc'[s] = "push" => held'[s] = advertised
      /\ pc'[s] # "unused"
      /\ UNCHANGED <<outbound, inbound, up, running, requested, subscribed, log>>
      /\ Snaps' = Snaps /\ Place' = Place
  BY LogKept DEF IInv, StreamInv, StreamTypeOK, WatchChanged, Visit, wireVars, envoyVars
<1>4. Owner[s] \in Envoys
  BY EnvoyAssumption
<1>5. OrderInv(s)'
  BY <1>3, Newest DEF IInv, OrderInv
<1>6. BehindInv(s)'
  BY <1>3, <1>4, Newest DEF IInv, BehindInv
<1>7. WantedInv(s)'
  BY <1>3 DEF IInv, WantedInv, Wanted
<1>8. advertised' = advertised
  BY DEF WatchChanged, watchVars
<1> QED BY <1>1, <1>2, <1>5, <1>6, <1>7, <1>8, TaskFrame

LEMMA PushSkipKeeps ==
    ASSUME IInv, NEW s \in Streams, NEW t \in Types, PushSkip(s, t),
           UNCHANGED <<envoyVars, controlVars, log>>
    PROVE  IInv'
<1>1. StreamInv(Snapshot)'
  BY PushSkipInv DEF IInv
<1>2. ASSUME NEW r \in Streams \ {s}
      PROVE  OrderInv(r)' /\ BehindInv(r)' /\ WantedInv(r)'
  BY <1>2, StreamKept
  DEF IInv, StreamInv, StreamTypeOK, PushSkip, Visit, envoyVars, wireVars
<1>3. /\ pc[s] = "push"
      /\ pc'[s] = "push" => held'[s] = held[s]
      /\ pc'[s] # "unused"
      /\ UNCHANGED <<outbound, inbound, up, running, requested, subscribed, log>>
      /\ Snaps' = Snaps /\ Place' = Place
  BY LogKept DEF IInv, StreamInv, StreamTypeOK, PushSkip, Visit, wireVars, envoyVars
<1>4. OrderInv(s)' /\ BehindInv(s)' /\ WantedInv(s)'
  BY <1>3 DEF IInv, OrderInv, BehindInv, WantedInv, Wanted
<1>5. advertised' = advertised
  BY DEF PushSkip, watchVars
<1> QED BY <1>1, <1>2, <1>4, <1>5, TaskFrame

LEMMA PushSendKeeps ==
    ASSUME IInv, NEW s \in Streams, NEW t \in Types, PushSend(s, t),
           UNCHANGED <<envoyVars, controlVars, log>>
    PROVE  IInv'
<1> DEFINE resp == BuildResponse(held[s], t)
<1>1. StreamInv(Snapshot)'
  BY PushSendInv, SnapshotVersioned DEF IInv
<1>2. ASSUME NEW r \in Streams \ {s}
      PROVE  OrderInv(r)' /\ BehindInv(r)' /\ WantedInv(r)'
  BY <1>2, StreamKept
  DEF IInv, StreamInv, StreamTypeOK, PushSend, Visit, envoyVars
<1>3. /\ pc[s] = "push"
      /\ pc'[s] = "push" => held'[s] = held[s]
      /\ pc'[s] # "unused"
      /\ UNCHANGED <<inbound, up, running, requested, subscribed, log>>
      /\ Snaps' = Snaps /\ Place' = Place
  BY LogKept DEF IInv, StreamInv, StreamTypeOK, PushSend, Visit, envoyVars
<1>4. resp.snap = held[s] /\ resp.type = t /\ t \in Served /\ held[s] \in Snaps
  BY DEF BuildResponse, PushSend, UpToDate, IInv, OrderInv
<1>5. /\ outbound'[s] = Append(outbound[s], resp)
      /\ outbound[s] \in Seq(Responses(Snapshot))
      /\ resp \in Responses(Snapshot)
  BY DEF PushSend, IInv, StreamInv, StreamTypeOK, HeldInv, BuildResponse, Responses
<1> HIDE DEF resp
<1>6. /\ Len(outbound'[s]) = Len(outbound[s]) + 1
      /\ Len(outbound[s]) \in Nat
      /\ \A i \in 1 .. Len(outbound[s]) : outbound'[s][i] = outbound[s][i]
      /\ outbound'[s][Len(outbound[s]) + 1] = resp
  BY <1>5, AppendProperties, LenProperties
<1>7. \A i \in 1 .. Len(outbound'[s]) :
          \/ i \in 1 .. Len(outbound[s]) /\ outbound'[s][i] = outbound[s][i]
          \/ i = Len(outbound[s]) + 1 /\ outbound'[s][i] = resp
  BY <1>6
<1>8. Place[held[s]] <= Place[held[s]]
  BY <1>4, PlaceFacts DEF IInv
<1>9. OrderInv(s)'
  <2>1. ASSUME NEW i \in 1 .. Len(outbound'[s])
        PROVE  /\ outbound'[s][i].snap \in Snaps
               /\ outbound'[s][i].type \in Served
               /\ Place[outbound'[s][i].snap] <= Place[held[s]]
    BY <1>3, <1>4, <1>7, <1>8 DEF IInv, OrderInv
  <2>2. ASSUME NEW i \in 1 .. Len(outbound'[s]), NEW j \in i .. Len(outbound'[s])
        PROVE  Place[outbound'[s][i].snap] <= Place[outbound'[s][j].snap]
    <3>1. CASE j \in 1 .. Len(outbound[s])
      <4>1. i \in 1 .. Len(outbound[s]) /\ j \in i .. Len(outbound[s])
        BY <1>6, <3>1
      <4> QED BY <1>6, <4>1, <3>1 DEF IInv, OrderInv
    <3>2. CASE j = Len(outbound[s]) + 1
      BY <1>4, <1>6, <2>1, <3>2
    <3> QED BY <1>6, <3>1, <3>2
  <2> QED BY <1>3, <1>4, <2>1, <2>2 DEF IInv, OrderInv
<1>10. BehindInv(s)'
  BY <1>3, <1>4, <1>7 DEF IInv, BehindInv
<1>11. WantedInv(s)'
  BY <1>3 DEF IInv, WantedInv, Wanted
<1>12. advertised' = advertised
  BY DEF PushSend, watchVars
<1> QED BY <1>1, <1>2, <1>9, <1>10, <1>11, <1>12, TaskFrame

LEMMA CloseKeeps ==
    ASSUME IInv, NEW s \in Streams, ~up[s], Close(s),
           UNCHANGED <<envoyVars, controlVars, log>>
    PROVE  IInv'
<1>1. StreamInv(Snapshot)'
  BY CloseInv DEF IInv
<1>2. ASSUME NEW r \in Streams \ {s}
      PROVE  OrderInv(r)' /\ BehindInv(r)' /\ WantedInv(r)'
  BY <1>2, StreamKept DEF IInv, StreamInv, StreamTypeOK, Close, envoyVars
<1>3. pc'[s] = "closed" /\ outbound'[s] = <<>> /\ UNCHANGED <<up, requested>>
  BY DEF IInv, StreamInv, StreamTypeOK, Close, envoyVars
<1>4. OrderInv(s)' /\ BehindInv(s)' /\ WantedInv(s)'
  BY <1>3 DEF IInv, OrderInv, BehindInv, WantedInv
<1>5. advertised' = advertised
  BY DEF Close, watchVars
<1> QED BY <1>1, <1>2, <1>4, <1>5, TaskFrame

LEMMA ServeInv ==
    ASSUME IInv, NEW s \in Streams, Task(s), UNCHANGED log
    PROVE  IInv'
<1>0. UNCHANGED <<envoyVars, controlVars, log>>
  BY DEF Task
<1>1. CASE ReceiveSubscription(s)
  <2>1. StreamInv(Snapshot)'
    BY <1>1, ReceiveSubscriptionInv DEF IInv
  <2>2. Head(inbound[s]).type \in Types
    BY <1>1, TakeFacts DEF IInv, ReceiveSubscription, Requests
  <2> QED BY <1>0, <1>1, <2>1, <2>2, TakeInv DEF ReceiveSubscription, watchVars
<1>2. CASE ReceiveAck(s)
  <2>1. StreamInv(Snapshot)'
    BY <1>2, ReceiveAckInv DEF IInv
  <2> QED BY <1>0, <1>2, <2>1, TakeInv DEF ReceiveAck, watchVars
<1>3. CASE ReceiveNack(s)
  <2>1. StreamInv(Snapshot)'
    <3>1. StreamTypeOK(Snapshot)'
      BY <1>3, TakeFacts DEF IInv, StreamInv, StreamTypeOK, ReceiveNack, Take, watchVars
    <3>2. HeldInv(Snapshot)'
      BY <1>3 DEF IInv, StreamInv, HeldInv, ReceiveNack
    <3>3. ASSUME NEW r \in Streams PROVE TaskInv(r)'
      <4>1. Head(inbound[s]).type \in subscribed[s]
        BY <1>3, TakeFacts DEF IInv, StreamInv, TaskInv, ReceiveNack
      <4>2. subscribed' = subscribed
        BY <1>3, <4>1 DEF IInv, StreamInv, StreamTypeOK, ReceiveNack, Take
      <4> QED BY <1>3, <3>3, <4>2, TakeFacts
              DEF IInv, StreamInv, TaskInv, ReceiveNack, Take, watchVars
    <3> QED BY <3>1, <3>2, <3>3 DEF StreamInv
  <2> QED BY <1>0, <1>3, <2>1, TakeInv DEF ReceiveNack, watchVars
<1>4. CASE WatchChanged(s)
  BY <1>0, <1>4, WatchChangedKeeps
<1>5. CASE Push(s)
  BY <1>0, <1>5, PushSkipKeeps, PushSendKeeps, CloseKeeps DEF Push, PushFails
<1>6. CASE StreamEnds(s)
  BY <1>0, <1>6, CloseKeeps DEF StreamEnds
<1> QED BY <1>1, <1>2, <1>3, <1>4, <1>5, <1>6 DEF Task

-----------------------------------------------------------------------------
(* Envoy and its connection. *)

\* What Envoy wants only grows.
LEMMA WantedGrows ==
    ASSUME EnvoyTypeOK(Snapshot), NEW s \in Streams, NEW t \in Types, NEW x \in Snapshot,
           running' = [running EXCEPT ![Owner[s]][t] = x]
    PROVE  \A e \in Envoys : Wanted(e) \subseteq Wanted(e)'
BY RotationAssumption, EnvoyAssumption DEF Wanted, EnvoyTypeOK

LEMMA SubscribeKeeps ==
    ASSUME IInv, NEW s \in Streams, NEW t \in Types, Subscribe(s, t),
           UNCHANGED <<controlVars, log>>
    PROVE  IInv'
<1>1. StreamInv(Snapshot)'
  BY SubscribeInv DEF IInv
<1>2. /\ UNCHANGED <<advertised, up, outbound, pc, held, subscribed, running>>
      /\ up[s]
      /\ t \in Wanted(Owner[s])
      /\ requested' = [requested EXCEPT ![s] = @ \cup {t}]
      /\ inbound' = [inbound EXCEPT ![s] = Append(@, Subscription(t))]
      /\ Snaps' = Snaps /\ Place' = Place
  BY LogKept DEF Subscribe, watchVars, taskVars
<1>3. EnvoyTypeOK(Snapshot)'
  BY <1>2 DEF IInv, EnvoyTypeOK
<1>4. LogInv' /\ ControlInv' /\ RunInv' /\ RotationLands'
  BY <1>2
  DEF IInv, LogInv, ControlInv, MadeInv, RunInv, RotationLands, controlVars
<1>5. Range(inbound'[s]) = Range(inbound[s]) \cup {Subscription(t)}
  <2>1. inbound[s] \in Seq(Requests) /\ Subscription(t) \in Requests
    BY DEF IInv, StreamInv, StreamTypeOK, Subscription, Requests
  <2> QED BY <1>2, <2>1, AppendRange DEF IInv, StreamInv, StreamTypeOK
<1>6. ASSUME NEW r \in Streams PROVE OrderInv(r)' /\ BehindInv(r)' /\ WantedInv(r)'
  <2>1. OrderInv(r)'
    <3>1. pc[s] # "unused"
      BY <1>2 DEF IInv, OrderInv
    <3> QED BY <1>2, <3>1 DEF IInv, OrderInv, StreamInv, StreamTypeOK
  <2>2. BehindInv(r)'
    BY <1>2 DEF IInv, BehindInv
  <2>3. WantedInv(r)'
    <3>1. CASE r = s
      <4>1. requested'[s] = requested[s] \cup {t} /\ Subscription(t).type = t
        BY <1>2 DEF IInv, EnvoyTypeOK, Subscription
      <4> QED BY <1>2, <1>5, <3>1, <4>1 DEF IInv, WantedInv, Wanted
    <3>2. CASE r # s
      BY <1>2, <3>2 DEF IInv, WantedInv, Wanted, EnvoyTypeOK, StreamInv, StreamTypeOK
    <3> QED BY <3>1, <3>2
  <2> QED BY <2>1, <2>2, <2>3
<1> QED BY <1>1, <1>3, <1>4, <1>6 DEF IInv

\* The response an Envoy reads, and what remains of the queue.
LEMMA HeadOrder ==
    ASSUME IInv, NEW s \in Streams, outbound[s] # <<>>
    PROVE  /\ Head(outbound[s]) \in Responses(Snapshot)
           /\ Head(outbound[s]) = outbound[s][1]
           /\ 1 \in 1 .. Len(outbound[s])
           /\ Len(Tail(outbound[s])) = Len(outbound[s]) - 1
           /\ Len(outbound[s]) \in Nat
           /\ \A i \in 1 .. Len(Tail(outbound[s])) :
                 /\ i + 1 \in 1 .. Len(outbound[s])
                 /\ Tail(outbound[s])[i] = outbound[s][i + 1]
<1>1. outbound[s] \in Seq(Responses(Snapshot))
  BY DEF IInv, StreamInv, StreamTypeOK
<1>2. /\ Len(outbound[s]) \in Nat \ {0}
      /\ Len(Tail(outbound[s])) = Len(outbound[s]) - 1
      /\ \A i \in 1 .. Len(Tail(outbound[s])) : Tail(outbound[s])[i] = outbound[s][i + 1]
  BY <1>1, HeadTailProperties, EmptySeq, LenProperties
<1>3. Head(outbound[s]) = outbound[s][1]
  BY <1>1
<1>4. Head(outbound[s]) \in Responses(Snapshot)
  BY <1>1, TailRange
<1> QED BY <1>2, <1>3, <1>4

\* A response is read, and either taken over or refused.
LEMMA ReplyKeeps ==
    ASSUME IInv, NEW s \in Streams, NEW req \in Requests,
           req.type = Head(outbound[s]).type, Reply(s, req),
           UNCHANGED <<controlVars, log>>,
           \/ running' = running
           \/ running' = [running EXCEPT ![Owner[s]][Head(outbound[s]).type] =
                                             Head(outbound[s]).snap]
    PROVE  IInv'
<1> DEFINE resp == Head(outbound[s])
           e    == Owner[s]
<1>1. StreamInv(Snapshot)'
  BY ReplyInv DEF IInv
<1>2. /\ UNCHANGED <<advertised, up, pc, held, subscribed, requested>>
      /\ up[s] /\ outbound[s] # <<>>
      /\ outbound' = [outbound EXCEPT ![s] = Tail(@)]
      /\ inbound' = [inbound EXCEPT ![s] = Append(@, req)]
      /\ Snaps' = Snaps /\ Place' = Place
  BY LogKept DEF Reply, watchVars, taskVars
<1>3. /\ resp \in Responses(Snapshot)
      /\ resp.type \in Types
      /\ resp.snap \in Snapshot
      /\ resp.snap \in Snaps
      /\ resp = outbound[s][1]
      /\ e \in Envoys
  BY <1>2, HeadOrder, EnvoyAssumption DEF Responses, IInv, OrderInv
<1>4. EnvoyTypeOK(Snapshot)'
  BY <1>2, <1>3 DEF IInv, EnvoyTypeOK
<1>5. LogInv' /\ ControlInv' /\ RotationLands'
  BY <1>2 DEF IInv, LogInv, ControlInv, MadeInv, RotationLands, controlVars
<1>6. \A d \in Envoys, t \in Types :
          \/ running'[d][t] = running[d][t]
          \/ d = e /\ t = resp.type /\ running'[d][t] = resp.snap
  <2>1. running \in [Envoys -> [Types -> Snapshot \cup {NoSnap}]]
    BY DEF IInv, EnvoyTypeOK
  <2>2. \/ running' = running
        \/ running' = [running EXCEPT ![e][resp.type] = resp.snap]
    OBVIOUS
  <2> HIDE DEF resp, e
  <2> QED BY <1>3, <2>1, <2>2
<1>7. RunInv'
  BY <1>2, <1>3, <1>6 DEF IInv, RunInv
<1>8. outbound'[s] = Tail(outbound[s]) /\ \A r \in Streams \ {s} : outbound'[r] = outbound[r]
  BY <1>2 DEF IInv, StreamInv, StreamTypeOK
<1>9. ASSUME NEW r \in Streams PROVE OrderInv(r)'
  <2>1. CASE r = s
    <3>1. ASSUME NEW i \in 1 .. Len(outbound'[s])
          PROVE  /\ outbound'[s][i].snap \in Snaps
                 /\ outbound'[s][i].type \in Served
                 /\ pc[s] = "push" => Place[outbound'[s][i].snap] <= Place[held[s]]
                 /\ \A j \in i .. Len(outbound'[s]) :
                       Place[outbound'[s][i].snap] <= Place[outbound'[s][j].snap]
      <4>1. \A j \in i .. Len(outbound'[s]) :
                /\ j \in 1 .. Len(outbound'[s])
                /\ j + 1 \in i + 1 .. Len(outbound[s])
        <5>1. Len(outbound'[s]) = Len(outbound[s]) - 1 /\ Len(outbound[s]) \in Nat
          BY <1>2, <1>8, HeadOrder
        <5> QED BY <5>1
      <4> QED BY <1>2, <1>8, <4>1, HeadOrder DEF IInv, OrderInv
    <3>2. pc[s] # "unused"
      BY <1>2 DEF IInv, OrderInv
    <3> QED BY <1>2, <2>1, <3>1, <3>2 DEF IInv, OrderInv
  <2>2. CASE r # s
    BY <1>2, <1>8, <2>2 DEF IInv, OrderInv, StreamInv, StreamTypeOK
  <2> QED BY <2>1, <2>2
<1>10. ASSUME NEW r \in Streams PROVE BehindInv(r)'
  <2>1. SUFFICES ASSUME up[r], NEW t \in Types
        PROVE /\ \A i \in 1 .. Len(outbound'[r]) :
                    Place[running'[Owner[r]][t]] <= Place[outbound'[r][i].snap]
              /\ pc[r] = "push" => Place[running'[Owner[r]][t]] <= Place[held[r]]
    BY <1>2 DEF BehindInv
  <2>2. CASE running'[Owner[r]][t] = running[Owner[r]][t]
    <3>1. CASE r = s
      BY <1>2, <1>8, <2>1, <2>2, <3>1, HeadOrder DEF IInv, BehindInv
    <3>2. CASE r # s
      BY <1>8, <2>1, <2>2, <3>2 DEF IInv, BehindInv
    <3> QED BY <3>1, <3>2
  <2>3. CASE Owner[r] = e /\ running'[Owner[r]][t] = resp.snap
    <3>1. r = s
      BY <1>2, <2>1, <2>3 DEF IInv, WantedInv
    <3>2. \A i \in 1 .. Len(outbound[s]) : Place[resp.snap] <= Place[outbound[s][i].snap]
      BY <1>2, <1>3, HeadOrder DEF IInv, OrderInv
    <3>3. pc[s] = "push" => Place[resp.snap] <= Place[held[s]]
      BY <1>2, <1>3, HeadOrder DEF IInv, OrderInv
    <3> QED BY <1>2, <1>8, <2>3, <3>1, <3>2, <3>3, HeadOrder
  <2> QED
    <3>1. Owner[r] \in Envoys
      BY EnvoyAssumption
    <3> QED BY <1>6, <2>2, <2>3, <3>1
<1>11. ASSUME NEW r \in Streams PROVE WantedInv(r)'
  <2>1. Owner[r] \in Envoys
    BY EnvoyAssumption
  <2>2. Wanted(Owner[r]) \subseteq Wanted(Owner[r])'
    <3>1. CASE running' = running
      BY <3>1 DEF Wanted
    <3> QED BY <1>3, <2>1, <3>1, WantedGrows DEF IInv
  <2>3. CASE r = s
    <3>1. Range(inbound'[s]) = Range(inbound[s]) \cup {req}
      <4>1. inbound[s] \in Seq(Requests)
        BY DEF IInv, StreamInv, StreamTypeOK
      <4> QED BY <1>2, <4>1, AppendRange DEF IInv, StreamInv, StreamTypeOK
    <3>2. resp \in Range(outbound[s])
      <4>1. outbound[s] \in Seq(Responses(Snapshot))
        BY DEF IInv, StreamInv, StreamTypeOK
      <4> QED BY <1>2, <4>1, TailRange
    <3>3. req.type \in requested[s]
      BY <1>2, <3>2 DEF IInv, StreamInv, TaskInv, WantedInv
    <3> QED BY <1>2, <2>2, <2>3, <3>1, <3>3 DEF IInv, WantedInv
  <2>4. CASE r # s
    BY <1>2, <2>2, <2>4 DEF IInv, WantedInv, StreamInv, StreamTypeOK
  <2> QED BY <2>3, <2>4
<1> QED BY <1>1, <1>4, <1>5, <1>7, <1>9, <1>10, <1>11 DEF IInv

LEMMA EnvoyInv ==
    ASSUME IInv, NEW s \in Streams, Envoy(s), UNCHANGED log
    PROVE  IInv'
<1>1. UNCHANGED <<controlVars, log>>
  BY DEF Envoy
<1>2. CASE \E t \in Types : Subscribe(s, t)
  BY <1>1, <1>2, SubscribeKeeps
<1>3. CASE Accept(s) \/ Reject(s)
  <2> DEFINE resp == Head(outbound[s])
  <2>1. outbound[s] # <<>>
    BY <1>3 DEF Accept, Reject, Reply
  <2>2. resp.type \in Types /\ resp.snap.version \in Nat
    BY <2>1, HeadOrder DEF Responses, Snapshot
  <2>3. PICK req \in {Ack(resp.type, NonceOf(resp)), Nack(resp.type, NonceOf(resp))} :
            Reply(s, req)
    BY <1>3 DEF Accept, Reject
  <2>4. req \in Requests /\ req.type = resp.type
    <3>1. NonceOf(resp) \in Nat
      BY <2>2 DEF NonceOf
    <3> HIDE DEF resp
    <3>2. \A t \in Types, n \in Nat :
             /\ Ack(t, n) \in Requests /\ Ack(t, n).type = t
             /\ Nack(t, n) \in Requests /\ Nack(t, n).type = t
      BY DEF Ack, Nack, Requests
    <3> QED BY <2>2, <2>3, <3>1, <3>2
  <2>5. \/ running' = running
        \/ running' = [running EXCEPT ![Owner[s]][resp.type] = resp.snap]
    BY <1>3 DEF Accept, Reject
  <2> QED BY <1>1, <2>3, <2>4, <2>5, ReplyKeeps
<1> QED BY <1>2, <1>3 DEF Envoy

LEMMA LinkInv ==
    ASSUME IInv, NEW s \in Streams, Link(s) \/ Drop(s), UNCHANGED log
    PROVE  IInv'
<1>1. StreamInv(Snapshot)'
  BY OpenInv, CutInv DEF IInv, Link, Connect, Drop, Disconnect
<1>2. /\ UNCHANGED <<advertised, held, inbound, outbound, subscribed, running, controlVars>>
      /\ Snaps' = Snaps /\ Place' = Place
  BY LogKept DEF Link, Connect, Open, Drop, Disconnect, Cut, watchVars, taskVars, envoyVars
<1>3. EnvoyTypeOK(Snapshot)'
  BY DEF IInv, EnvoyTypeOK, envoyVars, Link, Connect, Drop, Disconnect
<1>4. LogInv' /\ ControlInv' /\ RunInv' /\ RotationLands'
  BY <1>2
  DEF IInv, LogInv, ControlInv, MadeInv, RunInv, RotationLands, controlVars
<1>5. CASE Link(s)
  <2>1. /\ pc[s] = "unused" /\ pc' = [pc EXCEPT ![s] = "select"]
        /\ up' = [up EXCEPT ![s] = TRUE]
        /\ requested' = requested
        /\ \A r \in Streams : up[r] => Owner[r] # Owner[s]
    BY <1>5 DEF Link, Connect, Connected, Open, envoyVars
  <2>2. inbound[s] = <<>> /\ outbound[s] = <<>> /\ ~up[s] /\ subscribed[s] = {}
    BY <2>1 DEF IInv, OrderInv, StreamInv, TaskInv
  <2>3. requested[s] = {} /\ Range(inbound[s]) = {}
    BY <2>2, EmptyRange DEF IInv, WantedInv
  <2>4. ASSUME NEW r \in Streams PROVE OrderInv(r)' /\ BehindInv(r)' /\ WantedInv(r)'
    <3>1. OrderInv(r)'
      BY <1>2, <2>1, <2>2 DEF IInv, OrderInv, StreamInv, StreamTypeOK
    <3>2. BehindInv(r)'
      BY <1>2, <2>1, <2>2 DEF IInv, BehindInv, StreamInv, StreamTypeOK
    <3>3. WantedInv(r)'
      BY <1>2, <2>1, <2>2, <2>3 DEF IInv, WantedInv, Wanted, StreamInv, StreamTypeOK
    <3> QED BY <3>1, <3>2, <3>3
  <2> QED BY <1>1, <1>3, <1>4, <2>4 DEF IInv
<1>6. CASE Drop(s)
  <2>1. /\ up' = [up EXCEPT ![s] = FALSE] /\ pc' = pc
        /\ requested' = [requested EXCEPT ![s] = {}]
    BY <1>6 DEF Drop, Disconnect, Cut, taskVars
  <2>2. ASSUME NEW r \in Streams PROVE OrderInv(r)' /\ BehindInv(r)' /\ WantedInv(r)'
    BY <1>2, <2>1
    DEF IInv, OrderInv, BehindInv, WantedInv, Wanted, StreamInv, StreamTypeOK, EnvoyTypeOK
  <2> QED BY <1>1, <1>3, <1>4, <2>2 DEF IInv
<1> QED BY <1>5, <1>6

-----------------------------------------------------------------------------
(* The theorems. *)

\* The step theorem: every action, and a stutter, preserves the invariant.
THEOREM NextIInv == IInv /\ [FeedNext]_feedVars => IInv'
<1> SUFFICES ASSUME IInv, [FeedNext]_feedVars PROVE IInv'
  OBVIOUS
<1>1. CASE UNCHANGED feedVars
  <2>1. UNCHANGED <<streamVars, envoyVars, controlVars, log>>
    BY <1>1 DEF feedVars, vars
  <2>2. LogInv' /\ ControlInv' /\ RotationLands'
    BY <2>1, LogKept
    DEF IInv, LogInv, ControlInv, MadeInv, RotationLands, controlVars, streamVars, watchVars
  <2> QED BY <2>1, <2>2, StreamsKept DEF IInv
<1>2. ASSUME NEW a \in Admins, (Rotate(a) \/ RotateFails(a)) /\ UNCHANGED log PROVE IInv'
  BY <1>2, RotateInv, RotateFailsInv
<1>3. ASSUME NEW a \in Admins, Publish(a) /\ Write PROVE IInv'
  BY <1>3, PublishInv
<1>4. CASE Restart /\ log' = Append(log, advertised')
  BY <1>4, RestartInv
<1>5. ASSUME NEW s \in Streams,
             (Task(s) \/ Envoy(s) \/ Link(s) \/ Drop(s)) /\ UNCHANGED log
      PROVE  IInv'
  BY <1>5, ServeInv, EnvoyInv, LinkInv
<1> QED BY <1>1, <1>2, <1>3, <1>4, <1>5 DEF FeedNext

THEOREM Invariance == FeedSpec => []IInv
BY InitIInv, NextIInv, PTL DEF FeedSpec

\* Every variable keeps its type, over any number of rotations and restarts.
THEOREM TypeCorrect == FeedSpec => []TypeOK
<1>1. IInv => TypeOK
  BY DEF IInv, StreamInv, ControlInv, TypeOK
<1> QED BY <1>1, Invariance, PTL

\* Each certificate that was minted is advertised or about to be: see RotationLands.
THEOREM CertificatesLand == FeedSpec => []RotationLands
<1>1. IInv => RotationLands
  BY DEF IInv
<1> QED BY <1>1, Invariance, PTL

\* No change of the watch channel is lost on a task that is busy or blocked:
\* see NoLostPush.
THEOREM PushesNotLost == FeedSpec => []NoLostPush
<1>1. IInv => NoLostPush
  BY DEF IInv, StreamInv, TaskInv, NoLostPush
<1> QED BY <1>1, Invariance, PTL

\* A step at which the log and what Envoys run stay as they are is none of
\* ConfigFeed's, though it may change who listens.
LEMMA StillStep ==
    ASSUME UNCHANGED <<log, running>>
    PROVE  Feed!Next
BY LogKept DEF Feed!Next

\* A step that puts a new snapshot into the log is ConfigFeed's Advertise.
LEMMA AdvertiseStep ==
    ASSUME IInv, UNCHANGED running, NEW x \in Snapshot, log' = Append(log, x),
           \A y \in Snaps \cup {NoSnap} : Place'[y] = Place[y]
    PROVE  Feed!Next
<1>1. /\ Len(log') = Len(log) + 1
      /\ log'[Len(log) + 1] = x
  BY AppendProperties DEF IInv, LogInv
<1>2. \A c \in Consumers : Place'[running'[c[1]][c[2]]] = Place[running[c[1]][c[2]]]
  BY DEF IInv, RunInv, Consumers
<1>3. Feed!Advertise
  BY <1>1, <1>2 DEF Feed!Advertise
<1> QED BY <1>3 DEF Feed!Next

LEMMA AcceptStep ==
    ASSUME IInv, NEW s \in Streams, Accept(s), ~Refuses(Head(outbound[s])), UNCHANGED log
    PROVE  Feed!Next
<1> DEFINE resp == Head(outbound[s])
           mine == [d \in Consumers |-> Place[running[d[1]][d[2]]]]
<1>1. /\ up[s] /\ outbound[s] # <<>>
      /\ running' = [running EXCEPT ![Owner[s]][resp.type] = resp.snap]
      /\ Place' = Place
  BY LogKept DEF Accept, Reply
<1>2. /\ resp = outbound[s][1] /\ 1 \in 1 .. Len(outbound[s])
      /\ resp \in Responses(Snapshot)
      /\ Owner[s] \in Envoys /\ resp.type \in Types
  BY <1>1, HeadOrder, EnvoyAssumption DEF Responses
<1>3. resp.type \in Wanted(Owner[s]) /\ resp.type \in Served
  <2>1. resp \in Range(outbound[s])
    BY <1>1, TailRange DEF IInv, StreamInv, StreamTypeOK
  <2>2. resp.type \in subscribed[s]
    BY <2>1 DEF IInv, StreamInv, TaskInv
  <2>3. resp.type \in Wanted(Owner[s])
    BY <1>1, <2>2 DEF IInv, WantedInv
  <2> QED BY <1>2, <2>3 DEF IInv, OrderInv
<1>4. PICK c \in Consumers : c = <<Owner[s], resp.type>>
  BY <1>2 DEF Consumers
<1>5. Listens(c[1], c[2])
  BY <1>1, <1>3, <1>4 DEF Listens
<1>6. /\ resp.snap \in Snaps
      /\ Place[resp.snap] \in 1 .. Len(log) /\ log[Place[resp.snap]] = resp.snap
      /\ Len(log) \in Nat
  BY <1>2, PlaceFacts DEF IInv, OrderInv
<1>7. mine[c] <= Place[resp.snap]
  BY <1>1, <1>2, <1>4 DEF IInv, BehindInv
<1>8. mine[c] \in Nat
  BY <1>2, <1>4, PlaceFacts DEF IInv, RunInv
<1>9. mine' = [mine EXCEPT ![c] = Place[resp.snap]]
  <2>1. running \in [Envoys -> [Types -> Snapshot \cup {NoSnap}]]
    BY DEF IInv, EnvoyTypeOK
  <2>2. ASSUME NEW d \in Consumers
        PROVE  running'[d[1]][d[2]] = IF d = c THEN resp.snap ELSE running[d[1]][d[2]]
    <3>1. d \in Envoys \X Types /\ d = <<d[1], d[2]>>
      BY DEF Consumers
    <3>2. running'[d[1]][d[2]] =
            IF d[1] = Owner[s] /\ d[2] = resp.type THEN resp.snap ELSE running[d[1]][d[2]]
      <4> HIDE DEF resp
      <4> QED BY <1>1, <1>2, <2>1, <3>1
    <3>3. d = c <=> d[1] = Owner[s] /\ d[2] = resp.type
      BY <1>4, <3>1
    <3> QED BY <3>2, <3>3
  <2>3. ASSUME NEW d \in Consumers
        PROVE  Place'[running'[d[1]][d[2]]] =
                 IF d = c THEN Place[resp.snap] ELSE Place[running[d[1]][d[2]]]
    BY <1>1, <2>2
  <2> QED BY <1>4, <2>3
<1>10. <<c, resp.snap>> \notin {<<e, "SDS">> : e \in Envoys} \X Refused
  <2>1. c[2] = "SDS" => resp.snap \notin Refused
    BY <1>4 DEF Refuses
  <2> QED BY <2>1
<1>11. CASE mine[c] = Place[resp.snap]
  <2>1. mine' = mine
    BY <1>9, <1>11
  <2> QED BY <2>1 DEF Feed!Next
<1>12. CASE mine[c] # Place[resp.snap]
  <2>1. Place[resp.snap] \in mine[c] + 1 .. Len(log)
    <3>1. \A m, p, n \in Nat : p \in 1 .. n /\ m <= p /\ m # p => p \in m + 1 .. n
      OBVIOUS
    <3> HIDE DEF mine, resp
    <3> QED BY <1>6, <1>7, <1>8, <1>12, <3>1
  <2>2. Feed!Advance(c)
    BY <1>4, <1>5, <1>6, <1>9, <1>10, <2>1 DEF Feed!Advance
  <2> QED BY <2>2 DEF Feed!Next
<1> QED BY <1>11, <1>12

LEMMA FeedStep == IInv /\ [FeedNext]_feedVars => [Feed!Next]_(Feed!vars)
<1> SUFFICES ASSUME IInv, [FeedNext]_feedVars PROVE Feed!Next
  OBVIOUS
<1>1. CASE UNCHANGED feedVars
  BY <1>1, StillStep DEF feedVars, vars, envoyVars
<1>2. ASSUME NEW a \in Admins, (Rotate(a) \/ RotateFails(a)) /\ UNCHANGED log
      PROVE  Feed!Next
  BY <1>2, StillStep DEF Rotate, RotateFails, envoyVars
<1>3. ASSUME NEW a \in Admins, Publish(a) /\ Write PROVE Feed!Next
  <2>1. made[a] \in Snapshot /\ made[a].body <= minted /\ minted \in Nat
    BY <1>3 DEF IInv, ControlInv, MadeInv, Publish
  <2>2. \A y \in Snaps : y.body # made[a].body
    BY <1>3 DEF IInv, ControlInv, MadeInv, Publish
  <2>3. log' = Append(log, made[a]) /\ advertised' = made[a]
    BY <1>3, PublishGrows
  <2>4. minted' = minted /\ running' = running
    BY <1>3 DEF Publish, envoyVars
  <2>5. \A y \in Snaps \cup {NoSnap} : Place'[y] = Place[y]
    BY <2>1, <2>2, <2>3, <2>4, LogGrows DEF IInv
  <2> QED BY <2>1, <2>3, <2>4, <2>5, AdvertiseStep
<1>4. CASE Restart /\ log' = Append(log, advertised')
  <2> DEFINE first == Build(1, minted + 1)
  <2>1. /\ minted \in Nat /\ minted' = minted + 1
        /\ advertised' = first /\ running' = running
    BY <1>4 DEF IInv, ControlInv, Restart, Crash
  <2>2. first \in Snapshot /\ first.body = minted + 1
    BY <2>1 DEF Build, Snapshot
  <2>3. \A y \in Snaps : y.body # first.body
    BY <2>1, <2>2, PlaceFacts DEF IInv, LogInv, Snapshot
  <2> HIDE DEF first
  <2>4. \A y \in Snaps \cup {NoSnap} : Place'[y] = Place[y]
    BY <1>4, <2>1, <2>2, <2>3, LogGrows DEF IInv
  <2> QED BY <1>4, <2>1, <2>2, <2>4, AdvertiseStep
<1>5. ASSUME NEW s \in Streams,
             (Task(s) \/ Envoy(s) \/ Link(s) \/ Drop(s)) /\ UNCHANGED log
      PROVE  Feed!Next
  <2>1. CASE Accept(s) /\ ~Refuses(Head(outbound[s]))
    BY <1>5, <2>1, AcceptStep
  <2>2. CASE ~(Accept(s) /\ ~Refuses(Head(outbound[s])))
    BY <1>5, <2>2, StillStep
    DEF Task, Envoy, Subscribe, Reject, Link, Connect, Drop, Disconnect, envoyVars
  <2> QED BY <2>1, <2>2
<1> QED BY <1>1, <1>2, <1>3, <1>4, <1>5 DEF FeedNext

LEMMA FeedStarts == FeedInit => Feed!Init
<1> SUFFICES ASSUME FeedInit PROVE Feed!Init
  OBVIOUS
<1>1. log = <<Build(1, 1)>> /\ Build(1, 1) \in Snapshot
  BY DEF FeedInit, Init, StreamInit, Build, Snapshot
<1>2. \A e \in Envoys, t \in Types : running[e][t] = NoSnap
  BY DEF FeedInit, Init, EnvoyInit
<1>3. \A e \in Envoys, t \in Types : ~Listens(e, t)
  BY DEF FeedInit, Init, StreamInit, Listens
<1>4. Place[NoSnap] = 0
  BY DEF Place
<1> QED BY <1>1, <1>2, <1>3, <1>4 DEF Feed!Init, Consumers

\* Each type of each Envoy goes through the certificates in the order in which
\* they were advertised, and never back: see FeedSafety.
THEOREM FeedImplemented == FeedSpec => FeedSafety
BY FeedStarts, FeedStep, Invariance, PTL DEF FeedSpec, FeedSafety, Feed!Safety

-----------------------------------------------------------------------------
(***************************************************************************)
(* Then: what a quiet stream's Envoy runs.  Versions repeat over restarts, *)
(* so that one says what a snapshot is only within one process.            *)
(***************************************************************************)

\* What has been advertised since the last restart, and is about to be.
Current == {x \in Snaps : \A y \in Snaps : y.version = 1 => y.body <= x.body}
Drawn   == Current \cup ({made[a] : a \in Admins} \ {NoSnap})

\* Within one process a version names one snapshot, and only that process's
\* snapshots are on their way.
VersionInv ==
    /\ advertised \in Current
    /\ \A x \in Drawn : x.version \in 1 .. version
    /\ \A x, y \in Drawn : x.version = y.version => x = y
    /\ \A a \in Admins : made[a] # NoSnap =>
          /\ made[a].version # 1
          /\ \A y \in Snaps : y.version = 1 => y.body <= made[a].body

CopyInv ==
    /\ \A s \in Streams : pc[s] = "push" => held[s] \in Current
    /\ \A s \in Streams : \A resp \in Range(outbound[s]) : resp.snap \in Current

\* Envoy e runs snapshot x for type t, or refuses it.
Settled(e, t, x) == running[e][t] = x \/ Refuses(BuildResponse(x, t))

\* What a task has sent last of a type is on its way or settled.
GotInv(s) ==
    up[s] => \A t \in Types :
        \/ sent_version[s][t] = 0
        \/ LastIs(outbound[s], t, sent_version[s][t])
        \/ /\ NoneOf(outbound[s], t)
           /\ \E x \in Current :
                 x.version = sent_version[s][t] /\ Settled(Owner[s], t, x)

NewestInv ==
    /\ VersionInv
    /\ CopyInv
    /\ AskInv
    /\ \A s \in Streams : GotInv(s)

LEMMA InitNewest == FeedInit => NewestInv
<1> SUFFICES ASSUME FeedInit PROVE NewestInv
  OBVIOUS
<1> USE DEF FeedInit, Init, StreamInit
<1> DEFINE first == Build(1, 1)
<1>1. first.version = 1 /\ first.body = 1 /\ advertised = first
  BY DEF Build
<1> HIDE DEF first
<1>2. Snaps = {first}
  <2>1. log = <<first>>
    BY <1>1
  <2>2. DOMAIN <<first>> = {1} /\ <<first>>[1] = first
    OBVIOUS
  <2> QED BY <2>1, <2>2 DEF Snaps, Range
<1>3. Current = {first} /\ Drawn = {first}
  BY <1>1, <1>2 DEF Current, Drawn
<1>4. VersionInv
  BY <1>1, <1>3 DEF VersionInv
<1>5. CopyInv /\ \A s \in Streams : GotInv(s)
  BY EmptyRange DEF CopyInv, GotInv
<1> QED BY <1>4, <1>5, AskInit DEF NewestInv

-----------------------------------------------------------------------------
(* The control plane. *)

LEMMA SnapsTyped ==
    ASSUME IInv
    PROVE  /\ \A x \in Snaps : /\ x \in Snapshot /\ x # NoSnap
                               /\ x.version \in Nat /\ x.body \in Nat /\ x.body <= minted
           /\ version \in Nat /\ minted \in Nat
           /\ made \in [Admins -> Snapshot \cup {NoSnap}]
<1>1. LogInv
  BY DEF IInv
<1>2. \A x \in Snaps : x \in Snapshot /\ x # NoSnap /\ x.body <= minted
  BY <1>1, PlaceFacts DEF LogInv
<1> QED BY <1>2 DEF Snapshot, IInv, ControlInv

\* The streams keep what they have when Current only grows.
LEMMA CurrentGrows ==
    ASSUME NewestInv, UNCHANGED <<wireVars, taskVars, envoyVars>>,
           Current \subseteq Current', VersionInv'
    PROVE  NewestInv'
<1> USE DEF NewestInv
<1>1. CopyInv'
  BY DEF CopyInv, wireVars, taskVars
<1>2. ASSUME NEW s \in Streams PROVE GotInv(s)'
  BY <1>2 DEF GotInv, Settled, wireVars, taskVars, envoyVars
<1>3. AskInv'
  <2>1. UNCHANGED <<up, inbound, pc, subscribed, sent_version, envoyVars>>
    BY DEF wireVars, taskVars
  <2> QED BY <2>1, AskKept
<1> QED BY <1>1, <1>2, <1>3

LEMMA RotateNewest ==
    ASSUME IInv, NewestInv, NEW a \in Admins, Rotate(a) \/ RotateFails(a), UNCHANGED log
    PROVE  NewestInv'
<1>1. /\ Snaps' = Snaps /\ Current' = Current
      /\ UNCHANGED <<advertised, wireVars, taskVars, envoyVars>>
      /\ version' = version + 1
  BY LogKept DEF Current, Rotate, RotateFails, streamVars, watchVars
<1>2. /\ \A x \in Snaps : x.body \in Nat /\ x.body <= minted
      /\ version \in Nat /\ minted \in Nat
      /\ made \in [Admins -> Snapshot \cup {NoSnap}]
  BY SnapsTyped
<1>3. version >= 1 /\ VersionInv
  BY <1>2 DEF NewestInv, VersionInv, Drawn
<1>4. CASE Rotate(a)
  <2> DEFINE new == Build(version + 1, minted + 1)
  <2>1. /\ made' = [made EXCEPT ![a] = new]
        /\ new.version = version + 1 /\ new.body = minted + 1
    BY <1>4 DEF Rotate, Build
  <2> HIDE DEF new
  <2>2. Drawn' \subseteq Drawn \cup {new}
    BY <1>1, <1>2, <2>1 DEF Drawn
  <2>3. VersionInv'
    BY <1>1, <1>2, <1>3, <2>1, <2>2 DEF VersionInv
  <2> QED BY <1>1, <2>3, CurrentGrows
<1>5. CASE RotateFails(a)
  <2>1. made' = made /\ Drawn' = Drawn
    BY <1>1, <1>5 DEF RotateFails, Drawn
  <2>2. VersionInv'
    BY <1>1, <1>2, <1>3, <2>1 DEF VersionInv
  <2> QED BY <1>1, <2>2, CurrentGrows
<1> QED BY <1>4, <1>5

LEMMA PublishNewest ==
    ASSUME IInv, NewestInv, NEW a \in Admins, Publish(a), Write
    PROVE  NewestInv'
<1> DEFINE x == made[a]
<1>1. /\ x # NoSnap /\ x \in Drawn /\ VersionInv
      /\ x.version # 1 /\ \A y \in Snaps : y.version = 1 => y.body <= x.body
  BY DEF Publish, NewestInv, VersionInv, Drawn
<1>2. /\ advertised' = x /\ log' = Append(log, x)
      /\ made' = [made EXCEPT ![a] = NoSnap]
      /\ UNCHANGED <<version, wireVars, taskVars, envoyVars>>
  BY PublishGrows DEF Publish
<1>3. /\ made \in [Admins -> Snapshot \cup {NoSnap}]
      /\ \A y \in Snaps : y.body \in Nat
      /\ x \in Snapshot /\ x.body \in Nat
  BY <1>1, SnapsTyped DEF Snapshot
<1> HIDE DEF x
<1>4. Snaps' = Snaps \cup {x}
  BY <1>2, <1>3, AppendRange DEF Snaps, IInv, LogInv
<1>5. Current' = Current \cup {x}
  BY <1>1, <1>3, <1>4 DEF Current
<1>6. Drawn' \subseteq Drawn
  BY <1>1, <1>2, <1>3, <1>5 DEF Drawn
<1>7. VersionInv'
  <2>1. ASSUME NEW b \in Admins, made'[b] # NoSnap
        PROVE  /\ made'[b].version # 1
               /\ \A y \in Snaps' : y.version = 1 => y.body <= made'[b].body
    BY <1>1, <1>2, <1>3, <1>4, <2>1 DEF VersionInv
  <2> QED BY <1>1, <1>2, <1>5, <1>6, <2>1 DEF VersionInv
<1> QED BY <1>2, <1>5, <1>7, CurrentGrows

\* A restart begins a process of its own, to which nothing older belongs.
LEMMA RestartNewest ==
    ASSUME IInv, Restart, log' = Append(log, advertised')
    PROVE  NewestInv'
<1> DEFINE first == Build(1, minted + 1)
<1>1. /\ \A x \in Snaps : x.body \in Nat /\ x.body <= minted
      /\ minted \in Nat
  BY SnapsTyped
<1>2. /\ first.version = 1 /\ first.body = minted + 1 /\ first \in Snapshot
      /\ version' = 1 /\ made' = [b \in Admins |-> NoSnap]
      /\ Crash(first) /\ requested' = [s \in Streams |-> {}]
      /\ advertised' = first /\ log' = Append(log, first)
  BY <1>1 DEF Restart, Crash, Build, Snapshot
<1> HIDE DEF first
<1>3. Snaps' = Snaps \cup {first}
  BY <1>2, AppendRange DEF Snaps, IInv, LogInv
<1>4. Current' = {first}
  BY <1>1, <1>2, <1>3 DEF Current
<1>5. Drawn' = {first}
  BY <1>2, <1>4 DEF Drawn
<1>6. VersionInv'
  BY <1>2, <1>4, <1>5 DEF VersionInv
<1>7. CopyInv' /\ \A s \in Streams : GotInv(s)'
  BY <1>2, EmptyRange DEF Crash, CopyInv, GotInv
<1>8. AskInv'
  BY <1>2, AskCrash
<1> QED BY <1>6, <1>7, <1>8 DEF NewestInv

-----------------------------------------------------------------------------
(* Tasks and Envoy. *)

\* What is left to show of a step that leaves the control plane alone.
LEMMA StreamStepNewest ==
    ASSUME NewestInv, UNCHANGED <<advertised, controlVars, log>>,
           CopyInv', AskInv', \A s \in Streams : GotInv(s)'
    PROVE  NewestInv'
<1>1. Snaps' = Snaps /\ Current' = Current /\ Drawn' = Drawn
  BY LogKept DEF Current, Drawn, controlVars
<1> QED BY <1>1 DEF NewestInv, VersionInv, controlVars

LEMMA TaskNewest ==
    ASSUME IInv, NewestInv, NEW s \in Streams, Task(s), UNCHANGED log
    PROVE  NewestInv'
<1> USE DEF NewestInv
<1>1. StreamInv(Snapshot) /\ UNCHANGED <<envoyVars, controlVars>>
  BY DEF IInv, Task
<1>2. Current' = Current /\ advertised \in Current
  BY LogKept DEF Current, VersionInv
<1> USE DEF StreamInv, StreamTypeOK, watchVars, wireVars, Visit
<1>3. CASE \/ ReceiveSubscription(s) \/ ReceiveAck(s) \/ ReceiveNack(s) \/ WatchChanged(s)
           \/ \E t \in Types : PushSkip(s, t)
  <2>1. /\ UNCHANGED <<advertised, up, outbound, sent_version>>
        /\ \A r \in Streams :
              /\ pc'[r] \in {"unused", "closed"} <=> pc[r] \in {"unused", "closed"}
              /\ pc'[r] = "push" => held'[r] = advertised
                                    \/ (pc[r] = "push" /\ held'[r] = held[r])
    BY <1>1, <1>3
    DEF ReceiveSubscription, ReceiveAck, ReceiveNack, WatchChanged, PushSkip, Take
  <2>2. AskInv'
    <3>1. CASE ReceiveSubscription(s) \/ ReceiveAck(s) \/ ReceiveNack(s)
      <4>1. Take(s)
        BY <3>1 DEF ReceiveSubscription, ReceiveAck, ReceiveNack
      <4> QED BY <1>1, <2>1, <4>1, AskTake
    <3>2. CASE WatchChanged(s) \/ \E t \in Types : PushSkip(s, t)
      <4>1. UNCHANGED <<inbound, subscribed>>
        BY <3>2 DEF WatchChanged, PushSkip
      <4> QED BY <1>1, <2>1, <4>1, AskKept
    <3> QED BY <1>3, <3>1, <3>2
  <2>3. CopyInv'
    BY <1>2, <2>1 DEF CopyInv
  <2>4. ASSUME NEW r \in Streams PROVE GotInv(r)'
    BY <1>1, <1>2, <2>1, <2>4 DEF GotInv, Settled, envoyVars
  <2> QED BY <1>1, <2>1, <2>2, <2>3, <2>4, StreamStepNewest
<1>4. ASSUME NEW t \in Types, PushSend(s, t) PROVE NewestInv'
  <2> DEFINE resp == BuildResponse(held[s], t)
  <2>1. /\ resp \in Responses(Snapshot) /\ resp.type = t /\ resp.snap = held[s]
        /\ held[s] \in Current
    BY <1>1, <1>4 DEF HeldInv, CopyInv, PushSend, BuildResponse, Responses
  <2>2. /\ outbound[s] \in Seq(Responses(Snapshot))
        /\ \A r \in Streams : outbound'[r] =
              IF r = s THEN Append(outbound[s], resp) ELSE outbound[r]
        /\ \A r \in Streams, u \in Types : sent_version'[r][u] =
              IF r = s /\ u = t THEN held[s].version ELSE sent_version[r][u]
        /\ UNCHANGED <<advertised, up>>
        /\ \A r \in Streams : pc'[r] = "push" => pc[r] = "push" /\ held'[r] = held[r]
    BY <1>1, <1>4 DEF PushSend
  <2> HIDE DEF resp
  <2>3. CopyInv'
    <3>1. Range(outbound'[s]) = Range(outbound[s]) \cup {resp}
      BY <2>1, <2>2, AppendRange
    <3> QED BY <1>2, <2>1, <2>2, <3>1 DEF CopyInv
  <2>4. AskInv'
    BY <1>1, <1>4, AskSend
  <2>5. ASSUME NEW r \in Streams PROVE GotInv(r)'
    <3> SUFFICES ASSUME up[r], NEW u \in Types
                 PROVE  \/ sent_version'[r][u] = 0
                        \/ LastIs(outbound'[r], u, sent_version'[r][u])
                        \/ /\ NoneOf(outbound'[r], u)
                           /\ \E x \in Current : /\ x.version = sent_version'[r][u]
                                                 /\ Settled(Owner[r], u, x)
      BY <1>1, <1>2, <2>2 DEF GotInv, Settled, envoyVars
    <3> HIDE DEF StreamInv, StreamTypeOK
    <3> DEFINE v == sent_version[r][u]
    <3>1. \/ v = 0
          \/ LastIs(outbound[r], u, v)
          \/ /\ NoneOf(outbound[r], u)
             /\ \E x \in Current : x.version = v /\ Settled(Owner[r], u, x)
      BY DEF GotInv
    <3>2. CASE r = s /\ u = t
      <4>1. LastIs(outbound'[s], t, held[s].version)
        BY <2>1, <2>2, AppendLast
      <4> QED BY <2>2, <3>2, <4>1
    <3>3. CASE r = s /\ u # t
      <4>1. outbound'[s] = Append(outbound[s], resp) /\ sent_version'[s][u] = v
        BY <2>2, <3>3
      <4> HIDE DEF v
      <4>2. /\ NoneOf(outbound[s], u) => NoneOf(Append(outbound[s], resp), u)
            /\ LastIs(outbound[s], u, v) => LastIs(Append(outbound[s], resp), u, v)
        BY <2>1, <2>2, <3>3, AppendLast
      <4> QED BY <3>1, <3>3, <4>1, <4>2
    <3>4. CASE r # s
      BY <2>2, <3>1, <3>4
    <3> QED BY <3>2, <3>3, <3>4
  <2> QED BY <1>1, <2>2, <2>3, <2>4, <2>5, StreamStepNewest
<1>5. CASE Close(s) /\ ~up[s]
  <2>1. /\ UNCHANGED <<advertised, up>>
        /\ pc'[s] = "closed" /\ outbound'[s] = <<>>
        /\ \A r \in Streams \ {s} :
              /\ pc'[r] = pc[r] /\ held'[r] = held[r]
              /\ outbound'[r] = outbound[r] /\ sent_version'[r] = sent_version[r]
    BY <1>1, <1>5 DEF Close
  <2>2. CopyInv'
    BY <1>2, <2>1, EmptyRange DEF CopyInv
  <2>3. AskInv'
    BY <1>1, <1>5, AskClose
  <2>4. ASSUME NEW r \in Streams PROVE GotInv(r)'
    BY <1>1, <1>2, <1>5, <2>1, <2>4 DEF GotInv, Settled, envoyVars
  <2> QED BY <1>1, <2>1, <2>2, <2>3, <2>4, StreamStepNewest
<1> QED BY <1>3, <1>4, <1>5 DEF Task, Push, PushFails, StreamEnds

LEMMA SubscribeNewest ==
    ASSUME IInv, NewestInv, NEW s \in Streams, NEW t \in Types, Subscribe(s, t),
           UNCHANGED <<controlVars, log>>
    PROVE  NewestInv'
<1> USE DEF NewestInv
<1>1. UNCHANGED <<advertised, up, outbound, pc, held, sent_version, running>>
  BY DEF Subscribe, watchVars, taskVars
<1>2. Current' = Current
  BY LogKept DEF Current
<1>3. CopyInv'
  BY <1>1, <1>2 DEF CopyInv
<1>4. AskInv'
  BY AskSubscribe DEF IInv
<1>5. ASSUME NEW r \in Streams PROVE GotInv(r)'
  BY <1>1, <1>2, <1>5 DEF GotInv, Settled
<1> QED BY <1>1, <1>3, <1>4, <1>5, StreamStepNewest

\* Once the last response of a type is accepted or refused, it is settled.
LEMMA ReplyNewest ==
    ASSUME IInv, NewestInv, NEW s \in Streams, UNCHANGED <<controlVars, log>>,
           \/ Accept(s)
           \/ Reject(s) /\ Refuses(Head(outbound[s]))
    PROVE  NewestInv'
<1> DEFINE resp == Head(outbound[s])
           ack  == Ack(resp.type, NonceOf(resp))
           nack == Nack(resp.type, NonceOf(resp))
<1> USE DEF NewestInv
<1>1. /\ outbound \in [Streams -> Seq(Responses(Snapshot))]
      /\ running \in [Envoys -> [Types -> Snapshot \cup {NoSnap}]]
      /\ Owner \in [Streams -> Envoys]
      /\ StreamInv(Snapshot)
  BY EnvoyAssumption DEF IInv, StreamInv, StreamTypeOK, EnvoyTypeOK
<1>2. /\ UNCHANGED <<advertised, pc, held, sent_version, up>>
      /\ outbound' = [outbound EXCEPT ![s] = Tail(outbound[s])]
      /\ outbound[s] # <<>> /\ up[s]
      /\ Reply(s, ack) \/ Reply(s, nack)
  BY DEF Accept, Reject, Reply, watchVars, taskVars
<1>3. /\ resp.type \in Types /\ resp.snap \in Snapshot /\ resp.snap \in Current
      /\ resp = BuildResponse(resp.snap, resp.type)
      /\ ack \in Requests /\ nack \in Requests
      /\ Range(Tail(outbound[s])) \subseteq Range(outbound[s])
  <2>1. /\ resp \in Responses(Snapshot) /\ resp \in Range(outbound[s])
        /\ Range(Tail(outbound[s])) \subseteq Range(outbound[s])
    BY <1>1, <1>2, TailRange
  <2>2. resp = BuildResponse(resp.snap, resp.type)
    BY <2>1 DEF Responses, BuildResponse
  <2> QED BY <2>1, <2>2 DEF Responses, Snapshot, CopyInv, Ack, Nack, NonceOf, Requests
<1>4. \/ running' = [running EXCEPT ![Owner[s]][resp.type] = resp.snap]
      \/ running' = running /\ Refuses(resp)
  BY DEF Accept, Reject
<1>5. AskInv'
  BY <1>1, <1>2, <1>3, AskReply
<1> HIDE DEF resp, ack, nack
<1>6. Current' = Current
  BY LogKept DEF Current
<1>7. CopyInv'
  BY <1>1, <1>2, <1>3, <1>6 DEF CopyInv
<1>8. /\ \A e \in Envoys, u \in Types : e # Owner[s] \/ u # resp.type =>
            running'[e][u] = running[e][u]
      /\ running'[Owner[s]][resp.type] = resp.snap \/ Refuses(resp)
  BY <1>1, <1>3, <1>4
<1>9. ASSUME NEW r \in Streams PROVE GotInv(r)'
  <2> SUFFICES ASSUME up[r], NEW u \in Types
               PROVE  \/ sent_version[r][u] = 0
                      \/ LastIs(outbound'[r], u, sent_version[r][u])
                      \/ /\ NoneOf(outbound'[r], u)
                         /\ \E x \in Current : /\ x.version = sent_version[r][u]
                                               /\ Settled(Owner[r], u, x)'
    BY <1>2, <1>6 DEF GotInv
  <2> DEFINE v == sent_version[r][u]
  <2>1. \/ v = 0
        \/ LastIs(outbound[r], u, v)
        \/ /\ NoneOf(outbound[r], u)
           /\ \E x \in Current : x.version = v /\ Settled(Owner[r], u, x)
    BY DEF GotInv
  <2>2. Owner[r] # Owner[s] \/ u # resp.type =>
           \A x : Settled(Owner[r], u, x) => Settled(Owner[r], u, x)'
    BY <1>1, <1>8 DEF Settled
  <2>3. CASE r # s
    <3>1. Owner[r] # Owner[s] /\ outbound'[r] = outbound[r]
      BY <1>1, <1>2, <2>3 DEF AskInv, LinkInvariant
    <3> QED BY <2>1, <2>2, <3>1
  <2>4. CASE r = s
    <3> HIDE DEF v
    <3>1. /\ NoneOf(outbound[s], u) => NoneOf(outbound'[s], u) /\ resp.type # u
          /\ LastIs(outbound[s], u, v) =>
                \/ LastIs(outbound'[s], u, v)
                \/ NoneOf(outbound'[s], u) /\ resp.type = u /\ resp.snap.version = v
      <4>1. outbound'[s] = Tail(outbound[s])
        BY <1>1, <1>2
      <4> QED BY <1>1, <1>2, <4>1, TailLast DEF resp
    <3>2. \A x : x = resp.snap /\ resp.type = u => Settled(Owner[s], u, x)'
      BY <1>3, <1>8 DEF Settled
    <3> QED BY <1>3, <2>1, <2>2, <2>4, <3>1, <3>2 DEF v
  <2> QED BY <2>3, <2>4
<1> QED BY <1>2, <1>5, <1>7, <1>9, StreamStepNewest

LEMMA LinkNewest ==
    ASSUME IInv, NewestInv, NEW s \in Streams, Link(s) \/ Drop(s), UNCHANGED log
    PROVE  NewestInv'
<1> USE DEF NewestInv
<1>1. /\ UNCHANGED <<advertised, held, outbound, sent_version, running, controlVars>>
      /\ Link(s) => pc[s] = "unused"
      /\ \A r \in Streams : pc'[r] = "push" => pc[r] = "push"
      /\ \A r \in Streams : up'[r] => up[r] \/ (Link(s) /\ r = s)
  BY DEF Link, Connect, Open, Drop, Disconnect, Cut, envoyVars, watchVars, taskVars,
         IInv, StreamInv, StreamTypeOK
<1>2. Current' = Current
  BY LogKept DEF Current
<1>3. CopyInv'
  BY <1>1, <1>2 DEF CopyInv
<1>4. AskInv'
  BY AskLink DEF IInv, Link, Drop
<1>5. ASSUME NEW r \in Streams PROVE GotInv(r)'
  BY <1>1, <1>2, <1>5 DEF GotInv, Settled, AskInv, LinkInvariant
<1> QED BY <1>1, <1>3, <1>4, <1>5, StreamStepNewest

LEMMA NextNewest == IInv /\ NewestInv /\ [FeedNext]_feedVars => NewestInv'
<1> SUFFICES ASSUME IInv, NewestInv, [FeedNext]_feedVars PROVE NewestInv'
  OBVIOUS
<1>1. CASE UNCHANGED feedVars
  <2>1. UNCHANGED <<advertised, wireVars, taskVars, envoyVars, controlVars, log>>
    BY <1>1 DEF feedVars, vars, streamVars, watchVars
  <2>2. Snaps' = Snaps /\ Current' = Current /\ Drawn' = Drawn
    BY <2>1, LogKept DEF Current, Drawn, controlVars
  <2>3. VersionInv'
    BY <2>1, <2>2 DEF NewestInv, VersionInv, controlVars
  <2> QED BY <2>1, <2>2, <2>3, CurrentGrows
<1>2. ASSUME NEW s \in Streams, Envoy(s), UNCHANGED log PROVE NewestInv'
  BY <1>2, SubscribeNewest, ReplyNewest DEF Envoy
<1> QED BY <1>1, <1>2, RotateNewest, PublishNewest, RestartNewest, TaskNewest, LinkNewest
        DEF FeedNext

\* Whatever rotations, reconnects and restarts led there, a quiet stream leaves
\* its Envoy with the newest certificate unless it refuses that: see
\* QuietStreamRunsNewest.
THEOREM QuietStreamsNewest == FeedSpec => []QuietStreamRunsNewest
<1>1. ASSUME IInv, NewestInv PROVE QuietStreamRunsNewest
  <2> SUFFICES ASSUME NEW s \in Streams, Quiet(s), NEW t \in requested[s] \cap Served
               PROVE  \/ running[Owner[s]][t] = advertised
                      \/ Refuses(BuildResponse(advertised, t))
    BY DEF QuietStreamRunsNewest
  <2>1. t \in Types /\ sent_version[s][t] = advertised.version
    BY <1>1, SentWhenQuiet DEF IInv, NewestInv
  <2>2. advertised \in Drawn /\ advertised.version # 0
    BY <1>1 DEF NewestInv, VersionInv, Drawn
  <2>3. PICK x \in Current : x.version = advertised.version /\ Settled(Owner[s], t, x)
    BY <1>1, <2>1, <2>2, EmptyLast DEF Quiet, NewestInv, GotInv
  <2>4. x = advertised
    BY <1>1, <2>2, <2>3 DEF NewestInv, VersionInv, Drawn
  <2> QED BY <2>3, <2>4 DEF Settled
<1>2. FeedInit => IInv /\ NewestInv
  BY InitIInv, InitNewest
<1>3. IInv /\ NewestInv /\ [FeedNext]_feedVars => (IInv /\ NewestInv)'
  BY NextIInv, NextNewest
<1> QED BY <1>1, <1>2, <1>3, PTL DEF FeedSpec

===============================================================================
