---------------------------- MODULE RouteBumpProofs ----------------------------
(***************************************************************************)
(* What the delta stream promises holds under the steps of chapter 4 too:  *)
(* bumps, which overlap, and restarts of the control plane.                *)
(***************************************************************************)
EXTENDS RouteBump, DeltaStreamProofs

BumpTypeOK ==
    /\ upstream_ip \in Addresses
    /\ route_version \in Nat \ {0}
    /\ made \in [Admins -> Holding(Bodies) \cup {NoSnap}]
    /\ restarts \in Nat

IInv == DeltaInv(Bodies) /\ BumpTypeOK

-----------------------------------------------------------------------------
LEMMA BuildTyped ==
    ASSUME NEW rv \in Nat \ {0}, NEW ip \in Addresses
    PROVE  Build(rv, ip) \in Holding(Bodies)
<1> SUFFICES ASSUME NEW t \in Types, NEW n \in Names
             PROVE  Build(rv, ip)[t][n] \in Entries(Bodies) \cup {Absent}
  BY DEF Build, Holding
<1> QED BY DEF Build, Entries, Bodies

LEMMA LeftoverTyped == Leftover \in SUBSET Holding(Bodies)
<1>1. Entries({NoAddress}) \subseteq Entries(Bodies)
  BY DEF Entries, Bodies
<1>2. Holding({NoAddress}) \subseteq Holding(Bodies)
  BY <1>1 DEF Holding
<1> QED BY <1>2, BumpAssumption

LEMMA InitInv == Init => IInv
<1> SUFFICES ASSUME Init PROVE IInv
  OBVIOUS
<1>1. Build(1, upstream_ip) \in Holding(Bodies)
  BY BuildTyped DEF Init
<1>2. DeltaInv(Bodies)
  BY <1>1, LeftoverTyped, InitDelta DEF Init
<1>3. BumpTypeOK
  BY DEF Init, BumpTypeOK
<1> QED BY <1>2, <1>3 DEF IInv

LEMMA BumpInv == ASSUME IInv, NEW a \in Admins, Bump(a) PROVE IInv'
<1>1. route_version' \in Nat \ {0} /\ upstream_ip \in Addresses
  BY DEF IInv, BumpTypeOK, Bump
<1>2. Build(route_version', upstream_ip) \in Holding(Bodies)
  BY <1>1, BuildTyped
<1>3. BumpTypeOK'
  BY <1>1, <1>2 DEF IInv, BumpTypeOK, Bump
<1>4. UNCHANGED <<wireVars, taskVars, envoyVars>> /\ UNCHANGED <<advertised, changes>>
  BY DEF Bump, streamVars, watchVars
<1>5. advertised \in Holding(Bodies) /\ changes \in Nat
  BY DEF IInv, DeltaInv, DeltaTypeOK, StreamTypeOK
<1> QED BY <1>3, <1>4, <1>5, WatchDelta DEF IInv

LEMMA PublishInv == ASSUME IInv, NEW a \in Admins, Publish(a) PROVE IInv'
<1>1. made[a] \in Holding(Bodies)
  BY DEF IInv, BumpTypeOK, Publish
<1>2. advertised \in Holding(Bodies) /\ changes \in Nat
  BY DEF IInv, DeltaInv, DeltaTypeOK, StreamTypeOK
<1>3. advertised' \in Holding(Bodies) /\ changes' \in Nat
  BY <1>1, <1>2 DEF Publish, WatchSend, watchVars
<1>4. BumpTypeOK'
  BY DEF IInv, BumpTypeOK, Publish
<1>5. UNCHANGED <<wireVars, taskVars, envoyVars>>
  BY DEF Publish
<1> QED BY <1>3, <1>4, <1>5, WatchDelta DEF IInv

\* A restart cuts every stream and ends every task.
LEMMA RestartInv == ASSUME IInv, Restart PROVE IInv'
<1> DEFINE S == {s \in Streams : pc[s] # "unused"}
<1>1. /\ CloseAll(S) /\ S \in SUBSET Streams
      /\ up' = [s \in Streams |-> FALSE]
      /\ requested' = [s \in Streams |-> [t \in Types |-> {}]]
      /\ asked' = [s \in Streams |-> {}]
      /\ UNCHANGED <<wants, has, drops>>
      /\ upstream_ip' \in Addresses /\ route_version' = 1 /\ changes' = 1
      /\ made' = [a \in Admins |-> NoSnap]
      /\ restarts' = restarts + 1
  BY DEF Restart, ForgetAll
<1> HIDE DEF S
<1>2. advertised' \in Holding(Bodies)
  BY <1>1, BuildTyped DEF Restart
<1>3. BumpTypeOK'
  BY <1>1 DEF IInv, BumpTypeOK
<1>4. EnvoyTypeOK(Bodies)'
  BY <1>1 DEF IInv, DeltaInv, DeltaTypeOK, EnvoyTypeOK
<1>5. DeltaTypeOK(Bodies)'
  BY <1>1, <1>2, <1>4, CloseAllTyped DEF IInv, DeltaInv
<1>6. DeltaInv(Bodies)'
  BY <1>1, <1>5, CloseDelta DEF IInv
<1> QED BY <1>3, <1>6 DEF IInv

\* The steps of streams and clients change nothing of the control plane's.
LEMMA StreamsInv ==
    ASSUME IInv, UNCHANGED controlVars, DeltaInv(Bodies)'
    PROVE  IInv'
BY DEF IInv, BumpTypeOK, controlVars

LEMMA NextInv == IInv /\ [Next]_vars => IInv'
<1> SUFFICES ASSUME IInv, [Next]_vars PROVE IInv'
  OBVIOUS
<1> USE DEF IInv
<1>1. CASE \E a \in Admins : Bump(a) \/ Publish(a)
  BY <1>1, BumpInv, PublishInv
<1>2. CASE Restart
  BY <1>2, RestartInv
<1>3. ASSUME NEW s \in Streams, Serve(s) PROVE IInv'
  BY <1>3, TaskDelta, StreamsInv DEF Serve
<1>4. ASSUME NEW s \in Streams, Envoy(s) PROVE IInv'
  BY <1>4, ClientDelta, StreamsInv DEF Envoy
<1>5. ASSUME NEW s \in Streams, Link(s) PROVE IInv'
  BY <1>5, ConnectDelta, StreamsInv DEF Link
<1>6. ASSUME NEW s \in Streams, Drop(s) PROVE IInv'
  BY <1>6, DisconnectDelta, StreamsInv DEF Drop
<1>7. ASSUME NEW s \in Streams, LoseInterest(s) PROVE IInv'
  BY <1>7, UnsubscribeDelta, StreamsInv DEF LoseInterest
<1>8. ASSUME NEW e \in Envoys, Discover(e) PROVE IInv'
  BY <1>8, InterestDelta, StreamsInv DEF Discover
<1>9. CASE UNCHANGED vars
  <2>1. UNCHANGED <<wireVars, taskVars, envoyVars>> /\ UNCHANGED <<advertised, changes>>
        /\ UNCHANGED controlVars
    BY <1>9 DEF vars, streamVars, watchVars
  <2>2. advertised \in Holding(Bodies) /\ changes \in Nat
    BY DEF DeltaInv, DeltaTypeOK, StreamTypeOK
  <2> QED BY <2>1, <2>2, WatchDelta, StreamsInv
<1> QED BY <1>1, <1>2, <1>3, <1>4, <1>5, <1>6, <1>7, <1>8, <1>9 DEF Next

THEOREM Inductive == Spec => []IInv
<1> QED BY InitInv, NextInv, PTL DEF Spec

-----------------------------------------------------------------------------
\* Chapter 4's state has its types: no request or response is malformed, and
\* what is queued for a client never exceeds the channel's capacity.
THEOREM TypeCorrect == Spec => []TypeOK
<1>1. IInv => TypeOK
  BY DEF IInv, BumpTypeOK, DeltaInv, DeltaTypeOK, TypeOK
<1> QED BY <1>1, Inductive, PTL

\* main.rs, delta_aggregated_resources: whatever was subscribed to, given up and
\* acknowledged, whatever was bumped and however often the control plane was
\* restarted, the subscription on a quiet stream is what its client asked for.
THEOREM SubscriptionsAgree == Spec => []SubscriptionAgrees
<1>1. IInv => SubscriptionAgrees
  BY DeltaAgrees DEF IInv
<1> QED BY <1>1, Inductive, PTL

-----------------------------------------------------------------------------
(* What clients have. *)

\* The entries that are offered of a name, and those that a client may have:
\* the endpoints come with the address of now, until there is a restart.
BodiesOf(t) ==
    IF t # "EDS" THEN {NoAddress} ELSE IF restarts = 0 THEN {upstream_ip} ELSE Addresses

OfferedEntries ==
    [t \in Types |-> [n \in Names |->
        {x \in Entries(Bodies) : /\ n = NameOf[t]
                                 /\ x.version \in Offered(t) /\ x.body \in BodiesOf(t)}]]

HeldEntries ==
    [t \in Types |-> [n \in Names |->
        OfferedEntries[t][n] \cup
        {x \in Entries(Bodies) : t # "EDS" /\ x.body = NoAddress}]]

MadeIn(A) ==
    \A a \in Admins : made[a] # NoSnap =>
        \A t \in Types, n \in Names : made[a][t][n] \in A[t][n] \cup {Absent}

\* Versions that may be refused, where some are; removals stand at 0.
Lost ==
    {x \in Types \X Nat :
        Offered(x[1]) \cap Refused # {} /\ (x[2] = 0 \/ x[2] \in Refused)}

BumpHold ==
    /\ HoldInv(Bodies, Lost)
    /\ EntriesIn(OfferedEntries, HeldEntries)
    /\ MadeIn(OfferedEntries)

LEMMA BuildOffered ==
    ASSUME NEW rv \in 1 .. MaxVersion, NEW ip \in Addresses, restarts = 0 => ip = upstream_ip,
           upstream_ip \in Addresses, NEW t \in Types, NEW n \in Names
    PROVE  Build(rv, ip)[t][n] \in OfferedEntries[t][n] \cup {Absent}
<1>1. CASE n # NameOf[t]
  BY <1>1 DEF Build
<1>2. CASE n = NameOf[t]
  <2>1. PICK x : x = [version |-> IF t = "RDS" THEN rv ELSE 1,
                      body    |-> IF t = "EDS" THEN ip ELSE NoAddress]
    OBVIOUS
  <2>2. Build(rv, ip)[t][n] = x
    BY <1>2, <2>1 DEF Build
  <2>3. x \in Entries(Bodies) /\ x.version \in Offered(t)
    BY <2>1, BumpAssumption DEF Entries, Bodies, Offered
  <2>4. x.body \in BodiesOf(t)
    BY <2>1 DEF BodiesOf
  <2> QED BY <1>2, <2>2, <2>3, <2>4 DEF OfferedEntries
<1> QED BY <1>1, <1>2

LEMMA InitBumpHold == Init => BumpHold
<1> SUFFICES ASSUME Init PROVE BumpHold
  OBVIOUS
<1>1. HoldInv(Bodies, Lost)
  BY InitHold DEF Init
<1>2. \A t \in Types, n \in Names :
         advertised[t][n] \in OfferedEntries[t][n] \cup {Absent}
  BY BuildOffered, BumpAssumption DEF Init, StreamInit
<1>3. OffersIn(OfferedEntries)
  BY <1>2, EmptyFacts DEF Init, StreamInit, OffersIn
<1>4. HoldsIn(HeldEntries)
  <2> SUFFICES ASSUME NEW e \in Envoys, NEW t \in Types, NEW n \in Names,
                      has[e][t][n] # Absent
               PROVE  has[e][t][n] \in HeldEntries[t][n]
    BY DEF HoldsIn
  <2>1. has[e] \in Leftover
    BY DEF Init, EnvoyInit
  <2>2. has[e][t][n] \in Entries({NoAddress}) /\ t # "EDS"
    <3>1. has[e] \in Holding({NoAddress})
      BY <2>1, BumpAssumption
    <3>2. t = "EDS" => has[e][t][n] = Absent
      BY <2>1, BumpAssumption
    <3> QED BY <3>1, <3>2 DEF Holding
  <2>3. has[e][t][n] \in Entries(Bodies) /\ has[e][t][n].body = NoAddress
    BY <2>2 DEF Entries, Bodies
  <2> QED BY <2>2, <2>3 DEF HeldEntries
<1>5. \A t \in Types, n \in Names : OfferedEntries[t][n] \subseteq HeldEntries[t][n]
  BY DEF HeldEntries
<1>6. MadeIn(OfferedEntries)
  BY DEF Init, MadeIn
<1> QED BY <1>1, <1>3, <1>4, <1>5, <1>6 DEF BumpHold, EntriesIn

\* As long as there is no restart the entries stay the same.
LEMMA SameEntries ==
    ASSUME UNCHANGED <<upstream_ip, restarts>>
    PROVE  UNCHANGED <<OfferedEntries, HeldEntries>>
BY DEF OfferedEntries, HeldEntries, BodiesOf, Offered

\* A response that is refused is refused for the resource of its type.
LEMMA RefusedLost ==
    ASSUME IInv, BumpHold, NEW s \in Streams, Reject(s),
           NEW t \in Types, NEW n \in Names, Head(outbound[s]) \in Naming(Bodies, t, n)
    PROVE  <<t, Ver(Head(outbound[s]).resources[n])>> \in Lost
<1>1. outbound[s] \in Seq(Responses(Bodies)) /\ outbound[s] # <<>>
  BY DEF IInv, DeltaInv, DeltaTypeOK, StreamTypeOK, Reject, Reply
<1>2. PICK resp \in Responses(Bodies) : resp = Head(outbound[s]) /\ resp = outbound[s][1]
  BY <1>1, TailFacts
<1>3. 1 \in 1 .. Len(outbound[s])
  <2>1. Len(outbound[s]) \in Nat \ {0}
    BY <1>1, TailFacts
  <2> QED BY <2>1
<1>4. resp.type = t
  BY <1>2 DEF Naming
<1>5. \A m \in Names : resp.resources[m] \in OfferedEntries[t][m] \cup {Absent}
  BY <1>2, <1>3, <1>4 DEF BumpHold, EntriesIn, OffersIn
<1>6. PICK m \in Names : resp.resources[m] # Absent /\ resp.resources[m].version \in Refused
  BY <1>2 DEF Reject, Refuses
<1>7. m = NameOf[t] /\ resp.resources[m].version \in Offered(t)
  BY <1>5, <1>6 DEF OfferedEntries
<1>8. resp.resources[n] # Absent => n = m /\ resp.resources[n].version \in Nat
  BY <1>5, <1>7 DEF OfferedEntries, Entries
<1>9. Ver(resp.resources[n]) \in Nat
      /\ (Ver(resp.resources[n]) = 0 \/ Ver(resp.resources[n]) \in Refused)
  BY <1>6, <1>8 DEF Ver
<1> QED BY <1>2, <1>6, <1>7, <1>9 DEF Lost

LEMMA RestartHold == ASSUME IInv, BumpHold, Restart PROVE BumpHold'
<1> DEFINE S == {s \in Streams : pc[s] # "unused"}
<1>1. /\ CloseAll(S) /\ S \in SUBSET Streams
      /\ up' = [s \in Streams |-> FALSE]
      /\ UNCHANGED <<wants, has, drops>>
      /\ upstream_ip' \in Addresses /\ changes' = 1
      /\ made' = [a \in Admins |-> NoSnap]
      /\ restarts' = restarts + 1 /\ restarts \in Nat
      /\ advertised' = Build(1, upstream_ip')
      /\ pc' = [s \in Streams |-> IF s \in S THEN "closed" ELSE pc[s]]
      /\ outbound' = [s \in Streams |-> IF s \in S THEN <<>> ELSE outbound[s]]
  BY DEF Restart, ForgetAll, CloseAll, IInv, BumpTypeOK
<1>2. HoldInv(Bodies, Lost)'
  <2>1. \A r \in Streams \ S : pc[r] = "unused"
    OBVIOUS
  <2> HIDE DEF S
  <2> QED BY <1>1, <2>1, CloseHold DEF IInv, BumpHold
<1>3. /\ \A t \in Types, n \in Names :
            advertised'[t][n] \in OfferedEntries'[t][n] \cup {Absent}
      /\ \A t \in Types, n \in Names : HeldEntries[t][n] \subseteq HeldEntries'[t][n]
      /\ \A t \in Types, n \in Names : OfferedEntries'[t][n] \subseteq HeldEntries'[t][n]
  <2>1. restarts' # 0
    BY <1>1
  <2>2. \A t \in Types : BodiesOf(t) \subseteq BodiesOf(t)'
    BY <1>1, <2>1 DEF BodiesOf, IInv, BumpTypeOK
  <2>3. ASSUME NEW t \in Types, NEW n \in Names
        PROVE  Build(1, upstream_ip')[t][n] \in OfferedEntries'[t][n] \cup {Absent}
    <3>1. CASE n # NameOf[t]
      BY <3>1 DEF Build
    <3>2. CASE n = NameOf[t]
      <4>1. PICK x : x = [version |-> 1, body |-> IF t = "EDS" THEN upstream_ip' ELSE NoAddress]
        OBVIOUS
      <4>2. Build(1, upstream_ip')[t][n] = x
        BY <3>2, <4>1 DEF Build
      <4>3. x \in Entries(Bodies) /\ x.version \in Offered(t) /\ x.body \in BodiesOf(t)'
        BY <1>1, <2>1, <4>1, BumpAssumption DEF Entries, Bodies, Offered, BodiesOf
      <4> QED BY <3>2, <4>2, <4>3 DEF OfferedEntries, Offered, Bodies
    <3> QED BY <3>1, <3>2
  <2> QED BY <1>1, <2>2, <2>3 DEF HeldEntries, OfferedEntries, Offered, Bodies
<1>4. OffersIn(OfferedEntries)'
  <2>1. \A s \in Streams : pc'[s] # "push"
    BY <1>1
  <2>2. \A s \in Streams \ S : \A i \in 1 .. Len(outbound[s]) : FALSE
    BY DEF IInv, DeltaInv, TaskInv, UnusedInv
  <2>3. \A s \in Streams : \A i \in 1 .. Len(outbound'[s]) : FALSE
    BY <1>1, <2>2, EmptyFacts
  <2> QED BY <1>3, <2>1, <2>3 DEF OffersIn
<1>5. HoldsIn(HeldEntries)'
  BY <1>1, <1>3 DEF HoldsIn, BumpHold, EntriesIn
<1>6. MadeIn(OfferedEntries)'
  BY <1>1 DEF MadeIn
<1> QED BY <1>2, <1>3, <1>4, <1>5, <1>6 DEF BumpHold, EntriesIn

\* The steps of streams and clients, which change nothing of the control plane's.
LEMMA StreamsHold ==
    ASSUME BumpHold, UNCHANGED controlVars, HoldInv(Bodies, Lost)',
           \A A, C : A = OfferedEntries /\ C = HeldEntries => EntriesIn(A, C)'
    PROVE  BumpHold'
<1>1. PICK A, C : A = OfferedEntries /\ C = HeldEntries
  OBVIOUS
<1>2. A = OfferedEntries' /\ C = HeldEntries' /\ UNCHANGED made
  BY <1>1, SameEntries DEF controlVars
<1>3. EntriesIn(A, C)'
  BY <1>1
<1>4. EntriesIn(OfferedEntries, HeldEntries)'
  BY <1>2, <1>3 DEF EntriesIn, OffersIn, HoldsIn
<1>5. MadeIn(OfferedEntries)'
  BY <1>1, <1>2 DEF BumpHold, MadeIn
<1> QED BY <1>4, <1>5 DEF BumpHold

LEMMA NextBumpHold == IInv /\ BumpHold /\ [Next]_vars => BumpHold'
<1> SUFFICES ASSUME IInv, BumpHold, [Next]_vars PROVE BumpHold'
  OBVIOUS
<1>0. DeltaInv(Bodies) /\ HoldInv(Bodies, Lost)
  BY DEF IInv, BumpHold
<1>00. \A A, C : A = OfferedEntries /\ C = HeldEntries => EntriesIn(A, C)
  BY DEF BumpHold
<1>1. ASSUME NEW a \in Admins, Bump(a) PROVE BumpHold'
  <2>1. /\ UNCHANGED <<wireVars, taskVars, envoyVars, watchVars, advertised, pc, held, outbound, has>>
        /\ UNCHANGED <<upstream_ip, restarts>>
        /\ route_version + 1 \in 1 .. MaxVersion
        /\ made' = [made EXCEPT ![a] = Build(route_version + 1, upstream_ip)]
        /\ upstream_ip \in Addresses
    BY <1>1, BumpAssumption
    DEF Bump, streamVars, watchVars, wireVars, taskVars, envoyVars, IInv, BumpTypeOK
  <2>2. HoldInv(Bodies, Lost)'
    BY <1>0, <2>1, WatchHold
  <2>3. EntriesIn(OfferedEntries, HeldEntries)'
    BY <2>1, SameEntries DEF BumpHold, EntriesIn, OffersIn, HoldsIn
  <2>4. MadeIn(OfferedEntries)'
    <3>1. \A t \in Types, n \in Names :
             Build(route_version + 1, upstream_ip)[t][n] \in OfferedEntries[t][n] \cup {Absent}
      BY <2>1, BuildOffered
    <3>2. made \in [Admins -> Holding(Bodies) \cup {NoSnap}]
      BY DEF IInv, BumpTypeOK
    <3> QED BY <2>1, <3>1, <3>2, SameEntries DEF BumpHold, MadeIn
  <2> QED BY <2>2, <2>3, <2>4 DEF BumpHold
<1>2. ASSUME NEW a \in Admins, Publish(a) PROVE BumpHold'
  <2>1. /\ UNCHANGED <<wireVars, taskVars, envoyVars, pc, held, outbound, has>>
        /\ UNCHANGED <<upstream_ip, restarts>>
        /\ made' = [made EXCEPT ![a] = NoSnap]
        /\ made[a] # NoSnap
        /\ \/ advertised' = made[a] /\ changes' = changes + 1
           \/ UNCHANGED <<watchVars, advertised>>
    BY <1>2 DEF Publish, WatchSend, watchVars, wireVars, taskVars, envoyVars
  <2>2. HoldInv(Bodies, Lost)'
    BY <1>0, <2>1, WatchHold
  <2>3. EntriesIn(OfferedEntries, HeldEntries)'
    <3>1. \A t \in Types, n \in Names :
             advertised'[t][n] \in OfferedEntries[t][n] \cup {Absent}
      BY <2>1 DEF BumpHold, EntriesIn, OffersIn, MadeIn
    <3> QED BY <2>1, <3>1, SameEntries DEF BumpHold, EntriesIn, OffersIn, HoldsIn
  <2>4. MadeIn(OfferedEntries)'
    <3>1. made \in [Admins -> Holding(Bodies) \cup {NoSnap}]
      BY DEF IInv, BumpTypeOK
    <3> QED BY <2>1, <3>1, SameEntries DEF BumpHold, MadeIn
  <2> QED BY <2>2, <2>3, <2>4 DEF BumpHold
<1>3. ASSUME NEW s \in Streams, Serve(s) PROVE BumpHold'
  <2>1. /\ Task(s) /\ UNCHANGED envoyVars /\ UNCHANGED controlVars /\ UNCHANGED has
    BY <1>3 DEF Serve, envoyVars
  <2>2. ASSUME NEW A, NEW C, A = OfferedEntries, C = HeldEntries PROVE EntriesIn(A, C)'
    <3>1. EntriesIn(A, C)
      BY <1>00, <2>2
    <3>2. OffersIn(A)'
      BY <1>0, <2>1, <3>1, TaskOffers DEF EntriesIn
    <3> QED BY <2>1, <3>1, <3>2 DEF EntriesIn, HoldsIn
  <2> QED BY <1>0, <2>1, <2>2, TaskHolds, StreamsHold
<1>4. ASSUME NEW s \in Streams, Envoy(s) \/ Link(s) \/ Drop(s) \/ LoseInterest(s)
      PROVE  BumpHold'
  <2>1. /\ UNCHANGED controlVars
        /\ \/ Client(s) \/ Connect(s) \/ Disconnect(s)
           \/ \E t \in Types, p \in Patterns \cup {Star} : Unsubscribe(s, t, p)
    BY <1>4 DEF Envoy, Link, Drop, LoseInterest
  <2>2. HoldInv(Bodies, Lost)'
    <3>1. CASE Accept(s)
      BY <1>0, <3>1, ReplyHold
    <3>2. CASE Reject(s)
      BY <1>0, <3>2, ReplyHold, RefusedLost
    <3> QED BY <1>0, <2>1, <3>1, <3>2, SubscribeHold, UnsubscribeHold, ConnectHold,
               DisconnectHold DEF Client
  <2>3. ASSUME NEW A, NEW C, A = OfferedEntries, C = HeldEntries PROVE EntriesIn(A, C)'
    BY <1>0, <1>00, <2>1, <2>3, ClientEntries
  <2> QED BY <2>1, <2>2, <2>3, StreamsHold
<1>5. ASSUME NEW e \in Envoys, Discover(e) PROVE BumpHold'
  <2>1. PICK t \in Types : TakeInterest(e, t)
    BY <1>5 DEF Discover
  <2>2. UNCHANGED controlVars /\ UNCHANGED <<advertised, pc, held, outbound, has>>
    BY <1>5, <2>1 DEF Discover, TakeInterest, streamVars, watchVars, wireVars, taskVars
  <2>3. ASSUME NEW A, NEW C, A = OfferedEntries, C = HeldEntries PROVE EntriesIn(A, C)'
    BY <1>00, <2>2, <2>3 DEF EntriesIn, OffersIn, HoldsIn
  <2> QED BY <1>0, <2>1, <2>2, <2>3, InterestHold, StreamsHold
<1>6. CASE UNCHANGED vars
  <2>1. UNCHANGED <<wireVars, taskVars, envoyVars, watchVars, controlVars>>
        /\ UNCHANGED <<advertised, pc, held, outbound, has>>
    BY <1>6 DEF vars, streamVars, watchVars, wireVars, taskVars, envoyVars
  <2>2. HoldInv(Bodies, Lost)'
    BY <1>0, <2>1, WatchHold
  <2>3. ASSUME NEW A, NEW C, A = OfferedEntries, C = HeldEntries PROVE EntriesIn(A, C)'
    BY <1>00, <2>1, <2>3 DEF EntriesIn, OffersIn, HoldsIn
  <2> QED BY <2>1, <2>2, <2>3, StreamsHold
<1> QED BY <1>1, <1>2, <1>3, <1>4, <1>5, <1>6, RestartHold DEF Next

\* main.rs, delta_aggregated_resources: what the server takes a client to hold is
\* what the client holds, so that with nothing on its way and no unseen change
\* the client has all that it asked for.  It is so by versions: only a restart,
\* after which the versions begin again, leaves a client with an old address.
THEOREM OnlyOldAddresses == Spec => []OnlyAddressesGoStale
<1>1. IInv /\ BumpHold => OnlyAddressesGoStale
  <2> SUFFICES ASSUME IInv, BumpHold, NEW s \in Streams, Quiet(s), NEW t \in Types,
                      NEW n \in Meant(requested[s][t] \cap wants[Owner[s]][t]),
                      ~Current(Owner[s], t, n), ~(drops > 0 /\ has[Owner[s]][t][n] = Absent),
                      ~(Offered(t) \cap Refused # {} /\ advertised[t][n] = Absent)
               PROVE  restarts > 0 /\ OldAddress(Owner[s], t, n)
    BY DEF OnlyAddressesGoStale
  <2>1. PICK e \in Envoys : e = Owner[s]
    BY EnvoyAssumption
  <2>2. n \in Names /\ HeldBy(Lost, s, t, n, Ver(advertised[t][n]))
    BY QuietHold DEF IInv, BumpHold
  <2>3. drops \in Nat /\ restarts \in Nat
    BY DEF IInv, BumpTypeOK, DeltaInv, DeltaTypeOK, EnvoyTypeOK
  <2>4. /\ advertised[t][n] \in OfferedEntries[t][n] \cup {Absent}
        /\ has[e][t][n] \in HeldEntries[t][n] \cup {Absent}
    BY <2>2 DEF BumpHold, EntriesIn, OffersIn, HoldsIn
  <2>5. /\ advertised[t][n] # Absent => advertised[t][n] \in Entries(Bodies)
        /\ has[e][t][n] # Absent => has[e][t][n] \in Entries(Bodies)
    BY <2>2, <2>4 DEF OfferedEntries, HeldEntries
  <2>6. Ver(has[e][t][n]) = Ver(advertised[t][n])
    <3>1. <<t, Ver(advertised[t][n])>> \notin Lost
      <4>1. CASE advertised[t][n] = Absent
        BY <4>1 DEF Lost
      <4>2. CASE advertised[t][n] # Absent
        BY <2>5, <4>2 DEF Lost, Current, Ver, Entries
      <4> QED BY <4>1, <4>2
    <3> QED BY <2>1, <2>2, <2>3, <3>1 DEF HeldBy
  <2>7. has[e][t][n] # Absent /\ advertised[t][n] # Absent
        /\ has[e][t][n].version = advertised[t][n].version
    BY <2>1, <2>5, <2>6 DEF Ver, Entries, Current
  <2>8. has[e][t][n].body # advertised[t][n].body
    BY <2>1, <2>5, <2>7 DEF Entries, Current
  <2>9. /\ advertised[t][n].body \in BodiesOf(t)
        /\ has[e][t][n].body \in BodiesOf(t) \/ (t # "EDS" /\ has[e][t][n].body = NoAddress)
    BY <2>2, <2>4, <2>7 DEF OfferedEntries, HeldEntries
  <2>10. t = "EDS" /\ restarts # 0
    BY <2>8, <2>9 DEF BodiesOf
  <2> QED BY <2>1, <2>3, <2>7, <2>10 DEF OldAddress
<1>2. Spec => []BumpHold
  BY InitInv, NextInv, InitBumpHold, NextBumpHold, PTL DEF Spec
<1> QED BY <1>1, <1>2, Inductive, PTL

\* main.rs, send_delta: a client that comes back reports what it holds, and of
\* that only what it subscribes to is taken from it when the control plane has no
\* such resource; nothing it does not want is sent to it.
THEOREM NothingUnwantedSent == Spec => []NothingUnwanted
<1>1. IInv /\ BumpHold => NothingUnwanted
  BY WantedOnly DEF IInv, BumpHold
<1>2. Spec => []BumpHold
  BY InitInv, NextInv, InitBumpHold, NextBumpHold, PTL DEF Spec
<1> QED BY <1>1, <1>2, Inductive, PTL

-----------------------------------------------------------------------------
(* Nothing twice. *)

\* The client accepts all that there is to come.
AllAccepted == \A t \in Types : Offered(t) \cap Refused = {}

LEMMA NoneRefused ==
    ASSUME AllAccepted, IInv, BumpHold
    PROVE  HoldInv(Bodies, {}) /\ \A s \in Streams : ~Reject(s)
<1>1. Lost = {}
  BY DEF Lost, AllAccepted
<1>2. ASSUME NEW s \in Streams, Reject(s) PROVE FALSE
  <2>1. outbound[s] \in Seq(Responses(Bodies)) /\ outbound[s] # <<>>
    BY <1>2 DEF IInv, DeltaInv, DeltaTypeOK, StreamTypeOK, Reject, Reply
  <2>2. Head(outbound[s]) \in Responses(Bodies) /\ Head(outbound[s]).type \in Types
    <3>1. Head(outbound[s]) \in Responses(Bodies)
      BY <2>1, TailFacts
    <3> QED BY <3>1 DEF Responses
  <2>3. PICK n \in Names : Head(outbound[s]).resources[n] # Absent
    BY <1>2 DEF Reject, Refuses
  <2>4. Head(outbound[s]) \in Naming(Bodies, Head(outbound[s]).type, n)
    BY <2>2, <2>3 DEF Naming
  <2> QED BY <1>1, <1>2, <2>2, <2>4, RefusedLost
<1> QED BY <1>1, <1>2 DEF BumpHold

LEMMA InitNews == Init => News(Bodies)
BY DEF Init, StreamInit, News

LEMMA NextNews ==
    ASSUME AllAccepted, IInv, BumpHold, News(Bodies), [Next]_vars
    PROVE  News(Bodies)'
<1>0. DeltaInv(Bodies) /\ HoldInv(Bodies, {}) /\ \A s \in Streams : ~Reject(s)
  BY NoneRefused DEF IInv
<1>1. CASE UNCHANGED <<outbound, has, up>>
  BY <1>1, SameNews DEF News
<1>2. CASE Restart
  BY <1>2 DEF Restart, News
<1>3. ASSUME NEW s \in Streams, Serve(s) PROVE News(Bodies)'
  BY <1>0, <1>3, TaskNews DEF Serve
<1>4. ASSUME NEW s \in Streams, Envoy(s) \/ Link(s) \/ Drop(s) \/ LoseInterest(s)
      PROVE  News(Bodies)'
  BY <1>0, <1>4, ClientNews DEF Envoy, Link, Drop, LoseInterest
<1>5. CASE \/ \E a \in Admins : Bump(a) \/ Publish(a)
           \/ \E e \in Envoys : Discover(e)
           \/ UNCHANGED vars
  <2>1. UNCHANGED <<outbound, has, up>>
    BY <1>5 DEF Bump, Publish, Discover, TakeInterest, vars, streamVars, watchVars, wireVars,
                taskVars, envoyVars
  <2> QED BY <1>1, <2>1
<1> QED BY <1>2, <1>3, <1>4, <1>5 DEF Next

\* main.rs, send_delta, and README, chapter 4: "the server skips anything still
\* current".  A client that accepts what there is to come never reads a response
\* that brings it a resource at the version it holds: not what it reported when
\* it came back, nor what is on its way already, whatever is bumped, given up,
\* asked for again or restarted in the meantime.
THEOREM NothingSentTwice ==
    ASSUME AllAccepted
    PROVE  Spec => []NothingResent
<1>1. IInv /\ News(Bodies) => NothingResent
  BY NewsRead DEF IInv
<1>2. IInv /\ BumpHold /\ News(Bodies) /\ [Next]_vars => News(Bodies)'
  BY NextNews
<1>3. Spec => []News(Bodies)
  BY <1>2, InitInv, NextInv, InitBumpHold, NextBumpHold, InitNews, PTL DEF Spec
<1> QED BY <1>1, <1>3, Inductive, PTL
===============================================================================
