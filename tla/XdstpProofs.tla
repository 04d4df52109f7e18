------------------------------ MODULE XdstpProofs ------------------------------
(***************************************************************************)
(* Chapter 5: the delta stream's promise when names stand for collections, *)
(* which is to say whatever Covers is.                                     *)
(***************************************************************************)
EXTENDS XdstpStream, DeltaStreamProofs

IInv == DeltaInv(Bodies)

LEMMA BodyTyped == \A t \in Types : BodyOf(t) \in Bodies
BY XdstpAssumption DEF BodyOf, Bodies

LEMMA BuildTyped == Build \in Holding(Bodies)
BY BodyTyped DEF Build, Holding, Entries

LEMMA InitInv == Init => IInv
<1>1. Leftover \in SUBSET Holding(Bodies)
  BY XdstpAssumption
<1> QED BY <1>1, BuildTyped, InitDelta DEF Init, IInv

LEMMA NextInv == IInv /\ [Next]_vars => IInv'
<1> SUFFICES ASSUME IInv, [Next]_vars PROVE IInv'
  OBVIOUS
<1> USE DEF IInv
<1>1. ASSUME NEW s \in Streams, Serve(s) PROVE IInv'
  BY <1>1, TaskDelta DEF Serve
<1>2. ASSUME NEW s \in Streams, Envoy(s) PROVE IInv'
  BY <1>2, ClientDelta DEF Envoy
<1>3. ASSUME NEW s \in Streams, Connect(s) PROVE IInv'
  BY <1>3, ConnectDelta
<1>4. ASSUME NEW s \in Streams, Disconnect(s) PROVE IInv'
  BY <1>4, DisconnectDelta
<1>5. ASSUME NEW s \in Streams, LoseInterest(s) PROVE IInv'
  BY <1>5, UnsubscribeDelta DEF LoseInterest
<1>6. ASSUME NEW e \in Envoys, Discover(e) PROVE IInv'
  BY <1>6, InterestDelta DEF Discover
<1>7. CASE UNCHANGED vars
  <2>1. UNCHANGED <<wireVars, taskVars, envoyVars>> /\ UNCHANGED <<advertised, changes>>
    BY <1>7 DEF vars, streamVars, watchVars
  <2>2. advertised \in Holding(Bodies) /\ changes \in Nat
    BY DEF DeltaInv, DeltaTypeOK, StreamTypeOK
  <2> QED BY <2>1, <2>2, WatchDelta
<1> QED BY <1>1, <1>2, <1>3, <1>4, <1>5, <1>6, <1>7 DEF Next

THEOREM Inductive == Spec => []IInv
<1> QED BY InitInv, NextInv, PTL DEF Spec

-----------------------------------------------------------------------------
\* Chapter 5's state has its types: no request or response is malformed, and
\* what is queued for a client never exceeds the channel's capacity.
THEOREM TypeCorrect == Spec => []TypeOK
<1>1. IInv => TypeOK
  BY DEF IInv, DeltaInv, DeltaTypeOK, TypeOK
<1> QED BY <1>1, Inductive, PTL

\* main.rs, delta_aggregated_resources: whatever collections and names were
\* subscribed to and given up, overlapping ones included, a quiet stream's
\* subscription covers what its client asked for and nothing else.
THEOREM SubscriptionsAgree == Spec => []SubscriptionAgrees
<1>1. IInv => SubscriptionAgrees
  BY DeltaAgrees DEF IInv
<1> QED BY <1>1, Inductive, PTL

-----------------------------------------------------------------------------
(* What clients have. *)

\* The one version there is is not refused.
AllAccepted == 1 \notin Refused

OnlyEntry(t) == [version |-> 1, body |-> BodyOf(t)]

Offered == [t \in Types |-> [n \in Names |-> {OnlyEntry(t)}]]

\* A client has what is offered or what it was left with.
Held ==
    [t \in Types |-> [n \in Names |->
        {OnlyEntry(t)} \cup ({h[t][n] : h \in Leftover} \ {Absent})]]

XdstpHold ==
    /\ HoldInv(Bodies, {})
    /\ EntriesIn(Offered, Held)
    /\ News(Bodies)

LEMMA InitXdstpHold == Init => XdstpHold
<1> SUFFICES ASSUME Init PROVE XdstpHold
  OBVIOUS
<1>1. HoldInv(Bodies, {})
  BY InitHold DEF Init
<1>2. \A t \in Types, n \in Names : Build[t][n] \in {OnlyEntry(t), Absent}
  BY DEF Build, OnlyEntry
<1>3. OffersIn(Offered)
  BY <1>2, EmptyFacts DEF Init, StreamInit, OffersIn, Offered
<1>4. HoldsIn(Held)
  <2>1. \A e \in Envoys : has[e] \in Leftover
    BY DEF Init, EnvoyInit
  <2> QED BY <2>1 DEF HoldsIn, Held
<1>5. \A t \in Types, n \in Names : Offered[t][n] \subseteq Held[t][n]
  BY DEF Offered, Held
<1>6. News(Bodies)
  BY DEF Init, StreamInit, News
<1> QED BY <1>1, <1>3, <1>4, <1>5, <1>6 DEF XdstpHold, EntriesIn

LEMMA NoneRefused ==
    ASSUME AllAccepted, IInv, EntriesIn(Offered, Held), NEW s \in Streams
    PROVE  ~Reject(s)
<1> SUFFICES ASSUME Reject(s) PROVE FALSE
  OBVIOUS
<1>1. outbound[s] \in Seq(Responses(Bodies)) /\ outbound[s] # <<>>
  BY DEF IInv, DeltaInv, DeltaTypeOK, StreamTypeOK, Reject, Reply
<1>2. PICK resp \in Responses(Bodies) : resp = Head(outbound[s]) /\ resp = outbound[s][1]
  BY <1>1, TailFacts
<1>3. 1 \in 1 .. Len(outbound[s])
  <2>1. Len(outbound[s]) \in Nat \ {0}
    BY <1>1, TailFacts
  <2> QED BY <2>1
<1>4. PICK n \in Names : resp.resources[n] # Absent /\ resp.resources[n].version \in Refused
  BY <1>2 DEF Reject, Refuses
<1>5. resp.type \in Types
  BY DEF Responses
<1>6. resp.resources[n] \in Offered[resp.type][n] \cup {Absent}
  BY <1>2, <1>3 DEF EntriesIn, OffersIn
<1>7. resp.resources[n] = OnlyEntry(resp.type)
  BY <1>4, <1>5, <1>6 DEF Offered
<1> QED BY <1>4, <1>7 DEF OnlyEntry, AllAccepted

\* What ties sent to what clients have is kept, L being what they may refuse.
LEMMA NextHold ==
    ASSUME NEW L, IInv, HoldInv(Bodies, L), [Next]_vars,
           \A s \in Streams : Reject(s) =>
              \A t \in Types, n \in Names : Head(outbound[s]) \in Naming(Bodies, t, n) =>
                 <<t, Ver(Head(outbound[s]).resources[n])>> \in L
    PROVE  HoldInv(Bodies, L)'
<1>0. DeltaInv(Bodies)
  BY DEF IInv
<1>1. ASSUME NEW s \in Streams, Serve(s) PROVE HoldInv(Bodies, L)'
  BY <1>0, <1>1, TaskHolds DEF Serve
<1>2. ASSUME NEW s \in Streams, Accept(s) \/ Reject(s) PROVE HoldInv(Bodies, L)'
  BY <1>0, <1>2, ReplyHold
<1>3. ASSUME NEW s \in Streams,
             Envoy(s) \/ Connect(s) \/ Disconnect(s) \/ LoseInterest(s)
      PROVE  HoldInv(Bodies, L)'
  BY <1>0, <1>2, <1>3, SubscribeHold, UnsubscribeHold, ConnectHold, DisconnectHold
  DEF Envoy, LoseInterest, Client
<1>4. ASSUME NEW e \in Envoys, Discover(e) PROVE HoldInv(Bodies, L)'
  BY <1>0, <1>4, InterestHold DEF Discover
<1>5. CASE UNCHANGED vars
  <2>1. UNCHANGED <<wireVars, taskVars, envoyVars, watchVars>>
    BY <1>5 DEF vars, streamVars
  <2> QED BY <1>0, <2>1, WatchHold
<1> QED BY <1>1, <1>3, <1>4, <1>5 DEF Next

LEMMA NextXdstpHold ==
    ASSUME AllAccepted, IInv, XdstpHold, [Next]_vars
    PROVE  XdstpHold'
<1>0. DeltaInv(Bodies) /\ News(Bodies) /\ EntriesIn(Offered, Held)
  BY DEF IInv, XdstpHold
<1>1. \A s \in Streams : ~Reject(s)
  BY <1>0, NoneRefused
<1>2. HoldInv(Bodies, {}) /\ HoldInv(Bodies, {})'
  BY <1>1, NextHold DEF XdstpHold
<1>3. ASSUME NEW s \in Streams, Serve(s) PROVE EntriesIn(Offered, Held)' /\ News(Bodies)'
  <2>1. Task(s) /\ UNCHANGED envoyVars /\ UNCHANGED has
    BY <1>3 DEF Serve, envoyVars
  <2>2. OffersIn(Offered)'
    BY <1>0, <2>1, TaskOffers DEF EntriesIn
  <2>3. EntriesIn(Offered, Held)'
    BY <1>0, <2>1, <2>2 DEF EntriesIn, HoldsIn
  <2>4. News(Bodies)'
    BY <1>0, <1>2, <2>1, TaskNews
  <2> QED BY <2>3, <2>4
<1>4. ASSUME NEW s \in Streams,
             Envoy(s) \/ Connect(s) \/ Disconnect(s) \/ LoseInterest(s)
      PROVE  EntriesIn(Offered, Held)' /\ News(Bodies)'
  <2>1. \/ Client(s) \/ Connect(s) \/ Disconnect(s)
        \/ \E t \in Types, p \in Patterns \cup {Star} : Unsubscribe(s, t, p)
    BY <1>4 DEF Envoy, LoseInterest
  <2>2. EntriesIn(Offered, Held)'
    BY <1>0, <2>1, ClientEntries
  <2>3. News(Bodies)'
    BY <1>0, <1>1, <1>2, <2>1, ClientNews
  <2> QED BY <2>2, <2>3
<1>5. CASE (\E e \in Envoys : Discover(e)) \/ UNCHANGED vars
  <2>1. UNCHANGED <<advertised, up, pc, held, outbound, has>>
    BY <1>5 DEF Discover, TakeInterest, vars, streamVars, watchVars, wireVars, taskVars, envoyVars
  <2>2. EntriesIn(Offered, Held)'
    BY <1>0, <2>1 DEF EntriesIn, OffersIn, HoldsIn
  <2>3. News(Bodies)'
    BY <1>0, <2>1, SameNews DEF News
  <2> QED BY <1>2, <2>2, <2>3 DEF XdstpHold
<1> QED BY <1>2, <1>3, <1>4, <1>5 DEF Next, XdstpHold

LEMMA AlwaysHold == ASSUME AllAccepted PROVE Spec => []XdstpHold
<1>1. IInv /\ XdstpHold /\ [Next]_vars => XdstpHold'
  BY NextXdstpHold
<1> QED BY <1>1, InitInv, NextInv, InitXdstpHold, PTL DEF Spec

\* What a client was left with has its types, an address in endpoints only.
LEMMA LeftoverTyped ==
    ASSUME NEW h \in Leftover, NEW t \in Types, NEW n \in Names, h[t][n] # Absent
    PROVE  h[t][n] \in Entries(Bodies) /\ (t # "EDS" => h[t][n].body = NoAddress)
<1>1. h \in Holding(Bodies) /\ (t # "EDS" => h[t][n].body = NoAddress)
  BY XdstpAssumption
<1> QED BY <1>1 DEF Holding

\* main.rs, delta_aggregated_resources: a client that is served over a collection,
\* a name or both, over its first stream or a later one, and may come with
\* anything from an earlier control plane, ends up with each resource that it
\* asked for as the snapshot has it, and without those that are gone; or without
\* one that it gave up.  All that may be left of before are endpoints at another
\* address, at the version on offer.
THEOREM OnlyOldAddresses ==
    ASSUME AllAccepted
    PROVE  Spec => []OnlyAddressesGoStale
<1>1. IInv /\ XdstpHold => OnlyAddressesGoStale
  <2> SUFFICES ASSUME IInv, XdstpHold, NEW s \in Streams, Quiet(s), NEW t \in Types,
                      NEW n \in Meant(requested[s][t] \cap wants[Owner[s]][t]),
                      ~Current(Owner[s], t, n), ~(drops > 0 /\ has[Owner[s]][t][n] = Absent)
               PROVE  /\ OldAddress(Owner[s], t, n)
                      /\ \E h \in Leftover : has[Owner[s]][t][n] = h[t][n]
    BY DEF OnlyAddressesGoStale
  <2>1. PICK e \in Envoys : e = Owner[s]
    BY EnvoyAssumption
  <2>2. n \in Names /\ HeldBy({}, s, t, n, Ver(advertised[t][n]))
    BY QuietHold DEF IInv, XdstpHold
  <2>3. drops \in Nat
    BY DEF IInv, DeltaInv, DeltaTypeOK, EnvoyTypeOK
  <2>4. Ver(has[e][t][n]) = Ver(advertised[t][n])
    BY <2>1, <2>2, <2>3 DEF HeldBy
  <2>5. /\ advertised[t][n] \in {OnlyEntry(t), Absent}
        /\ \/ has[e][t][n] \in {OnlyEntry(t), Absent}
           \/ \E h \in Leftover : h[t][n] # Absent /\ has[e][t][n] = h[t][n]
    BY <2>2 DEF XdstpHold, EntriesIn, OffersIn, HoldsIn, Offered, Held
  <2>6. /\ advertised[t][n] # Absent => advertised[t][n].version = 1
        /\ has[e][t][n] # Absent => has[e][t][n].version \in Nat \ {0}
    BY <2>2, <2>5, LeftoverTyped DEF OnlyEntry, Entries
  <2>7. /\ has[e][t][n] # Absent /\ advertised[t][n] # Absent
        /\ has[e][t][n].version = advertised[t][n].version
    BY <2>1, <2>4, <2>6 DEF Ver, Current
  <2>8. PICK h \in Leftover : h[t][n] # Absent /\ has[e][t][n] = h[t][n]
    BY <2>1, <2>5, <2>7 DEF Current
  <2>9. t = "EDS"
    <3>1. ASSUME t # "EDS" PROVE has[e][t][n] = OnlyEntry(t)
      <4>1. h[t][n] \in Entries(Bodies) /\ h[t][n].body = NoAddress /\ h[t][n].version = 1
        BY <2>2, <2>5, <2>7, <2>8, <3>1, LeftoverTyped DEF OnlyEntry
      <4> QED BY <2>8, <3>1, <4>1 DEF OnlyEntry, BodyOf, Entries
    <3> QED BY <2>1, <2>5, <2>7, <3>1 DEF Current
  <2> QED BY <2>1, <2>7, <2>8, <2>9 DEF OldAddress
<1> QED BY <1>1, AlwaysHold, Inductive, PTL

\* main.rs, send_delta: a client may report more than it subscribes to, be it
\* under a collection's prefix; nothing that it does not want is sent to it or
\* taken away from it.
THEOREM NothingUnwantedSent == Spec => []NothingUnwanted
<1> DEFINE L == Types \X Nat
<1>1. Init => HoldInv(Bodies, L)
  BY InitHold DEF Init
<1>2. IInv /\ HoldInv(Bodies, L) /\ [Next]_vars => HoldInv(Bodies, L)'
  <2> SUFFICES ASSUME IInv, HoldInv(Bodies, L), [Next]_vars PROVE HoldInv(Bodies, L)'
    OBVIOUS
  <2>1. ASSUME NEW t \in Types, NEW n \in Names, NEW resp \in Naming(Bodies, t, n)
        PROVE  <<t, Ver(resp.resources[n])>> \in L
    BY DEF Naming, Responses, Entries, Ver
  <2> HIDE DEF L
  <2> QED BY <2>1, NextHold
<1>3. IInv /\ HoldInv(Bodies, L) => NothingUnwanted
  BY WantedOnly DEF IInv
<1> HIDE DEF L
<1> QED BY <1>1, <1>2, <1>3, InitInv, NextInv, PTL DEF Spec

\* main.rs, send_delta: no resource is sent to a client that has it, be it that
\* it comes to it by a collection and by name.
THEOREM NothingSentTwice ==
    ASSUME AllAccepted
    PROVE  Spec => []NothingResent
<1>1. IInv /\ XdstpHold => NothingResent
  BY NewsRead DEF IInv, XdstpHold
<1> QED BY <1>1, AlwaysHold, Inductive, PTL

===============================================================================
