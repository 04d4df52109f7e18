--------------------------- MODULE DeltaStreamProofs ---------------------------
(***************************************************************************)
(* Inductive invariants of the delta stream and the client at its far end, *)
(* and that every step of either preserves them:                           *)
(*   DeltaInv  types, and that the subscription the server keeps is the    *)
(*             one the client asked for, but for the requests on their     *)
(*             way;                                                        *)
(*   HoldInv   what the server has recorded as sent is what the client     *)
(*             holds, but for the responses on their way;                  *)
(*   EntriesIn what is sent and held is what was advertised once;          *)
(*   News      no response on its way brings a client what it has then.    *)
(* The chapters' proof modules add their own steps.                        *)
(***************************************************************************)
EXTENDS EnvoyDelta, SequenceTheorems, TLAPS

-----------------------------------------------------------------------------
(* The invariant. *)

\* No element of q is in M; of those in M the last one is in A.
NoneIn(q, M) == \A i \in 1 .. Len(q) : q[i] \notin M

LastIn(q, A, M) ==
    \E i \in 1 .. Len(q) :
        /\ q[i] \in A
        /\ \A j \in 1 .. Len(q) : i < j => q[j] \notin M

Empty(req) == req.subscribe = {} /\ req.unsubscribe = {}

\* The requests that add pattern p to the subscription of type t, or take it
\* away.  Without names a request adds the wildcard, if it is new, the first.
Adding(t, p, new) ==
    {req \in Requests :
        /\ req.type = t /\ ~req.error
        /\ p \notin req.unsubscribe
        /\ p \in req.subscribe \/ (p = Star /\ new /\ Empty(req))}

Dropping(t, p) ==
    {req \in Requests : req.type = t /\ ~req.error /\ p \in req.unsubscribe}

Mentioning(t, p, new) == Adding(t, p, new) \cup Dropping(t, p)

InSub(sub, p) == IF p = Star THEN sub.wildcard ELSE p \in sub.names

\* What the client has asked for is what its last request on the way says, or,
\* if none speaks of p, what the server has on record.
Agrees(s, t, p) ==
    LET new == t \notin known[s]
        M   == Mentioning(t, p, new)
    IN  \/ /\ p \in requested[s][t]
           /\ \/ LastIn(inbound[s], Adding(t, p, new), M)
              \/ NoneIn(inbound[s], M) /\ InSub(subs[s][t], p)
        \/ /\ p \notin requested[s][t]
           /\ \/ LastIn(inbound[s], Dropping(t, p), M)
              \/ NoneIn(inbound[s], M) /\ ~InSub(subs[s][t], p)

\* Of the requests for a type the server does not know yet, at most the first
\* is empty, and none answers a response.
OnlyFirstEmpty(s, t) ==
    t \notin known[s] =>
        \A i \in 1 .. Len(inbound[s]) : inbound[s][i].type = t =>
            /\ ~inbound[s][i].error
            /\ Empty(inbound[s][i]) => \A j \in 1 .. Len(inbound[s]) :
                                           j < i => inbound[s][j].type # t

AskedInv(s, t) ==
    /\ t \in known[s] => t \in asked[s]
    /\ t \notin asked[s] =>
          /\ requested[s][t] = {}
          /\ \A i \in 1 .. Len(inbound[s]) : inbound[s][i].type # t
    /\ requested[s][t] \subseteq wants[Owner[s]][t]

ClientInv(s) ==
    up[s] =>
        /\ pc[s] \notin {"unused", "closed"}
        /\ \A r \in Streams : up[r] /\ Owner[r] = Owner[s] => r = s
        /\ \A t \in Types : AskedInv(s, t) /\ OnlyFirstEmpty(s, t)
        /\ \A t \in Types, p \in Patterns \cup {Star} : Agrees(s, t, p)

TaskInv(s) ==
    /\ todo[s] \subseteq known[s]
    /\ \A i \in 1 .. Len(outbound[s]) : outbound[s][i].type \in known[s]

\* A stream that was never opened.
UnusedInv(s) ==
    pc[s] = "unused" =>
        /\ known[s] = {} /\ inbound[s] = <<>>
        /\ subs[s] = [t \in Types |-> NoSub]

\* A stream that is not up has no client.
DownInv(s) ==
    ~up[s] => asked[s] = {} /\ requested[s] = [t \in Types |-> {}]

DeltaTypeOK(Bodies) ==
    /\ StreamTypeOK(Bodies)
    /\ EnvoyTypeOK(Bodies)
    /\ \A s \in Streams : pc[s] = "push" => held[s] \in Holding(Bodies)

DeltaInv(Bodies) ==
    /\ DeltaTypeOK(Bodies)
    /\ \A s \in Streams : ClientInv(s) /\ TaskInv(s) /\ UnusedInv(s) /\ DownInv(s)

-----------------------------------------------------------------------------
(* Queues. *)

\* Reading the head of a queue.
LEMMA TailFacts ==
    ASSUME NEW T, NEW q \in Seq(T), q # <<>>
    PROVE  /\ Len(q) \in Nat \ {0} /\ Len(Tail(q)) = Len(q) - 1
           /\ Head(q) = q[1] /\ Head(q) \in T
           /\ Tail(q) \in Seq(T)
           /\ \A i \in 1 .. Len(Tail(q)) : Tail(q)[i] = q[i + 1] /\ i + 1 \in 2 .. Len(q)
<1>1. Len(q) \in Nat \ {0}
  BY EmptySeq, LenProperties
<1>2. /\ Head(q) \in T
      /\ Tail(q) \in Seq(T)
      /\ Len(Tail(q)) = Len(q) - 1
      /\ \A i \in 1 .. Len(Tail(q)) : Tail(q)[i] = q[i + 1]
  BY HeadTailProperties
<1>3. Head(q) = q[1]
  OBVIOUS
<1> QED BY <1>1, <1>2, <1>3

LEMMA AppendFacts ==
    ASSUME NEW T, NEW q \in Seq(T), NEW x \in T
    PROVE  /\ Len(q) \in Nat /\ Len(Append(q, x)) = Len(q) + 1
           /\ Append(q, x) \in Seq(T)
           /\ Append(q, x)[Len(q) + 1] = x
           /\ \A i \in 1 .. Len(q) : Append(q, x)[i] = q[i]
BY AppendProperties, LenProperties

LEMMA EmptyFacts == ASSUME NEW T PROVE <<>> \in Seq(T) /\ Len(<<>>) = 0
BY EmptySeq

LEMMA TailLastIn ==
    ASSUME NEW T, NEW q \in Seq(T), q # <<>>, NEW A, NEW M
    PROVE  /\ NoneIn(q, M) => NoneIn(Tail(q), M) /\ Head(q) \notin M
           /\ LastIn(q, A, M) =>
                 LastIn(Tail(q), A, M) \/ (NoneIn(Tail(q), M) /\ Head(q) \in A)
<1>1. /\ Len(q) \in Nat \ {0}
      /\ Head(q) = q[1]
      /\ Len(Tail(q)) = Len(q) - 1
      /\ \A i \in 1 .. Len(Tail(q)) : Tail(q)[i] = q[i + 1]
  BY TailFacts
<1>2. NoneIn(q, M) => NoneIn(Tail(q), M) /\ Head(q) \notin M
  BY <1>1 DEF NoneIn
<1>3. ASSUME NEW i \in 1 .. Len(q), q[i] \in A,
             \A j \in 1 .. Len(q) : i < j => q[j] \notin M
      PROVE  LastIn(Tail(q), A, M) \/ (NoneIn(Tail(q), M) /\ Head(q) \in A)
  <2>1. CASE i = 1
    BY <1>1, <1>3, <2>1 DEF NoneIn
  <2>2. CASE i # 1
    <3>1. i - 1 \in 1 .. Len(Tail(q)) /\ Tail(q)[i - 1] = q[i]
      BY <1>1, <2>2
    <3>2. \A j \in 1 .. Len(Tail(q)) : i - 1 < j => Tail(q)[j] \notin M
      BY <1>1, <1>3, <2>2
    <3> QED BY <1>3, <3>1, <3>2 DEF LastIn
  <2> QED BY <2>1, <2>2
<1> QED BY <1>2, <1>3 DEF LastIn

LEMMA AppendLastIn ==
    ASSUME NEW T, NEW q \in Seq(T), NEW x \in T, NEW A, NEW M
    PROVE  /\ x \in A => LastIn(Append(q, x), A, M)
           /\ x \notin M /\ LastIn(q, A, M) => LastIn(Append(q, x), A, M)
           /\ x \notin M /\ NoneIn(q, M) => NoneIn(Append(q, x), M)
<1> DEFINE r == Append(q, x)
<1>1. /\ Len(q) \in Nat
      /\ Len(r) = Len(q) + 1
      /\ r[Len(q) + 1] = x
      /\ \A i \in 1 .. Len(q) : r[i] = q[i]
  BY AppendFacts
<1> HIDE DEF r
<1>2. x \in A => LastIn(r, A, M)
  BY <1>1 DEF LastIn
<1>3. ASSUME x \notin M, LastIn(q, A, M) PROVE LastIn(r, A, M)
  <2>1. PICK i \in 1 .. Len(q) :
           q[i] \in A /\ \A j \in 1 .. Len(q) : i < j => q[j] \notin M
    BY <1>3 DEF LastIn
  <2>2. i \in 1 .. Len(r) /\ r[i] \in A
    BY <1>1, <2>1
  <2>3. \A j \in 1 .. Len(r) : i < j => r[j] \notin M
    BY <1>1, <1>3, <2>1
  <2> QED BY <2>2, <2>3 DEF LastIn
<1>4. x \notin M /\ NoneIn(q, M) => NoneIn(r, M)
  BY <1>1 DEF NoneIn
<1> QED BY <1>2, <1>3, <1>4 DEF r

-----------------------------------------------------------------------------
(* Types. *)

LEMMA RequestsTyped ==
    /\ \A t \in Types, v \in [Names -> Nat], P \in SUBSET (Patterns \cup {Star}) :
          Subscription(t, v, P) \in Requests
    /\ \A t \in Types, P \in SUBSET (Patterns \cup {Star}) : Unsubscription(t, P) \in Requests
    /\ \A t \in Types : Ack(t) \in Requests /\ Nack(t) \in Requests
    /\ NothingInitial \in [Names -> Nat]
BY DEF Subscription, Unsubscription, Ack, Nack, NothingInitial, Requests

LEMMA SubscribedTyped ==
    ASSUME NEW sub \in [wildcard : BOOLEAN, names : SUBSET Patterns],
           NEW req \in Requests, NEW first \in BOOLEAN
    PROVE  /\ Subscribed(sub, req, first) \in [wildcard : BOOLEAN, names : SUBSET Patterns]
           /\ \A t \in Types, p \in Patterns \cup {Star} : req.type = t /\ ~req.error =>
                 /\ req \in Adding(t, p, first) => InSub(Subscribed(sub, req, first), p)
                 /\ req \in Dropping(t, p) => ~InSub(Subscribed(sub, req, first), p)
                 /\ req \notin Mentioning(t, p, first) =>
                       (InSub(Subscribed(sub, req, first), p) <=> InSub(sub, p))
<1>1. /\ req.subscribe \subseteq Patterns \cup {Star}
      /\ req.unsubscribe \subseteq Patterns \cup {Star}
      /\ sub.wildcard \in BOOLEAN /\ sub.names \subseteq Patterns
      /\ Star \notin Patterns
  BY DeltaAssumption DEF Requests
<1> DEFINE legacy == first /\ req.subscribe = {} /\ req.unsubscribe = {}
           wild == legacy \/ (Star \notin req.unsubscribe /\ (sub.wildcard \/ Star \in req.subscribe))
           names == (sub.names \cup (req.subscribe \ {Star})) \ req.unsubscribe
           res == Subscribed(sub, req, first)
<1>2. res = [wildcard |-> wild, names |-> names]
  BY DEF Subscribed
<1>3. wild \in BOOLEAN /\ names \subseteq Patterns
  BY <1>1
<1>4. res.wildcard = wild /\ res.names = names
  BY <1>2
<1>5. ASSUME NEW t \in Types, NEW p \in Patterns \cup {Star}, req.type = t, ~req.error
      PROVE  /\ req \in Adding(t, p, first) => InSub(res, p)
             /\ req \in Dropping(t, p) => ~InSub(res, p)
             /\ req \notin Mentioning(t, p, first) => (InSub(res, p) <=> InSub(sub, p))
  <2>1. CASE p = Star
    BY <1>1, <1>4, <1>5, <2>1 DEF InSub, Adding, Dropping, Mentioning, Empty
  <2>2. CASE p # Star
    BY <1>1, <1>4, <1>5, <2>2 DEF InSub, Adding, Dropping, Mentioning, Empty
  <2> QED BY <2>1, <2>2
<1> QED BY <1>2, <1>3, <1>5

LEMMA InitDelta ==
    ASSUME NEW B, NEW first \in Holding(B), NEW leftover \in SUBSET Holding(B),
           StreamInit(first), EnvoyInit(leftover)
    PROVE  DeltaInv(B)
<1> USE DEF StreamInit, EnvoyInit
<1>1. StreamTypeOK(B)
  BY EmptyFacts, ChannelAssumption DEF StreamTypeOK, NoSub, NoSent
<1>2. EnvoyTypeOK(B)
  BY EnvoyAssumption DEF EnvoyTypeOK
<1>3. \A s \in Streams : ClientInv(s) /\ TaskInv(s) /\ UnusedInv(s) /\ DownInv(s)
  BY EmptyFacts DEF ClientInv, TaskInv, UnusedInv, DownInv
<1> QED BY <1>1, <1>2, <1>3 DEF DeltaInv, DeltaTypeOK

LEMMA TakeTyped ==
    ASSUME NEW B, DeltaTypeOK(B), NEW s \in Streams, Take(s)
    PROVE  /\ Head(inbound[s]) \in Requests
           /\ inbound' \in [Streams -> Seq(Requests)]
<1>1. inbound \in [Streams -> Seq(Requests)] /\ inbound[s] # <<>>
  BY DEF DeltaTypeOK, StreamTypeOK, Take
<1> QED BY <1>1, TailFacts DEF Take

LEMMA NackTyped ==
    ASSUME NEW B, DeltaTypeOK(B), NEW s \in Streams, ReceiveNack(s),
           UNCHANGED envoyVars
    PROVE  DeltaTypeOK(B)'
BY TakeTyped
DEF DeltaTypeOK, StreamTypeOK, EnvoyTypeOK, ReceiveNack, Take, watchVars, envoyVars

LEMMA RequestTyped ==
    ASSUME NEW B, DeltaTypeOK(B), NEW s \in Streams, ReceiveRequest(s),
           UNCHANGED envoyVars
    PROVE  DeltaTypeOK(B)'
<1> DEFINE req == Head(inbound[s])
           t == req.type
<1>1. /\ req \in Requests /\ t \in Types
      /\ inbound' \in [Streams -> Seq(Requests)]
  BY TakeTyped DEF ReceiveRequest, Requests
<1>2. [n \in Names |-> IF req.initial[n] # 0 THEN req.initial[n] ELSE sent[s][t][n]]
         \in [Names -> Nat]
  BY <1>1 DEF DeltaTypeOK, StreamTypeOK, Requests
<1>3. Subscribed(subs[s][t], req, t \notin known[s])
         \in [wildcard : BOOLEAN, names : SUBSET Patterns]
  <2>1. subs[s][t] \in [wildcard : BOOLEAN, names : SUBSET Patterns]
    BY <1>1 DEF DeltaTypeOK, StreamTypeOK
  <2>2. (t \notin known[s]) \in BOOLEAN
    OBVIOUS
  <2> HIDE DEF req, t
  <2> QED BY <1>1, <2>1, <2>2, SubscribedTyped
<1>4. /\ sent' = [sent EXCEPT ![s][t] =
            [n \in Names |-> IF req.initial[n] # 0 THEN req.initial[n] ELSE sent[s][t][n]]]
      /\ subs' = [subs EXCEPT ![s][t] = Subscribed(subs[s][t], req, t \notin known[s])]
      /\ known' = [known EXCEPT ![s] = @ \cup {t}]
      /\ Visit(s, {t}, advertised)
      /\ UNCHANGED <<watchVars, up, outbound, seen>>
  BY <1>1 DEF ReceiveRequest, Take, DeltaTypeOK, StreamTypeOK
<1> HIDE DEF req, t
<1>5. /\ sent' \in [Streams -> [Types -> [Names -> Nat]]]
      /\ subs' \in [Streams -> [Types -> [wildcard : BOOLEAN, names : SUBSET Patterns]]]
  BY <1>1, <1>2, <1>3, <1>4 DEF DeltaTypeOK, StreamTypeOK
<1>6. StreamTypeOK(B)'
  BY <1>1, <1>4, <1>5 DEF DeltaTypeOK, StreamTypeOK, Visit, watchVars
<1> QED BY <1>4, <1>6 DEF DeltaTypeOK, StreamTypeOK, EnvoyTypeOK, Visit, envoyVars

LEMMA WatchTyped ==
    ASSUME NEW B, DeltaTypeOK(B), NEW s \in Streams, WatchChanged(s), UNCHANGED envoyVars
    PROVE  DeltaTypeOK(B)'
BY DEF DeltaTypeOK, StreamTypeOK, EnvoyTypeOK, WatchChanged, Visit, watchVars, wireVars,
       envoyVars

LEMMA SendNothingTyped ==
    ASSUME NEW B, DeltaTypeOK(B), NEW s \in Streams, NEW t \in Types, SendNothing(s, t),
           UNCHANGED envoyVars
    PROVE  DeltaTypeOK(B)'
BY DEF DeltaTypeOK, StreamTypeOK, EnvoyTypeOK, SendNothing, Visit, watchVars, wireVars,
       envoyVars

\* A response holds entries of the snapshot it is made from.
LEMMA SendDeltaTyped ==
    ASSUME NEW B, DeltaTypeOK(B), NEW s \in Streams, NEW t \in Types, SendDelta(s, t),
           UNCHANGED envoyVars
    PROVE  /\ DeltaTypeOK(B)'
           /\ \E resp \in Responses(B) :
                 resp.type = t /\ outbound' = [outbound EXCEPT ![s] = Append(outbound[s], resp)]
<1> DEFINE resp ==
              [type |-> t,
               resources |-> [n \in Names |-> IF Moved(s, t, n) THEN held[s][t][n] ELSE Absent],
               removed |-> Gone(s, t)]
           now ==
              [n \in Names |-> IF Moved(s, t, n) THEN held[s][t][n].version
                               ELSE IF n \in Gone(s, t) THEN 0 ELSE sent[s][t][n]]
<1>1. /\ outbound' = [outbound EXCEPT ![s] = Append(outbound[s], resp)]
      /\ sent' = [sent EXCEPT ![s][t] = now]
      /\ pc[s] = "push" /\ t \in todo[s] /\ Len(outbound[s]) < ChanCap
      /\ Visit(s, todo[s] \ {t}, held[s])
      /\ UNCHANGED <<advertised, changes, up, inbound, seen, known, subs>>
  BY DEF SendDelta, DeltaTypeOK, StreamTypeOK, watchVars
<1>2. held[s][t] \in [Names -> Entries(B) \cup {Absent}]
  BY <1>1 DEF DeltaTypeOK, Holding
<1>3. resp \in Responses(B)
  BY <1>2 DEF Responses, Gone
<1>4. now \in [Names -> Nat]
  BY <1>2 DEF DeltaTypeOK, StreamTypeOK, Moved, Entries
<1>5. /\ Append(outbound[s], resp) \in Seq(Responses(B))
      /\ Len(Append(outbound[s], resp)) <= ChanCap
  <2>1. outbound[s] \in Seq(Responses(B))
    BY DEF DeltaTypeOK, StreamTypeOK
  <2> HIDE DEF resp
  <2> QED BY <1>1, <1>3, <2>1, AppendFacts, ChannelAssumption
<1>6. resp.type = t
  OBVIOUS
<1> HIDE DEF resp, now
<1>7. /\ outbound' \in [Streams -> Seq(Responses(B))]
      /\ \A r \in Streams : Len(outbound'[r]) <= ChanCap
      /\ sent' \in [Streams -> [Types -> [Names -> Nat]]]
  BY <1>1, <1>4, <1>5 DEF DeltaTypeOK, StreamTypeOK
<1>8. StreamTypeOK(B)'
  BY <1>1, <1>7 DEF DeltaTypeOK, StreamTypeOK, Visit
<1>9. DeltaTypeOK(B)'
  BY <1>1, <1>8 DEF DeltaTypeOK, StreamTypeOK, EnvoyTypeOK, Visit, envoyVars
<1> QED BY <1>1, <1>3, <1>6, <1>9

LEMMA CloseAllTyped ==
    ASSUME NEW B, DeltaTypeOK(B), NEW S \in SUBSET Streams, CloseAll(S),
           advertised' \in Holding(B), changes' \in Nat, up' \in [Streams -> BOOLEAN],
           EnvoyTypeOK(B)'
    PROVE  DeltaTypeOK(B)'
<1>1. /\ inbound' \in [Streams -> Seq(Requests)]
      /\ outbound' \in [Streams -> Seq(Responses(B))]
      /\ \A r \in Streams : Len(outbound'[r]) <= ChanCap
  BY EmptyFacts, ChannelAssumption DEF DeltaTypeOK, StreamTypeOK, CloseAll
<1>2. /\ subs' \in [Streams -> [Types -> [wildcard : BOOLEAN, names : SUBSET Patterns]]]
      /\ sent' \in [Streams -> [Types -> [Names -> Nat]]]
  BY DEF DeltaTypeOK, StreamTypeOK, CloseAll, NoSub, NoSent
<1>3. StreamTypeOK(B)'
  BY <1>1, <1>2 DEF DeltaTypeOK, StreamTypeOK, CloseAll
<1> QED BY <1>3 DEF DeltaTypeOK, StreamTypeOK, CloseAll

-----------------------------------------------------------------------------
(* The task. *)

\* What the client and the server agree on, when nothing they go by has moved.
LEMMA SameClient ==
    ASSUME NEW s \in Streams, ClientInv(s),
           up'[s] = up[s], up[s] => pc'[s] \notin {"unused", "closed"},
           \A r \in Streams : up'[r] => up[r],
           inbound'[s] = inbound[s], known'[s] = known[s], subs'[s] = subs[s],
           asked'[s] = asked[s], requested'[s] = requested[s],
           \A t \in Types : wants[Owner[s]][t] \subseteq wants'[Owner[s]][t]
    PROVE  ClientInv(s)'
<1> SUFFICES ASSUME up[s] PROVE ClientInv(s)'
  BY DEF ClientInv
<1>1. \A t \in Types : AskedInv(s, t)' /\ OnlyFirstEmpty(s, t)'
  BY DEF ClientInv, AskedInv, OnlyFirstEmpty
<1>2. \A t \in Types, p \in Patterns \cup {Star} : Agrees(s, t, p)'
  BY DEF ClientInv, Agrees
<1> QED BY <1>1, <1>2 DEF ClientInv

\* The request at the head of a queue, and those behind it.
LEMMA TakeSplit ==
    ASSUME NEW B, DeltaTypeOK(B), NEW s \in Streams, Take(s)
    PROVE  /\ inbound[s] \in Seq(Requests) /\ inbound[s] # <<>>
           /\ inbound'[s] = Tail(inbound[s])
           /\ Head(inbound[s]) = inbound[s][1] /\ Head(inbound[s]) \in Requests
           /\ 1 \in 1 .. Len(inbound[s])
           /\ \A i \in 1 .. Len(inbound'[s]) :
                 /\ inbound'[s][i] = inbound[s][i + 1]
                 /\ i \in Nat /\ i + 1 \in 1 .. Len(inbound[s]) /\ 1 < i + 1
           /\ \A r \in Streams \ {s} : inbound'[r] = inbound[r]
<1>1. inbound \in [Streams -> Seq(Requests)] /\ inbound[s] # <<>>
  BY DEF DeltaTypeOK, StreamTypeOK, Take
<1>2. inbound' = [inbound EXCEPT ![s] = Tail(inbound[s])]
  BY DEF Take
<1>3. /\ Len(inbound[s]) \in Nat \ {0} /\ Len(Tail(inbound[s])) = Len(inbound[s]) - 1
      /\ Head(inbound[s]) = inbound[s][1] /\ Head(inbound[s]) \in Requests
      /\ \A i \in 1 .. Len(Tail(inbound[s])) :
            Tail(inbound[s])[i] = inbound[s][i + 1] /\ i + 1 \in 2 .. Len(inbound[s])
  BY <1>1, TailFacts
<1>4. inbound'[s] = Tail(inbound[s]) /\ \A r \in Streams \ {s} : inbound'[r] = inbound[r]
  BY <1>1, <1>2
<1> QED BY <1>1, <1>3, <1>4

\* Types that the request taken does not name are as before.
LEMMA OtherTypes ==
    ASSUME NEW B, DeltaTypeOK(B), NEW s \in Streams, Take(s), NEW t \in Types,
           \/ Head(inbound[s]).type # t
           \/ Head(inbound[s]).error,
           t \in known'[s] <=> t \in known[s],
           \A p \in Patterns \cup {Star} : InSub(subs'[s][t], p) <=> InSub(subs[s][t], p),
           asked'[s] = asked[s], requested'[s] = requested[s], wants' = wants,
           AskedInv(s, t), OnlyFirstEmpty(s, t),
           \A p \in Patterns \cup {Star} : Agrees(s, t, p)
    PROVE  /\ AskedInv(s, t)' /\ OnlyFirstEmpty(s, t)'
           /\ \A p \in Patterns \cup {Star} : Agrees(s, t, p)'
<1>1. AskedInv(s, t)'
  BY TakeSplit DEF AskedInv
<1>2. OnlyFirstEmpty(s, t)'
  <2> SUFFICES ASSUME t \notin known[s], NEW i \in 1 .. Len(inbound'[s]),
                      inbound'[s][i].type = t
               PROVE  /\ ~inbound'[s][i].error
                      /\ Empty(inbound'[s][i]) => \A j \in 1 .. Len(inbound'[s]) :
                            j < i => inbound'[s][j].type # t
    BY DEF OnlyFirstEmpty
  <2>1. /\ inbound'[s][i] = inbound[s][i + 1] /\ i + 1 \in 1 .. Len(inbound[s])
        /\ \A j \in 1 .. Len(inbound'[s]) :
              /\ inbound'[s][j] = inbound[s][j + 1] /\ j + 1 \in 1 .. Len(inbound[s])
              /\ j < i => j + 1 < i + 1
    BY TakeSplit
  <2> QED BY <2>1 DEF OnlyFirstEmpty
<1>3. ASSUME NEW p \in Patterns \cup {Star} PROVE Agrees(s, t, p)'
  <2> DEFINE A == Adding(t, p, t \notin known[s])
             D == Dropping(t, p)
             M == Mentioning(t, p, t \notin known[s])
             q == inbound[s]
  <2>1. Head(q) \notin A /\ Head(q) \notin D /\ Head(q) \notin M
    BY DEF Adding, Dropping, Mentioning
  <2>2. /\ Adding(t, p, t \notin known'[s]) = A
        /\ Mentioning(t, p, t \notin known'[s]) = M
    BY DEF Mentioning
  <2>3. q \in Seq(Requests) /\ q # <<>> /\ inbound'[s] = Tail(q)
    BY TakeSplit
  <2> HIDE DEF A, D, M, q
  <2>4. /\ NoneIn(q, M) => NoneIn(Tail(q), M)
        /\ LastIn(q, A, M) => LastIn(Tail(q), A, M)
        /\ LastIn(q, D, M) => LastIn(Tail(q), D, M)
    BY <2>1, <2>3, TailLastIn
  <2>5. Agrees(s, t, p)
    BY <1>3
  <2> QED BY <2>2, <2>3, <2>4, <2>5 DEF Agrees, A, D, M, q
<1> QED BY <1>1, <1>2, <1>3

LEMMA NackDelta ==
    ASSUME NEW B, DeltaInv(B), NEW s \in Streams, ReceiveNack(s), UNCHANGED envoyVars
    PROVE  DeltaInv(B)'
<1>1. DeltaTypeOK(B) /\ DeltaTypeOK(B)'
  BY NackTyped DEF DeltaInv
<1>2. /\ Take(s) /\ Head(inbound[s]).error /\ pc[s] = "select"
      /\ UNCHANGED <<up, outbound, pc, todo, known, subs, asked, requested, wants>>
  BY DEF ReceiveNack, Take, envoyVars
<1>3. ASSUME NEW r \in Streams PROVE ClientInv(r)'
  <2>1. CASE r = s
    <3> SUFFICES ASSUME up[s] PROVE ClientInv(s)'
      BY <1>2, <2>1 DEF ClientInv
    <3>1. \A t \in Types : /\ AskedInv(s, t)' /\ OnlyFirstEmpty(s, t)'
                           /\ \A p \in Patterns \cup {Star} : Agrees(s, t, p)'
      BY <1>1, <1>2, OtherTypes DEF DeltaInv, ClientInv
    <3> QED BY <1>2, <3>1 DEF DeltaInv, ClientInv
  <2>2. CASE r # s
    <3>1. inbound'[r] = inbound[r]
      BY <1>1, <1>2, <2>2, TakeSplit
    <3> QED BY <1>2, <3>1, SameClient DEF DeltaInv, ClientInv
  <2> QED BY <2>1, <2>2
<1>4. ASSUME NEW r \in Streams PROVE TaskInv(r)' /\ UnusedInv(r)' /\ DownInv(r)'
  <2>1. pc[r] = "unused" => inbound'[r] = inbound[r]
    BY <1>1, <1>2, TakeSplit
  <2> QED BY <1>2, <2>1 DEF DeltaInv, TaskInv, UnusedInv, DownInv
<1> QED BY <1>1, <1>3, <1>4 DEF DeltaInv

LEMMA RequestDelta ==
    ASSUME NEW B, DeltaInv(B), NEW s \in Streams, ReceiveRequest(s), UNCHANGED envoyVars
    PROVE  DeltaInv(B)'
<1>1. DeltaTypeOK(B) /\ DeltaTypeOK(B)'
  BY RequestTyped DEF DeltaInv
<1>2. PICK req \in Requests : req = Head(inbound[s])
  BY <1>1, TakeSplit DEF ReceiveRequest
<1>3. PICK t \in Types : t = req.type
  BY DEF Requests
<1>4. PICK sub : sub = Subscribed(subs[s][t], req, t \notin known[s])
  OBVIOUS
<1>5. /\ Take(s) /\ ~req.error /\ pc[s] = "select"
      /\ known' = [known EXCEPT ![s] = @ \cup {t}]
      /\ subs' = [subs EXCEPT ![s][t] = sub]
      /\ pc'[s] = "push" /\ todo' = [todo EXCEPT ![s] = {t}]
      /\ \A r \in Streams \ {s} : pc'[r] = pc[r]
      /\ UNCHANGED <<up, outbound, asked, requested, wants>>
  BY <1>2, <1>3, <1>4
  DEF ReceiveRequest, Take, Visit, envoyVars, DeltaInv, DeltaTypeOK, StreamTypeOK
<1>6. req = inbound[s][1] /\ 1 \in 1 .. Len(inbound[s])
  BY <1>1, <1>5, <1>2, TakeSplit
<1>7. /\ known \in [Streams -> SUBSET Types]
      /\ subs \in [Streams -> [Types -> [wildcard : BOOLEAN, names : SUBSET Patterns]]]
  BY <1>1 DEF DeltaTypeOK, StreamTypeOK
<1>8. /\ known'[s] = known[s] \cup {t}
      /\ subs'[s][t] = sub
      /\ \A u \in Types \ {t} : subs'[s][u] = subs[s][u]
      /\ \A r \in Streams \ {s} : known'[r] = known[r] /\ subs'[r] = subs[r]
  BY <1>5, <1>6, <1>7
<1>9. ASSUME up[s] PROVE AskedInv(s, t)' /\ OnlyFirstEmpty(s, t)'
  <2>1. AskedInv(s, t) /\ t \in asked[s]
    BY <1>6, <1>9, <1>3 DEF DeltaInv, ClientInv, AskedInv
  <2> QED BY <1>5, <1>8, <2>1 DEF AskedInv, OnlyFirstEmpty
<1>10. ASSUME up[s], NEW p \in Patterns \cup {Star} PROVE Agrees(s, t, p)'
  <2> DEFINE new == t \notin known[s]
             A == Adding(t, p, new)
             D == Dropping(t, p)
             M == Mentioning(t, p, new)
             N == Mentioning(t, p, FALSE)
             q == inbound[s]
  <2>1. /\ q \in Seq(Requests) /\ q # <<>> /\ inbound'[s] = Tail(q)
        /\ req = Head(q)
    BY <1>1, <1>5, <1>2, TakeSplit
  <2>2. ASSUME NEW i \in 1 .. Len(Tail(q))
        PROVE  /\ Tail(q)[i] \in A <=> Tail(q)[i] \in Adding(t, p, FALSE)
               /\ Tail(q)[i] \in M <=> Tail(q)[i] \in N
    <3>1. Tail(q)[i] = q[i + 1] /\ i + 1 \in 1 .. Len(q) /\ 1 < i + 1
      BY <1>1, <1>5, <2>1, TakeSplit
    <3>2. new /\ q[i + 1].type = t => ~Empty(q[i + 1])
      BY <1>6, <1>10, <1>3, <3>1 DEF DeltaInv, ClientInv, OnlyFirstEmpty
    <3> QED BY <3>1, <3>2 DEF Adding, Mentioning
  <2>3. /\ req \in A => InSub(sub, p)
        /\ req \in D => ~InSub(sub, p)
        /\ req \notin M => (InSub(sub, p) <=> InSub(subs[s][t], p))
    <3>1. subs[s][t] \in [wildcard : BOOLEAN, names : SUBSET Patterns]
      BY <1>6, <1>7
    <3>2. new \in BOOLEAN /\ req.type = t /\ ~req.error
      BY <1>5, <1>3
    <3>3. sub = Subscribed(subs[s][t], req, new)
      BY <1>4
    <3> HIDE DEF new
    <3> QED BY <3>1, <3>2, <3>3, SubscribedTyped DEF A, D, M
  <2>4. Agrees(s, t, p)
    BY <1>6, <1>10 DEF DeltaInv, ClientInv
  <2> HIDE DEF A, D, M, N, q
  <2>5. /\ NoneIn(q, M) => NoneIn(Tail(q), M) /\ req \notin M
        /\ LastIn(q, A, M) => LastIn(Tail(q), A, M) \/ (NoneIn(Tail(q), M) /\ req \in A)
        /\ LastIn(q, D, M) => LastIn(Tail(q), D, M) \/ (NoneIn(Tail(q), M) /\ req \in D)
    BY <2>1, TailLastIn
  <2>6. /\ NoneIn(Tail(q), M) => NoneIn(Tail(q), N)
        /\ LastIn(Tail(q), A, M) => LastIn(Tail(q), Adding(t, p, FALSE), N)
        /\ LastIn(Tail(q), D, M) => LastIn(Tail(q), D, N)
    BY <2>2 DEF NoneIn, LastIn
  <2>7. (t \notin known'[s]) = FALSE
    BY <1>8
  <2>8. \/ /\ p \in requested[s][t]
           /\ LastIn(q, A, M) \/ (NoneIn(q, M) /\ InSub(subs[s][t], p))
        \/ /\ p \notin requested[s][t]
           /\ LastIn(q, D, M) \/ (NoneIn(q, M) /\ ~InSub(subs[s][t], p))
    BY <2>4 DEF Agrees, A, D, M, q, new
  <2>9. \/ /\ p \in requested[s][t]
           /\ \/ LastIn(Tail(q), Adding(t, p, FALSE), N)
              \/ NoneIn(Tail(q), N) /\ InSub(sub, p)
        \/ /\ p \notin requested[s][t]
           /\ \/ LastIn(Tail(q), D, N)
              \/ NoneIn(Tail(q), N) /\ ~InSub(sub, p)
    BY <2>3, <2>5, <2>6, <2>8
  <2> QED BY <1>5, <1>8, <2>1, <2>7, <2>9 DEF Agrees, D, N
<1>11. ASSUME NEW r \in Streams PROVE ClientInv(r)'
  <2>1. CASE r = s
    <3> SUFFICES ASSUME up[s] PROVE ClientInv(s)'
      BY <1>5, <2>1 DEF ClientInv
    <3>1. ASSUME NEW u \in Types \ {t}
          PROVE  /\ AskedInv(s, u)' /\ OnlyFirstEmpty(s, u)'
                 /\ \A p \in Patterns \cup {Star} : Agrees(s, u, p)'
      <4>1. /\ AskedInv(s, u) /\ OnlyFirstEmpty(s, u)
            /\ \A p \in Patterns \cup {Star} : Agrees(s, u, p)
        BY DEF DeltaInv, ClientInv
      <4>2. /\ Head(inbound[s]).type # u
            /\ u \in known'[s] <=> u \in known[s]
            /\ subs'[s][u] = subs[s][u]
        BY <1>8, <1>2, <1>3
      <4> QED BY <1>1, <1>5, <4>1, <4>2, OtherTypes
    <3> QED BY <1>5, <1>9, <1>10, <3>1 DEF DeltaInv, ClientInv
  <2>2. CASE r # s
    <3>1. inbound'[r] = inbound[r]
      BY <1>1, <1>5, <2>2, TakeSplit
    <3> QED BY <1>5, <1>8, <2>2, <3>1, SameClient DEF DeltaInv, ClientInv
  <2> QED BY <2>1, <2>2
<1>12. ASSUME NEW r \in Streams PROVE TaskInv(r)' /\ UnusedInv(r)' /\ DownInv(r)'
  <2>1. r # s => inbound'[r] = inbound[r]
    BY <1>1, <1>5, TakeSplit
  <2>2. todo'[s] = {t} /\ (r # s => todo'[r] = todo[r])
    BY <1>1, <1>5 DEF DeltaTypeOK, StreamTypeOK
  <2> QED BY <1>5, <1>8, <2>1, <2>2 DEF DeltaInv, TaskInv, UnusedInv, DownInv
<1> QED BY <1>1, <1>11, <1>12 DEF DeltaInv

\* A step of a task that reads no request and does not end.
LEMMA PushDelta ==
    ASSUME NEW B, DeltaInv(B), NEW s \in Streams, UNCHANGED envoyVars,
           WatchChanged(s) \/ \E t \in Types : SendNothing(s, t) \/ SendDelta(s, t)
    PROVE  DeltaInv(B)'
<1>1. DeltaTypeOK(B)'
  BY WatchTyped, SendNothingTyped, SendDeltaTyped DEF DeltaInv
<1>2. /\ UNCHANGED <<up, inbound, known, subs, asked, requested, wants>>
      /\ pc[s] \notin {"unused", "closed"} /\ pc'[s] \notin {"unused", "closed"}
      /\ \A r \in Streams \ {s} : pc'[r] = pc[r] /\ todo'[r] = todo[r]
  BY DEF WatchChanged, SendNothing, SendDelta, Visit, watchVars, wireVars, envoyVars,
         DeltaInv, DeltaTypeOK, StreamTypeOK
<1>3. todo'[s] \subseteq known[s]
  <2>1. todo \in [Streams -> SUBSET Types] /\ todo[s] \subseteq known[s]
    BY DEF DeltaInv, DeltaTypeOK, StreamTypeOK, TaskInv
  <2>2. CASE WatchChanged(s)
    BY <2>1, <2>2 DEF WatchChanged, Visit
  <2>3. ASSUME NEW t \in Types, SendNothing(s, t) \/ SendDelta(s, t)
        PROVE  todo'[s] \subseteq known[s]
    <3>1. todo' = [todo EXCEPT ![s] = todo[s] \ {t}]
      BY <2>3 DEF SendNothing, SendDelta, Visit
    <3> QED BY <2>1, <3>1
  <2> QED BY <2>2, <2>3
<1>4. \A r \in Streams : \A i \in 1 .. Len(outbound'[r]) : outbound'[r][i].type \in known[r]
  <2>1. CASE UNCHANGED outbound
    BY <2>1 DEF DeltaInv, TaskInv
  <2>2. ASSUME NEW t \in Types, SendDelta(s, t)
        PROVE  \A r \in Streams : \A i \in 1 .. Len(outbound'[r]) :
                  outbound'[r][i].type \in known[r]
    <3>1. PICK resp \in Responses(B) :
             resp.type = t /\ outbound' = [outbound EXCEPT ![s] = Append(outbound[s], resp)]
      BY <2>2, SendDeltaTyped DEF DeltaInv
    <3>2. outbound \in [Streams -> Seq(Responses(B))]
      BY DEF DeltaInv, DeltaTypeOK, StreamTypeOK
    <3>3. t \in known[s]
      BY <2>2 DEF SendDelta, DeltaInv, TaskInv
    <3>4. \A i \in 1 .. Len(Append(outbound[s], resp)) :
             \/ i \in 1 .. Len(outbound[s]) /\ Append(outbound[s], resp)[i] = outbound[s][i]
             \/ Append(outbound[s], resp)[i] = resp
      BY <3>2, AppendFacts
    <3> QED BY <3>1, <3>2, <3>3, <3>4 DEF DeltaInv, TaskInv
  <2> QED BY <2>1, <2>2 DEF WatchChanged, SendNothing, wireVars
<1>5. ASSUME NEW r \in Streams PROVE ClientInv(r)'
  <2>1. up[r] => pc'[r] \notin {"unused", "closed"}
    BY <1>2 DEF DeltaInv, ClientInv
  <2> QED BY <1>2, <2>1, SameClient DEF DeltaInv
<1>6. ASSUME NEW r \in Streams PROVE TaskInv(r)' /\ UnusedInv(r)' /\ DownInv(r)'
  BY <1>2, <1>3, <1>4 DEF DeltaInv, TaskInv, UnusedInv, DownInv
<1> QED BY <1>1, <1>5, <1>6 DEF DeltaInv

\* Streams that are not up close.
LEMMA CloseDelta ==
    ASSUME NEW B, DeltaInv(B), NEW S \in SUBSET Streams, CloseAll(S),
           DeltaTypeOK(B)',
           \A r \in S : ~up'[r],
           \A r \in Streams : up'[r] => up[r],
           \A r \in Streams : ~up'[r] =>
              asked'[r] = {} /\ requested'[r] = [t \in Types |-> {}],
           \A r \in Streams : up'[r] => asked'[r] = asked[r] /\ requested'[r] = requested[r],
           wants' = wants
    PROVE  DeltaInv(B)'
<1>1. ASSUME NEW r \in Streams PROVE ClientInv(r)'
  <2> SUFFICES ASSUME up'[r] PROVE ClientInv(r)'
    BY DEF ClientInv
  <2>1. /\ r \notin S /\ up[r]
        /\ pc'[r] = pc[r] /\ inbound'[r] = inbound[r]
        /\ known'[r] = known[r] /\ subs'[r] = subs[r]
    BY DEF CloseAll
  <2>2. ClientInv(r)
    BY DEF DeltaInv
  <2>3. pc'[r] \notin {"unused", "closed"}
    BY <2>1, <2>2 DEF ClientInv
  <2>4. up'[r] = up[r]
    BY <2>1 DEF DeltaInv, DeltaTypeOK, StreamTypeOK
  <2> QED BY <2>1, <2>2, <2>3, <2>4, SameClient
<1>2. ASSUME NEW r \in Streams PROVE TaskInv(r)' /\ UnusedInv(r)' /\ DownInv(r)'
  <2>1. CASE r \in S
    <3>1. pc'[r] = "closed" /\ todo'[r] = {} /\ outbound'[r] = <<>>
      BY <2>1 DEF CloseAll
    <3>2. TaskInv(r)' /\ UnusedInv(r)'
      BY <3>1, EmptyFacts DEF TaskInv, UnusedInv
    <3>3. DownInv(r)'
      BY DEF DownInv
    <3> QED BY <3>2, <3>3
  <2>2. CASE r \notin S
    <3>1. /\ pc'[r] = pc[r] /\ todo'[r] = todo[r] /\ inbound'[r] = inbound[r]
          /\ outbound'[r] = outbound[r] /\ known'[r] = known[r] /\ subs'[r] = subs[r]
      BY <2>2 DEF CloseAll
    <3> QED BY <3>1 DEF DeltaInv, TaskInv, UnusedInv, DownInv
  <2> QED BY <2>1, <2>2
<1> QED BY <1>1, <1>2 DEF DeltaInv

LEMMA TaskDelta ==
    ASSUME NEW B, DeltaInv(B), NEW s \in Streams, Task(s), UNCHANGED envoyVars
    PROVE  DeltaInv(B)'
<1>1. ASSUME Close(s), ~up[s] PROVE DeltaInv(B)'
  <2>1. /\ CloseAll({s}) /\ {s} \in SUBSET Streams
        /\ UNCHANGED <<advertised, changes, up, asked, requested, wants>>
    BY <1>1 DEF Close, watchVars, envoyVars
  <2>2. DeltaTypeOK(B)'
    <3>1. EnvoyTypeOK(B)'
      BY DEF DeltaInv, DeltaTypeOK, EnvoyTypeOK, envoyVars
    <3>2. advertised' \in Holding(B) /\ changes' \in Nat /\ up' \in [Streams -> BOOLEAN]
      BY <2>1 DEF DeltaInv, DeltaTypeOK, StreamTypeOK
    <3> QED BY <2>1, <3>1, <3>2, CloseAllTyped DEF DeltaInv
  <2>3. \A r \in Streams : ~up[r] => asked[r] = {} /\ requested[r] = [t \in Types |-> {}]
    BY DEF DeltaInv, DownInv
  <2> QED BY <1>1, <2>1, <2>2, <2>3, CloseDelta
<1> QED BY <1>1, NackDelta, RequestDelta, PushDelta DEF Task, Send, SendFails, StreamEnds

-----------------------------------------------------------------------------
(* The client. *)

LEMMA ConnectDelta ==
    ASSUME NEW B, DeltaInv(B), NEW s \in Streams, Connect(s)
    PROVE  DeltaInv(B)'
<1>1. /\ UNCHANGED <<advertised, changes, inbound, outbound, held, todo, known, subs, sent>>
      /\ UNCHANGED envoyVars
      /\ pc[s] = "unused"
      /\ pc' = [pc EXCEPT ![s] = "select"]
      /\ up' = [up EXCEPT ![s] = TRUE]
      /\ seen' = [seen EXCEPT ![s] = changes]
      /\ \A r \in Streams : Owner[r] = Owner[s] => ~up[r]
  BY DEF Connect, Connected, Open, watchVars
<1>2. /\ pc'[s] = "select" /\ up'[s]
      /\ \A r \in Streams \ {s} : pc'[r] = pc[r] /\ up'[r] = up[r]
      /\ ~up[s]
  BY <1>1 DEF DeltaInv, DeltaTypeOK, StreamTypeOK
<1>3. DeltaTypeOK(B)'
  BY <1>1 DEF DeltaInv, DeltaTypeOK, StreamTypeOK, EnvoyTypeOK, envoyVars
<1>4. UNCHANGED <<asked, requested, wants>>
  BY <1>1 DEF envoyVars
<1>5. ClientInv(s)'
  <2>1. /\ known[s] = {} /\ inbound[s] = <<>> /\ asked[s] = {}
        /\ \A t \in Types : subs[s][t] = NoSub /\ requested[s][t] = {}
    BY <1>1, <1>2 DEF DeltaInv, UnusedInv, DownInv
  <2>2. \A t \in Types : AskedInv(s, t)' /\ OnlyFirstEmpty(s, t)'
    BY <1>1, <1>4, <2>1, EmptyFacts DEF AskedInv, OnlyFirstEmpty
  <2>3. \A t \in Types, p \in Patterns \cup {Star} : Agrees(s, t, p)'
    <3> SUFFICES ASSUME NEW t \in Types, NEW p \in Patterns \cup {Star}
                 PROVE  Agrees(s, t, p)'
      OBVIOUS
    <3>1. \A M : NoneIn(inbound'[s], M)
      BY <1>1, <2>1, EmptyFacts DEF NoneIn
    <3>2. ~InSub(subs'[s][t], p) /\ p \notin requested'[s][t]
      BY <1>1, <1>4, <2>1 DEF InSub, NoSub
    <3> QED BY <3>1, <3>2 DEF Agrees
  <2> QED BY <1>1, <1>2, <2>2, <2>3 DEF ClientInv
<1>6. ASSUME NEW r \in Streams \ {s} PROVE ClientInv(r)'
  <2> SUFFICES ASSUME up[r] PROVE ClientInv(r)'
    BY <1>2 DEF ClientInv
  <2>1. \A t \in Types : AskedInv(r, t)' /\ OnlyFirstEmpty(r, t)'
    BY <1>1, <1>4 DEF DeltaInv, ClientInv, AskedInv, OnlyFirstEmpty
  <2>2. \A t \in Types, p \in Patterns \cup {Star} : Agrees(r, t, p)'
    BY <1>1, <1>4 DEF DeltaInv, ClientInv, Agrees
  <2>3. Owner[r] # Owner[s]
    BY <1>1
  <2>4. \A x \in Streams : up'[x] /\ Owner[x] = Owner[r] => x = r
    BY <1>2, <2>3 DEF DeltaInv, ClientInv
  <2>5. pc'[r] \notin {"unused", "closed"}
    BY <1>2 DEF DeltaInv, ClientInv
  <2> QED BY <2>1, <2>2, <2>4, <2>5 DEF ClientInv
<1>7. ASSUME NEW r \in Streams PROVE TaskInv(r)' /\ UnusedInv(r)' /\ DownInv(r)'
  BY <1>1, <1>2, <1>4 DEF DeltaInv, TaskInv, UnusedInv, DownInv
<1> QED BY <1>3, <1>5, <1>6, <1>7 DEF DeltaInv

LEMMA DisconnectDelta ==
    ASSUME NEW B, DeltaInv(B), NEW s \in Streams, Disconnect(s)
    PROVE  DeltaInv(B)'
<1>1. /\ UNCHANGED <<advertised, changes, inbound, outbound>>
      /\ UNCHANGED <<pc, held, todo, seen, known, subs, sent, wants, has, drops>>
      /\ up' = [up EXCEPT ![s] = FALSE]
      /\ ForgetAll({s})
  BY DEF Disconnect, Cut, ForgetAll, watchVars, taskVars
<1>2. /\ asked'[s] = {} /\ requested'[s] = [t \in Types |-> {}] /\ ~up'[s]
      /\ \A r \in Streams \ {s} :
            asked'[r] = asked[r] /\ requested'[r] = requested[r] /\ up'[r] = up[r]
  BY <1>1 DEF ForgetAll, DeltaInv, DeltaTypeOK, StreamTypeOK
<1>3. DeltaTypeOK(B)'
  <2>1. StreamTypeOK(B)'
    BY <1>1 DEF DeltaInv, DeltaTypeOK, StreamTypeOK
  <2>2. EnvoyTypeOK(B)'
    BY <1>1 DEF DeltaInv, DeltaTypeOK, EnvoyTypeOK, ForgetAll
  <2> QED BY <1>1, <2>1, <2>2 DEF DeltaInv, DeltaTypeOK
<1>4. ASSUME NEW r \in Streams PROVE ClientInv(r)'
  <2>1. CASE r = s
    BY <1>2, <2>1 DEF ClientInv
  <2>2. CASE r # s
    <3>1. \A x \in Streams : up'[x] => up[x]
      BY <1>2
    <3>2. up[r] => pc'[r] \notin {"unused", "closed"}
      BY <1>1 DEF DeltaInv, ClientInv
    <3> QED BY <1>1, <1>2, <2>2, <3>1, <3>2, SameClient DEF DeltaInv
  <2> QED BY <2>1, <2>2
<1>5. ASSUME NEW r \in Streams PROVE TaskInv(r)' /\ UnusedInv(r)' /\ DownInv(r)'
  BY <1>1, <1>2 DEF DeltaInv, TaskInv, UnusedInv, DownInv
<1> QED BY <1>3, <1>4, <1>5 DEF DeltaInv

LEMMA InterestDelta ==
    ASSUME NEW B, DeltaInv(B), NEW e \in Envoys, NEW t \in Types, TakeInterest(e, t)
    PROVE  DeltaInv(B)'
<1>1. /\ UNCHANGED <<advertised, changes, up, inbound, outbound>>
      /\ UNCHANGED <<pc, held, todo, seen, known, subs, sent>>
      /\ UNCHANGED <<requested, asked, has, drops>>
      /\ wants' = [wants EXCEPT ![e][t] = @ \cup Due(e, t)]
  BY DEF TakeInterest, streamVars, watchVars, wireVars, taskVars
<1>2. Due(e, t) \subseteq Patterns \cup {Star}
  BY EnvoyAssumption DEF Due
<1>3. /\ wants \in [Envoys -> [Types -> SUBSET (Patterns \cup {Star})]]
      /\ wants' \in [Envoys -> [Types -> SUBSET (Patterns \cup {Star})]]
      /\ \A f \in Envoys, u \in Types : wants[f][u] \subseteq wants'[f][u]
  BY <1>1, <1>2 DEF DeltaInv, DeltaTypeOK, EnvoyTypeOK
<1>4. DeltaTypeOK(B)'
  BY <1>1, <1>3 DEF DeltaInv, DeltaTypeOK, StreamTypeOK, EnvoyTypeOK
<1>5. ASSUME NEW r \in Streams PROVE ClientInv(r)'
  <2>1. Owner[r] \in Envoys
    BY EnvoyAssumption
  <2>2. up[r] => pc'[r] \notin {"unused", "closed"}
    BY <1>1 DEF DeltaInv, ClientInv
  <2> QED BY <1>1, <1>3, <2>1, <2>2, SameClient DEF DeltaInv
<1>6. ASSUME NEW r \in Streams PROVE TaskInv(r)' /\ UnusedInv(r)' /\ DownInv(r)'
  BY <1>1 DEF DeltaInv, TaskInv, UnusedInv, DownInv
<1> QED BY <1>4, <1>5, <1>6 DEF DeltaInv

\* A request the client sends, and the requests before it.
LEMMA RequestSent ==
    ASSUME NEW B, DeltaTypeOK(B), NEW s \in Streams, NEW req \in Requests,
           inbound' = [inbound EXCEPT ![s] = Append(inbound[s], req)]
    PROVE  /\ inbound[s] \in Seq(Requests)
           /\ inbound'[s] = Append(inbound[s], req)
           /\ inbound' \in [Streams -> Seq(Requests)]
           /\ \A r \in Streams \ {s} : inbound'[r] = inbound[r]
           /\ Len(inbound[s]) \in Nat /\ Len(inbound'[s]) = Len(inbound[s]) + 1
           /\ inbound'[s][Len(inbound[s]) + 1] = req
           /\ \A i \in 1 .. Len(inbound[s]) : inbound'[s][i] = inbound[s][i]
<1>1. inbound \in [Streams -> Seq(Requests)]
  BY DEF DeltaTypeOK, StreamTypeOK
<1>2. inbound[s] \in Seq(Requests)
  BY <1>1
<1>3. inbound'[s] = Append(inbound[s], req) /\ \A r \in Streams \ {s} : inbound'[r] = inbound[r]
  BY <1>1
<1>4. /\ Len(inbound[s]) \in Nat /\ Len(Append(inbound[s], req)) = Len(inbound[s]) + 1
      /\ Append(inbound[s], req) \in Seq(Requests)
      /\ Append(inbound[s], req)[Len(inbound[s]) + 1] = req
      /\ \A i \in 1 .. Len(inbound[s]) : Append(inbound[s], req)[i] = inbound[s][i]
  BY <1>2, AppendFacts
<1> QED BY <1>1, <1>2, <1>3, <1>4

\* It says of a pattern what the client has on record from then on, or nothing.
LEMMA SentAgrees ==
    ASSUME NEW s \in Streams, NEW req \in Requests, inbound[s] \in Seq(Requests),
           inbound'[s] = Append(inbound[s], req),
           known'[s] = known[s], subs'[s] = subs[s],
           NEW t \in Types, NEW p \in Patterns \cup {Star}, Agrees(s, t, p),
           \/ /\ req \notin Mentioning(t, p, t \notin known[s])
              /\ p \in requested'[s][t] <=> p \in requested[s][t]
           \/ req \in Adding(t, p, t \notin known[s]) /\ p \in requested'[s][t]
           \/ req \in Dropping(t, p) /\ p \notin requested'[s][t]
    PROVE  Agrees(s, t, p)'
<1> DEFINE A == Adding(t, p, t \notin known[s])
           D == Dropping(t, p)
           M == Mentioning(t, p, t \notin known[s])
           q == inbound[s]
<1>1. /\ Adding(t, p, t \notin known'[s]) = A
      /\ Mentioning(t, p, t \notin known'[s]) = M
  OBVIOUS
<1> HIDE DEF A, D, M, q
<1>2. q \in Seq(Requests) /\ inbound'[s] = Append(q, req)
  BY DEF q
<1>3. /\ req \in A => LastIn(Append(q, req), A, M)
      /\ req \in D => LastIn(Append(q, req), D, M)
      /\ req \notin M /\ LastIn(q, A, M) => LastIn(Append(q, req), A, M)
      /\ req \notin M /\ LastIn(q, D, M) => LastIn(Append(q, req), D, M)
      /\ req \notin M /\ NoneIn(q, M) => NoneIn(Append(q, req), M)
  BY <1>2, AppendLastIn
<1> QED BY <1>1, <1>2, <1>3 DEF Agrees, A, D, M, q

\* An empty request for a type that the server does not know is the first.
LEMMA SentFirst ==
    ASSUME NEW B, DeltaTypeOK(B), NEW s \in Streams, NEW req \in Requests,
           inbound' = [inbound EXCEPT ![s] = Append(inbound[s], req)],
           known'[s] = known[s], NEW t \in Types, OnlyFirstEmpty(s, t),
           req.type = t => \/ t \in known[s]
                           \/ /\ ~req.error
                              /\ Empty(req) => \A i \in 1 .. Len(inbound[s]) :
                                                  inbound[s][i].type # t
    PROVE  OnlyFirstEmpty(s, t)'
<1> SUFFICES ASSUME t \notin known[s], NEW i \in 1 .. Len(inbound'[s]),
                    inbound'[s][i].type = t
             PROVE  /\ ~inbound'[s][i].error
                    /\ Empty(inbound'[s][i]) => \A j \in 1 .. Len(inbound'[s]) :
                          j < i => inbound'[s][j].type # t
  BY DEF OnlyFirstEmpty
<1>1. CASE i \in 1 .. Len(inbound[s])
  <2>1. /\ inbound'[s][i] = inbound[s][i]
        /\ \A j \in 1 .. Len(inbound'[s]) : j < i =>
              j \in 1 .. Len(inbound[s]) /\ inbound'[s][j] = inbound[s][j]
    BY <1>1, RequestSent
  <2> QED BY <1>1, <2>1 DEF OnlyFirstEmpty
<1>2. CASE i = Len(inbound[s]) + 1
  <2>1. /\ inbound'[s][i] = req
        /\ \A j \in 1 .. Len(inbound'[s]) : j < i =>
              j \in 1 .. Len(inbound[s]) /\ inbound'[s][j] = inbound[s][j]
    BY <1>2, RequestSent
  <2> QED BY <2>1
<1> QED BY <1>1, <1>2, RequestSent

\* What is left to show of a step that sends a request.
LEMMA SendingDelta ==
    ASSUME NEW B, DeltaInv(B), DeltaTypeOK(B)', NEW s \in Streams, NEW req \in Requests,
           inbound' = [inbound EXCEPT ![s] = Append(inbound[s], req)],
           UNCHANGED <<up, pc, todo, known, subs>>, up[s],
           \A r \in Streams \ {s} : asked'[r] = asked[r] /\ requested'[r] = requested[r],
           \A r \in Streams \ {s} : up[r] => wants'[Owner[r]] = wants[Owner[r]],
           \A r \in Streams : \A i \in 1 .. Len(outbound'[r]) :
              outbound'[r][i].type \in known[r],
           \A t \in Types : AskedInv(s, t)' /\ OnlyFirstEmpty(s, t)',
           \A t \in Types, p \in Patterns \cup {Star} : Agrees(s, t, p)'
    PROVE  DeltaInv(B)'
<1>1. DeltaTypeOK(B)
  BY DEF DeltaInv
<1>2. \A r \in Streams \ {s} : inbound'[r] = inbound[r]
  BY <1>1, RequestSent
<1>3. ASSUME NEW r \in Streams PROVE ClientInv(r)'
  <2>1. CASE r = s
    BY <2>1 DEF DeltaInv, ClientInv
  <2>2. CASE r # s
    <3>1. CASE up[r]
      <4>1. \A t \in Types : wants[Owner[r]][t] \subseteq wants'[Owner[r]][t]
        BY <2>2, <3>1
      <4>2. pc'[r] \notin {"unused", "closed"}
        BY <3>1 DEF DeltaInv, ClientInv
      <4> QED BY <1>2, <2>2, <4>1, <4>2, SameClient DEF DeltaInv
    <3>2. CASE ~up[r]
      BY <3>2 DEF ClientInv
    <3> QED BY <3>1, <3>2
  <2> QED BY <2>1, <2>2
<1>4. ASSUME NEW r \in Streams PROVE TaskInv(r)' /\ UnusedInv(r)' /\ DownInv(r)'
  <2>1. pc[r] = "unused" => r # s
    BY DEF DeltaInv, ClientInv
  <2>2. TaskInv(r)' /\ UnusedInv(r)'
    BY <1>2, <2>1 DEF DeltaInv, TaskInv, UnusedInv
  <2>3. DownInv(r)'
    BY DEF DeltaInv, DownInv
  <2> QED BY <2>2, <2>3
<1> QED BY <1>3, <1>4 DEF DeltaInv

\* A request names what is wanted and not asked for, so that it says nothing of
\* the rest; the first one of a type is a wildcard if it names nothing.
LEMMA SubscribeDelta ==
    ASSUME NEW B, DeltaInv(B), NEW s \in Streams, NEW t \in Types, Subscribe(s, t)
    PROVE  DeltaInv(B)'
<1>1. PICK e \in Envoys : e = Owner[s]
  BY EnvoyAssumption
<1>2. PICK new : new = wants[e][t] \ requested[s][t]
  OBVIOUS
<1>3. PICK names : names = IF t \notin asked[s] /\ new = {Star} THEN {} ELSE new
  OBVIOUS
<1>4. PICK req :
         req = Subscription(t, IF t \notin asked[s] THEN VersionsOf(has[e][t])
                               ELSE NothingInitial, names)
  OBVIOUS
<1>5. /\ up[s] /\ new # {}
      /\ requested' = [requested EXCEPT ![s][t] = wants[e][t]]
      /\ asked' = [asked EXCEPT ![s] = @ \cup {t}]
      /\ inbound' = [inbound EXCEPT ![s] = Append(inbound[s], req)]
      /\ UNCHANGED <<advertised, changes, up, outbound>>
      /\ UNCHANGED <<pc, held, todo, seen, known, subs, sent>>
      /\ UNCHANGED <<wants, has, drops>>
  BY <1>1, <1>2, <1>3, <1>4 DEF Subscribe, watchVars, taskVars
<1>6. /\ DeltaTypeOK(B) /\ StreamTypeOK(B) /\ EnvoyTypeOK(B)
      /\ ClientInv(s)
  BY DEF DeltaInv, DeltaTypeOK
<1>7. /\ new \subseteq Patterns \cup {Star} /\ names \subseteq Patterns \cup {Star}
      /\ wants[e][t] \subseteq Patterns \cup {Star}
  BY <1>2, <1>3, <1>6 DEF EnvoyTypeOK
<1>8. req \in Requests
  <2>1. VersionsOf(has[e][t]) \in [Names -> Nat]
    BY <1>6 DEF EnvoyTypeOK, Holding, Entries, VersionsOf
  <2> QED BY <1>4, <1>7, <2>1, RequestsTyped
<1>9. /\ req.type = t /\ ~req.error
      /\ req.subscribe = names /\ req.unsubscribe = {}
  BY <1>4 DEF Subscription
<1>10. /\ requested'[s][t] = wants[e][t] /\ asked'[s] = asked[s] \cup {t}
       /\ \A u \in Types \ {t} : requested'[s][u] = requested[s][u]
       /\ \A r \in Streams \ {s} : asked'[r] = asked[r] /\ requested'[r] = requested[r]
  BY <1>5, <1>6 DEF EnvoyTypeOK
<1>11. DeltaTypeOK(B)'
  <2>1. inbound' \in [Streams -> Seq(Requests)]
    BY <1>5, <1>6, <1>8, RequestSent
  <2>2. StreamTypeOK(B)'
    BY <1>5, <1>6, <2>1 DEF StreamTypeOK
  <2>3. EnvoyTypeOK(B)'
    BY <1>5, <1>6, <1>7 DEF EnvoyTypeOK
  <2> QED BY <1>5, <1>6, <2>2, <2>3 DEF DeltaTypeOK
<1>12. ASSUME NEW u \in Types PROVE AskedInv(s, u)' /\ OnlyFirstEmpty(s, u)'
  <2>1. AskedInv(s, u) /\ OnlyFirstEmpty(s, u)
    BY <1>5, <1>6 DEF ClientInv
  <2>2. AskedInv(s, u)'
    <3>1. CASE u = t
      BY <1>1, <1>5, <1>10, <2>1, <3>1 DEF AskedInv
    <3>2. CASE u # t
      <4>1. u \notin asked[s] => \A i \in 1 .. Len(inbound'[s]) : inbound'[s][i].type # u
        <5>1. \A i \in 1 .. Len(inbound'[s]) :
                 \/ i \in 1 .. Len(inbound[s]) /\ inbound'[s][i] = inbound[s][i]
                 \/ inbound'[s][i] = req
          BY <1>5, <1>6, <1>8, RequestSent
        <5> QED BY <1>9, <2>1, <3>2, <5>1 DEF AskedInv
      <4> QED BY <1>5, <1>10, <2>1, <3>2, <4>1 DEF AskedInv
    <3> QED BY <3>1, <3>2
  <2>3. OnlyFirstEmpty(s, u)'
    <3>1. Empty(req) /\ u = t => \A i \in 1 .. Len(inbound[s]) : inbound[s][i].type # u
      BY <1>3, <1>5, <1>9, <2>1 DEF Empty, AskedInv
    <3> QED BY <1>5, <1>6, <1>8, <1>9, <2>1, <3>1, SentFirst
  <2> QED BY <2>2, <2>3
<1>13. ASSUME NEW u \in Types, NEW p \in Patterns \cup {Star} PROVE Agrees(s, u, p)'
  <2>1. Agrees(s, u, p) /\ AskedInv(s, t)
    BY <1>5, <1>6 DEF ClientInv
  <2>2. \/ /\ req \notin Mentioning(u, p, u \notin known[s])
           /\ p \in requested'[s][u] <=> p \in requested[s][u]
        \/ req \in Adding(u, p, u \notin known[s]) /\ p \in requested'[s][u]
        \/ req \in Dropping(u, p) /\ p \notin requested'[s][u]
    <3>1. CASE u # t
      BY <1>9, <1>10, <3>1 DEF Mentioning, Adding, Dropping
    <3>2. CASE u = t /\ p \in new
      <4>1. p \in requested'[s][u]
        BY <1>2, <1>10, <3>2
      <4>2. p \in names \/ (p = Star /\ names = {} /\ t \notin known[s])
        BY <1>3, <2>1, <3>2 DEF AskedInv
      <4> QED BY <1>8, <1>9, <3>2, <4>1, <4>2 DEF Adding, Empty
    <3>3. CASE u = t /\ p \notin new
      <4>1. p \in requested'[s][u] <=> p \in requested[s][u]
        BY <1>1, <1>2, <1>10, <2>1, <3>3 DEF AskedInv
      <4>2. req \notin Mentioning(u, p, u \notin known[s])
        BY <1>3, <1>5, <1>9, <3>3 DEF Mentioning, Adding, Dropping, Empty
      <4> QED BY <4>1, <4>2
    <3> QED BY <3>1, <3>2, <3>3
  <2>3. inbound[s] \in Seq(Requests) /\ inbound'[s] = Append(inbound[s], req)
    BY <1>5, <1>6, <1>8, RequestSent
  <2> QED BY <1>5, <1>8, <2>1, <2>2, <2>3, SentAgrees
<1>14. \A r \in Streams : \A i \in 1 .. Len(outbound'[r]) : outbound'[r][i].type \in known[r]
  BY <1>5 DEF DeltaInv, TaskInv
<1> QED BY <1>5, <1>8, <1>10, <1>11, <1>12, <1>13, <1>14, SendingDelta

LEMMA UnsubscribeDelta ==
    ASSUME NEW B, DeltaInv(B), NEW s \in Streams, NEW t \in Types,
           NEW p \in Patterns \cup {Star}, Unsubscribe(s, t, p)
    PROVE  DeltaInv(B)'
<1>1. PICK e \in Envoys : e = Owner[s]
  BY EnvoyAssumption
<1>2. PICK req : req = Unsubscription(t, {p})
  OBVIOUS
<1>3. PICK held2 : held2 = [n \in Names |->
         IF n \in Meant(wants[e][t] \ {p}) THEN has[e][t][n] ELSE Absent]
  OBVIOUS
<1>4. /\ DeltaTypeOK(B) /\ StreamTypeOK(B) /\ EnvoyTypeOK(B)
      /\ ClientInv(s)
  BY DEF DeltaInv, DeltaTypeOK
<1>5. /\ up[s] /\ p \in requested[s][t]
      /\ drops' = drops + 1
      /\ wants' = [wants EXCEPT ![e][t] = @ \ {p}]
      /\ requested' = [requested EXCEPT ![s][t] = @ \ {p}]
      /\ has' = [has EXCEPT ![e][t] = held2]
      /\ inbound' = [inbound EXCEPT ![s] = Append(inbound[s], req)]
      /\ UNCHANGED <<advertised, changes, up, outbound>>
      /\ UNCHANGED <<pc, held, todo, seen, known, subs, sent, asked>>
  BY <1>1, <1>2, <1>3, <1>4 DEF Unsubscribe, watchVars, taskVars, EnvoyTypeOK
<1>6. req \in Requests
  BY <1>2, RequestsTyped
<1>7. /\ req.type = t /\ ~req.error
      /\ req.subscribe = {} /\ req.unsubscribe = {p}
  BY <1>2 DEF Unsubscription
<1>8. /\ requested'[s][t] = requested[s][t] \ {p} /\ wants'[e][t] = wants[e][t] \ {p}
      /\ \A u \in Types \ {t} : /\ requested'[s][u] = requested[s][u]
                                /\ wants'[e][u] = wants[e][u]
      /\ \A r \in Streams \ {s} : requested'[r] = requested[r]
      /\ \A f \in Envoys \ {e} : wants'[f] = wants[f]
  BY <1>4, <1>5 DEF EnvoyTypeOK
<1>9. DeltaTypeOK(B)'
  <2>1. inbound' \in [Streams -> Seq(Requests)]
    BY <1>4, <1>5, <1>6, RequestSent
  <2>2. StreamTypeOK(B)'
    BY <1>4, <1>5, <2>1 DEF StreamTypeOK
  <2>3. held2 \in [Names -> Entries(B) \cup {Absent}]
    BY <1>3, <1>4 DEF EnvoyTypeOK, Holding
  <2>4. has' \in [Envoys -> Holding(B)]
    BY <1>4, <1>5, <2>3 DEF EnvoyTypeOK, Holding
  <2>5. EnvoyTypeOK(B)'
    BY <1>4, <1>5, <2>4 DEF EnvoyTypeOK
  <2> QED BY <1>4, <1>5, <2>2, <2>5 DEF DeltaTypeOK
<1>10. ASSUME NEW u \in Types PROVE AskedInv(s, u)' /\ OnlyFirstEmpty(s, u)'
  <2>1. AskedInv(s, u) /\ OnlyFirstEmpty(s, u)
    BY <1>4, <1>5 DEF ClientInv
  <2>2. u = t => t \in asked[s]
    BY <1>5, <2>1 DEF AskedInv
  <2>3. AskedInv(s, u)'
    <3>1. u \notin asked[s] => \A i \in 1 .. Len(inbound'[s]) : inbound'[s][i].type # u
      <4>1. \A i \in 1 .. Len(inbound'[s]) :
               \/ i \in 1 .. Len(inbound[s]) /\ inbound'[s][i] = inbound[s][i]
               \/ inbound'[s][i] = req
        BY <1>4, <1>5, <1>6, RequestSent
      <4> QED BY <1>7, <2>1, <2>2, <4>1 DEF AskedInv
    <3>2. /\ u \notin asked[s] => requested'[s][u] = {}
          /\ requested'[s][u] \subseteq wants'[e][u]
      <4>1. requested[s][u] \subseteq wants[e][u] /\ (u \notin asked[s] => requested[s][u] = {})
        BY <1>1, <2>1 DEF AskedInv
      <4>2. CASE u = t
        BY <1>8, <2>2, <4>1, <4>2
      <4>3. CASE u # t
        BY <1>8, <4>1, <4>3
      <4> QED BY <4>2, <4>3
    <3> QED BY <1>1, <1>5, <2>1, <3>1, <3>2 DEF AskedInv
  <2>4. OnlyFirstEmpty(s, u)'
    <3>1. ~Empty(req)
      BY <1>7 DEF Empty
    <3> QED BY <1>4, <1>5, <1>6, <1>7, <2>1, <3>1, SentFirst
  <2> QED BY <2>3, <2>4
<1>11. ASSUME NEW u \in Types, NEW x \in Patterns \cup {Star} PROVE Agrees(s, u, x)'
  <2>1. Agrees(s, u, x)
    BY <1>4, <1>5 DEF ClientInv
  <2>2. \/ /\ req \notin Mentioning(u, x, u \notin known[s])
           /\ x \in requested'[s][u] <=> x \in requested[s][u]
        \/ req \in Dropping(u, x) /\ x \notin requested'[s][u]
    <3>1. CASE u = t /\ x = p
      BY <1>6, <1>7, <1>8, <3>1 DEF Dropping
    <3>2. CASE u # t
      BY <1>7, <1>8, <3>2 DEF Mentioning, Adding, Dropping
    <3>3. CASE u = t /\ x # p
      BY <1>7, <1>8, <3>3 DEF Mentioning, Adding, Dropping, Empty
    <3> QED BY <3>1, <3>2, <3>3
  <2>3. inbound[s] \in Seq(Requests) /\ inbound'[s] = Append(inbound[s], req)
    BY <1>4, <1>5, <1>6, RequestSent
  <2> QED BY <1>5, <1>6, <2>1, <2>2, <2>3, SentAgrees
<1>12. \A r \in Streams : \A i \in 1 .. Len(outbound'[r]) : outbound'[r][i].type \in known[r]
  BY <1>5 DEF DeltaInv, TaskInv
<1>13. \A r \in Streams \ {s} : up[r] => wants'[Owner[r]] = wants[Owner[r]]
  BY <1>1, <1>4, <1>5, <1>8, EnvoyAssumption DEF ClientInv
<1> QED BY <1>5, <1>6, <1>8, <1>9, <1>10, <1>11, <1>12, <1>13, SendingDelta

\* An ACK or a NACK names a type that the server knows, and no pattern.
LEMMA ReplyDelta ==
    ASSUME NEW B, DeltaInv(B), NEW s \in Streams, Accept(s) \/ Reject(s)
    PROVE  DeltaInv(B)'
<1>1. PICK e \in Envoys : e = Owner[s]
  BY EnvoyAssumption
<1>2. /\ DeltaTypeOK(B) /\ StreamTypeOK(B) /\ EnvoyTypeOK(B)
      /\ ClientInv(s)
  BY DEF DeltaInv, DeltaTypeOK
<1>3. outbound[s] \in Seq(Responses(B)) /\ outbound[s] # <<>>
  BY <1>2 DEF Accept, Reject, Reply, StreamTypeOK
<1>4. PICK resp \in Responses(B) : resp = Head(outbound[s])
  BY <1>3, TailFacts
<1>5. resp.type \in Types /\ resp.type \in known[s]
  BY <1>3, <1>4, TailFacts DEF Responses, DeltaInv, TaskInv
<1>6. PICK req \in {Ack(resp.type), Nack(resp.type)} : Reply(s, req)
  BY <1>4 DEF Accept, Reject
<1>7. /\ req \in Requests /\ req.type = resp.type
      /\ req.subscribe = {} /\ req.unsubscribe = {}
  BY <1>5, <1>6, RequestsTyped DEF Ack, Nack, Subscription
<1>8. /\ up[s]
      /\ outbound' = [outbound EXCEPT ![s] = Tail(outbound[s])]
      /\ inbound' = [inbound EXCEPT ![s] = Append(inbound[s], req)]
      /\ UNCHANGED <<advertised, changes, up>>
      /\ UNCHANGED <<pc, held, todo, seen, known, subs, sent>>
      /\ UNCHANGED <<wants, requested, asked, drops>>
  BY <1>6 DEF Reply, watchVars, taskVars
<1>9. /\ Tail(outbound[s]) \in Seq(Responses(B)) /\ Len(Tail(outbound[s])) <= ChanCap
      /\ \A i \in 1 .. Len(Tail(outbound[s])) :
            Tail(outbound[s])[i] = outbound[s][i + 1] /\ i + 1 \in 1 .. Len(outbound[s])
  <2>1. Len(outbound[s]) <= ChanCap
    BY <1>2 DEF StreamTypeOK
  <2>2. /\ Tail(outbound[s]) \in Seq(Responses(B))
        /\ Len(outbound[s]) \in Nat \ {0} /\ Len(Tail(outbound[s])) = Len(outbound[s]) - 1
        /\ \A i \in 1 .. Len(Tail(outbound[s])) :
              Tail(outbound[s])[i] = outbound[s][i + 1] /\ i + 1 \in 2 .. Len(outbound[s])
    BY <1>3, TailFacts
  <2> QED BY <2>1, <2>2, ChannelAssumption
<1>10. has' \in [Envoys -> Holding(B)]
  <2>1. CASE Reject(s)
    BY <1>2, <2>1 DEF Reject, EnvoyTypeOK
  <2>2. CASE Accept(s)
    <3>1. PICK now : now = [n \in Names |->
             IF n \in resp.removed THEN Absent
             ELSE IF resp.resources[n] = Absent THEN has[e][resp.type][n]
             ELSE IF n \in Meant(wants[e][resp.type]) THEN resp.resources[n] ELSE Absent]
      OBVIOUS
    <3>2. has' = [has EXCEPT ![e][resp.type] = now]
      BY <1>1, <1>4, <2>2, <3>1 DEF Accept
    <3>3. now \in [Names -> Entries(B) \cup {Absent}]
      BY <1>2, <1>5, <3>1 DEF EnvoyTypeOK, Holding, Responses
    <3> QED BY <1>2, <3>2, <3>3 DEF EnvoyTypeOK, Holding
  <2> QED BY <2>1, <2>2
<1>11. DeltaTypeOK(B)'
  <2>1. inbound' \in [Streams -> Seq(Requests)]
    BY <1>2, <1>7, <1>8, RequestSent
  <2>2. StreamTypeOK(B)'
    BY <1>2, <1>8, <1>9, <2>1 DEF StreamTypeOK
  <2>3. EnvoyTypeOK(B)'
    BY <1>2, <1>8, <1>10 DEF EnvoyTypeOK
  <2> QED BY <1>2, <1>8, <2>2, <2>3 DEF DeltaTypeOK
<1>12. ASSUME NEW u \in Types PROVE AskedInv(s, u)' /\ OnlyFirstEmpty(s, u)'
  <2>1. AskedInv(s, u) /\ OnlyFirstEmpty(s, u)
    BY <1>2, <1>8 DEF ClientInv
  <2>2. AskedInv(s, u)'
    <3>1. resp.type \in asked[s]
      BY <1>2, <1>5, <1>8 DEF ClientInv, AskedInv
    <3>2. \A i \in 1 .. Len(inbound'[s]) :
             \/ i \in 1 .. Len(inbound[s]) /\ inbound'[s][i] = inbound[s][i]
             \/ inbound'[s][i] = req
      BY <1>2, <1>7, <1>8, RequestSent
    <3> QED BY <1>7, <1>8, <2>1, <3>1, <3>2 DEF AskedInv
  <2>3. OnlyFirstEmpty(s, u)'
    BY <1>2, <1>5, <1>7, <1>8, <2>1, SentFirst
  <2> QED BY <2>2, <2>3
<1>13. ASSUME NEW u \in Types, NEW p \in Patterns \cup {Star} PROVE Agrees(s, u, p)'
  <2>1. Agrees(s, u, p)
    BY <1>2, <1>8 DEF ClientInv
  <2>2. req \notin Mentioning(u, p, u \notin known[s])
    BY <1>5, <1>7 DEF Mentioning, Adding, Dropping
  <2>3. inbound[s] \in Seq(Requests) /\ inbound'[s] = Append(inbound[s], req)
    BY <1>2, <1>7, <1>8, RequestSent
  <2> QED BY <1>7, <1>8, <2>1, <2>2, <2>3, SentAgrees
<1>14. \A r \in Streams : \A i \in 1 .. Len(outbound'[r]) : outbound'[r][i].type \in known[r]
  BY <1>2, <1>8, <1>9 DEF StreamTypeOK, DeltaInv, TaskInv
<1> QED BY <1>7, <1>8, <1>11, <1>12, <1>13, <1>14, SendingDelta

LEMMA ClientDelta ==
    ASSUME NEW B, DeltaInv(B), NEW s \in Streams, Client(s)
    PROVE  DeltaInv(B)'
BY SubscribeDelta, ReplyDelta DEF Client

\* A step of neither side, be it that the advertised snapshot changes.
LEMMA WatchDelta ==
    ASSUME NEW B, DeltaInv(B), UNCHANGED <<wireVars, taskVars, envoyVars>>,
           advertised' \in Holding(B), changes' \in Nat
    PROVE  DeltaInv(B)'
<1>1. /\ UNCHANGED <<up, inbound, outbound, pc, held, todo, seen, known, subs, sent>>
      /\ UNCHANGED <<wants, requested, asked, has, drops>>
  BY DEF wireVars, taskVars, envoyVars
<1>2. DeltaTypeOK(B)'
  BY <1>1 DEF DeltaInv, DeltaTypeOK, StreamTypeOK, EnvoyTypeOK
<1>3. ASSUME NEW s \in Streams
      PROVE  ClientInv(s)' /\ TaskInv(s)' /\ UnusedInv(s)' /\ DownInv(s)'
  <2>1. ClientInv(s)'
    BY <1>1, SameClient DEF DeltaInv, ClientInv
  <2>2. TaskInv(s)' /\ UnusedInv(s)' /\ DownInv(s)'
    BY <1>1 DEF DeltaInv, TaskInv, UnusedInv, DownInv
  <2> QED BY <2>1, <2>2
<1> QED BY <1>2, <1>3 DEF DeltaInv

-----------------------------------------------------------------------------
\* With no request on its way, what the client asked for is on record.
LEMMA DeltaAgrees == ASSUME NEW B, DeltaInv(B) PROVE SubscriptionAgrees
<1> SUFFICES ASSUME NEW s \in Streams, Quiet(s), NEW t \in Types, NEW n \in Names
             PROVE  Matches(subs[s][t], n) <=> n \in Meant(requested[s][t])
  BY DEF SubscriptionAgrees
<1>1. up[s] /\ inbound[s] = <<>>
  BY DEF Quiet
<1>2. /\ subs[s][t].wildcard \in BOOLEAN /\ subs[s][t].names \subseteq Patterns
      /\ requested[s][t] \subseteq Patterns \cup {Star}
  BY DEF DeltaInv, DeltaTypeOK, StreamTypeOK, EnvoyTypeOK
<1>3. ASSUME NEW p \in Patterns \cup {Star}
      PROVE  p \in requested[s][t] <=> InSub(subs[s][t], p)
  <2>1. Agrees(s, t, p)
    BY <1>1 DEF DeltaInv, ClientInv
  <2>2. \A A, M : ~LastIn(inbound[s], A, M)
    BY <1>1, EmptyFacts DEF LastIn
  <2> QED BY <2>1, <2>2 DEF Agrees
<1>4. Star \in requested[s][t] <=> subs[s][t].wildcard
  BY <1>3 DEF InSub
<1>5. \A p \in Patterns : p \in requested[s][t] <=> p \in subs[s][t].names
  BY <1>3, DeltaAssumption DEF InSub
<1> QED BY <1>2, <1>4, <1>5 DEF Matches, Meant

-----------------------------------------------------------------------------
(* What clients hold. *)

Ver(entry) == IF entry = Absent THEN 0 ELSE entry.version

\* The responses that say something of name n, and those that leave it at v.
Naming(B, t, n) ==
    {resp \in Responses(B) :
        resp.type = t /\ (resp.resources[n] # Absent \/ n \in resp.removed)}

Leaving(B, t, n, v) == {resp \in Naming(B, t, n) : Ver(resp.resources[n]) = v}

\* The client has name n of type t at version v, or has given it up, or did not
\* take it: L are the versions that it may refuse, removals at 0.
HeldBy(L, s, t, n, v) ==
    \/ Ver(has[Owner[s]][t][n]) = v
    \/ drops # 0 /\ has[Owner[s]][t][n] = Absent
    \/ <<t, v>> \in L

\* What is recorded as sent is where the last response on its way leaves the
\* client, or where the client is.
SettledInv(B, L, s, t, n) ==
    t \in known[s] =>
        \/ LastIn(outbound[s], Leaving(B, t, n, sent[s][t][n]), Naming(B, t, n))
        \/ NoneIn(outbound[s], Naming(B, t, n)) /\ HeldBy(L, s, t, n, sent[s][t][n])

\* No response names what the client does not want, unless it gave it up.
WantedInv(B, s, t, n) ==
    drops = 0 /\ n \notin Meant(wants[Owner[s]][t]) => NoneIn(outbound[s], Naming(B, t, n))

\* The first request of a type reports what the client has, the others nothing.
Later(s, i) ==
    \/ inbound[s][i].type \in known[s]
    \/ \E j \in 1 .. Len(inbound[s]) : j < i /\ inbound[s][j].type = inbound[s][i].type

ReportInv(s, t) ==
    /\ t \in asked[s] =>
          t \in known[s] \/ \E i \in 1 .. Len(inbound[s]) : inbound[s][i].type = t
    /\ \A i \in 1 .. Len(inbound[s]) : inbound[s][i].type = t =>
          IF Later(s, i) THEN inbound[s][i].initial = NothingInitial
          ELSE \A n \in Names : HeldBy({}, s, t, n, inbound[s][i].initial[n])

ClientHold(B, L, s) ==
    up[s] => \A t \in Types :
        /\ ReportInv(s, t)
        /\ \A n \in Names : SettledInv(B, L, s, t, n) /\ WantedInv(B, s, t, n)

\* What is unsubscribed from was given up.
DropInv(s) ==
    drops = 0 => \A i \in 1 .. Len(inbound[s]) : inbound[s][i].unsubscribe = {}

\* A response does not both bring a name and remove it.
ClearInv(s) ==
    \A i \in 1 .. Len(outbound[s]) : \A n \in outbound[s][i].removed :
        outbound[s][i].resources[n] = Absent

\* A type without a subscription.
NewInv(s) ==
    \A t \in Types : t \notin known[s] =>
        subs[s][t] = NoSub /\ sent[s][t] = [n \in Names |-> 0]

\* Without an unseen change, all that was subscribed to and is not left in the
\* loop has been sent as it is advertised.
ServedInv(s) ==
    /\ seen[s] <= changes
    /\ pc[s] \in {"unused", "closed"} => seen[s] = 0
    /\ pc[s] # "push" => todo[s] = {}
    /\ pc[s] \in {"select", "push"} /\ seen[s] = changes =>
          /\ pc[s] = "push" => held[s] = advertised
          /\ \A t \in known[s] \ todo[s], n \in Names :
                Matches(subs[s][t], n) => sent[s][t][n] = Ver(advertised[t][n])

TaskHold(s) == NewInv(s) /\ ServedInv(s) /\ DropInv(s) /\ ClearInv(s)

HoldInv(B, L) == \A s \in Streams : TaskHold(s) /\ ClientHold(B, L, s)

-----------------------------------------------------------------------------
(* What a step leaves alone. *)

\* The client keeps what it has of n, or gives it up.
Keeps(s, t, n) ==
    \/ has'[Owner[s]][t][n] = has[Owner[s]][t][n]
    \/ drops' # 0 /\ has'[Owner[s]][t][n] = Absent

LEMMA HeldKept ==
    ASSUME NEW L, NEW s, NEW t, NEW n, NEW v, HeldBy(L, s, t, n, v), Keeps(s, t, n),
           drops # 0 => drops' # 0
    PROVE  HeldBy(L, s, t, n, v)'
BY DEF HeldBy, Keeps

LEMMA MeantGrows ==
    ASSUME NEW P, NEW Q, P \subseteq Q, P \subseteq Patterns \cup {Star}
    PROVE  Meant(P) \subseteq Meant(Q)
BY DeltaAssumption DEF Meant

\* The requests of a stream that are left alone.
LEMMA SameReport ==
    ASSUME NEW s, NEW t, ReportInv(s, t),
           inbound'[s] = inbound[s], known'[s] = known[s], asked'[s] = asked[s],
           \A n \in Names : Keeps(s, t, n),
           drops # 0 => drops' # 0
    PROVE  ReportInv(s, t)'
<1>1. ASSUME NEW n \in Names, NEW v, HeldBy({}, s, t, n, v) PROVE HeldBy({}, s, t, n, v)'
  BY <1>1, HeldKept
<1>2. ASSUME NEW i \in 1 .. Len(inbound[s]) PROVE Later(s, i)' <=> Later(s, i)
  BY DEF Later
<1> QED BY <1>1, <1>2 DEF ReportInv

\* Its responses.
LEMMA SameSettled ==
    ASSUME NEW B, NEW L, NEW s \in Streams, NEW t \in Types, NEW n \in Names,
           EnvoyTypeOK(B), SettledInv(B, L, s, t, n), WantedInv(B, s, t, n),
           outbound'[s] = outbound[s], known'[s] = known[s], sent'[s] = sent[s],
           Keeps(s, t, n),
           drops' # 0 \/ wants[Owner[s]][t] \subseteq wants'[Owner[s]][t],
           drops # 0 => drops' # 0
    PROVE  SettledInv(B, L, s, t, n)' /\ WantedInv(B, s, t, n)'
<1>1. HeldBy(L, s, t, n, sent[s][t][n]) => HeldBy(L, s, t, n, sent[s][t][n])'
  <2>1. PICK v : v = sent[s][t][n]
    OBVIOUS
  <2>2. sent'[s][t][n] = v
    BY <2>1
  <2>3. HeldBy(L, s, t, n, v) => HeldBy(L, s, t, n, v)'
    BY HeldKept
  <2> QED BY <2>1, <2>2, <2>3 DEF HeldBy
<1>2. SettledInv(B, L, s, t, n)'
  BY <1>1 DEF SettledInv
<1>3. WantedInv(B, s, t, n)'
  <2>1. wants[Owner[s]][t] \subseteq Patterns \cup {Star}
    BY EnvoyAssumption DEF EnvoyTypeOK
  <2>2. drops' = 0 => Meant(wants[Owner[s]][t]) \subseteq Meant(wants'[Owner[s]][t])
    BY <2>1, MeantGrows
  <2>3. drops' = 0 => drops = 0
    OBVIOUS
  <2> QED BY <2>2, <2>3 DEF WantedInv, Meant
<1> QED BY <1>2, <1>3

\* A client's side of a stream whose queues are left alone.
LEMMA SameHold ==
    ASSUME NEW B, NEW L, NEW s \in Streams, ClientHold(B, L, s), EnvoyTypeOK(B),
           up'[s] => up[s],
           inbound'[s] = inbound[s], outbound'[s] = outbound[s],
           known'[s] = known[s], sent'[s] = sent[s],
           up'[s] => asked'[s] = asked[s],
           up'[s] => \A t \in Types, n \in Names : Keeps(s, t, n),
           up'[s] => \A t \in Types :
              drops' # 0 \/ wants[Owner[s]][t] \subseteq wants'[Owner[s]][t],
           drops # 0 => drops' # 0
    PROVE  ClientHold(B, L, s)'
<1> SUFFICES ASSUME up'[s], NEW t \in Types
             PROVE  /\ ReportInv(s, t)'
                    /\ \A n \in Names : SettledInv(B, L, s, t, n)' /\ WantedInv(B, s, t, n)'
  BY DEF ClientHold
<1>1. /\ ReportInv(s, t)
      /\ \A n \in Names : SettledInv(B, L, s, t, n) /\ WantedInv(B, s, t, n)
  BY DEF ClientHold
<1>2. ReportInv(s, t)'
  BY <1>1, SameReport
<1> QED BY <1>1, <1>2, SameSettled

\* A task's side of a stream that is left alone, be it that a snapshot is sent.
LEMMA SameTask ==
    ASSUME NEW s \in Streams, TaskHold(s),
           inbound'[s] = inbound[s], outbound'[s] = outbound[s],
           pc'[s] = pc[s], held'[s] = held[s], todo'[s] = todo[s], seen'[s] = seen[s],
           known'[s] = known[s], subs'[s] = subs[s], sent'[s] = sent[s],
           changes \in Nat, seen[s] \in Nat,
           changes' = changes + 1 \/ UNCHANGED watchVars,
           drops # 0 => drops' # 0
    PROVE  TaskHold(s)'
<1>1. NewInv(s)' /\ DropInv(s)' /\ ClearInv(s)'
  BY DEF TaskHold, NewInv, DropInv, ClearInv
<1>2. ServedInv(s)'
  BY DEF TaskHold, ServedInv, watchVars
<1> QED BY <1>1, <1>2 DEF TaskHold

LEMMA InitHold ==
    ASSUME NEW B, NEW L, NEW first, NEW leftover, StreamInit(first), EnvoyInit(leftover)
    PROVE  HoldInv(B, L)
<1> SUFFICES ASSUME NEW s \in Streams PROVE TaskHold(s) /\ ClientHold(B, L, s)
  BY DEF HoldInv
<1> USE DEF StreamInit, EnvoyInit
<1>1. NewInv(s) /\ ServedInv(s)
  BY DEF NewInv, ServedInv, NoSent
<1>2. DropInv(s) /\ ClearInv(s)
  BY EmptyFacts DEF DropInv, ClearInv
<1> QED BY <1>1, <1>2 DEF TaskHold, ClientHold

-----------------------------------------------------------------------------
(* The task. *)

\* Types that the request taken does not name, or the server knows.
LEMMA TailReport ==
    ASSUME NEW B, DeltaTypeOK(B), NEW s \in Streams, Take(s), NEW t \in Types,
           Head(inbound[s]).type # t \/ t \in known[s],
           t \in known'[s] <=> t \in known[s],
           \A u \in Types : u \in known[s] => u \in known'[s],
           UNCHANGED envoyVars, ReportInv(s, t)
    PROVE  ReportInv(s, t)'
<1>1. /\ Head(inbound[s]) = inbound[s][1]
      /\ \A i \in 1 .. Len(inbound'[s]) :
            /\ inbound'[s][i] = inbound[s][i + 1]
            /\ i \in Nat /\ i + 1 \in 1 .. Len(inbound[s]) /\ 1 < i + 1
      /\ Len(inbound[s]) \in Nat \ {0} /\ Len(inbound'[s]) = Len(inbound[s]) - 1
  BY TakeSplit, TailFacts
<1>2. t \in asked'[s] =>
         t \in known'[s] \/ \E i \in 1 .. Len(inbound'[s]) : inbound'[s][i].type = t
  <2> SUFFICES ASSUME t \in asked[s], t \notin known[s]
               PROVE  \E i \in 1 .. Len(inbound'[s]) : inbound'[s][i].type = t
    BY DEF envoyVars
  <2>1. PICK i \in 1 .. Len(inbound[s]) : inbound[s][i].type = t
    BY DEF ReportInv
  <2>2. i # 1
    BY <1>1, <2>1
  <2>3. i - 1 \in 1 .. Len(inbound'[s]) /\ inbound'[s][i - 1] = inbound[s][i]
    BY <1>1, <2>2
  <2> QED BY <2>1, <2>3
<1>3. ASSUME NEW i \in 1 .. Len(inbound'[s]), inbound'[s][i].type = t
      PROVE  IF Later(s, i)' THEN inbound'[s][i].initial = NothingInitial
             ELSE \A n \in Names : HeldBy({}, s, t, n, inbound[s][i].initial[n])'
  <2>1. /\ inbound'[s][i] = inbound[s][i + 1] /\ i \in Nat /\ i + 1 \in 1 .. Len(inbound[s])
        /\ inbound[s][i + 1].type = t
    BY <1>1, <1>3
  <2>2. Later(s, i)' <=> Later(s, i + 1)
    <3>1. ASSUME Later(s, i)' PROVE Later(s, i + 1)
      <4>1. CASE t \in known'[s]
        BY <2>1, <4>1 DEF Later
      <4>2. CASE \E j \in 1 .. Len(inbound'[s]) : j < i /\ inbound'[s][j].type = t
        <5>1. PICK j \in 1 .. Len(inbound'[s]) : j < i /\ inbound'[s][j].type = t
          BY <4>2
        <5>2. j + 1 \in 1 .. Len(inbound[s]) /\ j + 1 < i + 1 /\ inbound[s][j + 1].type = t
          BY <1>1, <5>1
        <5> QED BY <2>1, <5>2 DEF Later
      <4> QED BY <1>3, <3>1, <4>1, <4>2 DEF Later
    <3>2. ASSUME Later(s, i + 1) PROVE Later(s, i)'
      <4>1. CASE t \in known[s]
        BY <1>3, <4>1 DEF Later
      <4>2. CASE \E j \in 1 .. Len(inbound[s]) : j < i + 1 /\ inbound[s][j].type = t
        <5>1. PICK j \in 1 .. Len(inbound[s]) : j < i + 1 /\ inbound[s][j].type = t
          BY <4>2
        <5>2. CASE j = 1
          BY <1>1, <4>1, <5>1, <5>2
        <5>3. CASE j # 1
          <6>1. j - 1 \in 1 .. Len(inbound'[s]) /\ (j - 1) + 1 = j /\ j - 1 < i
            BY <1>1, <2>1, <5>1, <5>3
          <6>2. inbound'[s][j - 1].type = t
            BY <1>1, <5>1, <6>1
          <6> QED BY <1>3, <6>1, <6>2 DEF Later
        <5> QED BY <4>1, <5>2, <5>3
      <4> QED BY <2>1, <3>2, <4>1, <4>2 DEF Later
    <3> QED BY <3>1, <3>2
  <2>3. UNCHANGED <<has, drops>> /\ inbound'[s][i].initial = inbound[s][i + 1].initial
    BY <2>1 DEF envoyVars
  <2>4. CASE Later(s, i + 1)
    BY <2>1, <2>2, <2>3, <2>4 DEF ReportInv
  <2>5. CASE ~Later(s, i + 1)
    <3>1. \A n \in Names : HeldBy({}, s, t, n, inbound[s][i + 1].initial[n])
      BY <2>1, <2>5 DEF ReportInv
    <3>2. \A n \in Names : HeldBy({}, s, t, n, inbound[s][i].initial[n])'
      BY <2>3, <3>1 DEF HeldBy
    <3> QED BY <2>2, <2>5, <3>2
  <2> QED BY <2>4, <2>5
<1> QED BY <1>2, <1>3 DEF ReportInv

\* A step of stream s's task changes nothing of the other streams.
Apart(s) ==
    \A r \in Streams \ {s} :
        /\ inbound'[r] = inbound[r] /\ outbound'[r] = outbound[r]
        /\ pc'[r] = pc[r] /\ held'[r] = held[r] /\ todo'[r] = todo[r] /\ seen'[r] = seen[r]
        /\ known'[r] = known[r] /\ subs'[r] = subs[r] /\ sent'[r] = sent[r]

LEMMA TaskApart ==
    ASSUME NEW B, DeltaTypeOK(B), NEW s \in Streams, Task(s)
    PROVE  UNCHANGED <<watchVars, up>> /\ Apart(s)
<1> USE DEF Apart, DeltaTypeOK, StreamTypeOK, watchVars, wireVars
<1>1. CASE ReceiveNack(s)
  BY <1>1 DEF ReceiveNack, Take
<1>2. CASE ReceiveRequest(s)
  BY <1>2 DEF ReceiveRequest, Take, Visit
<1>3. CASE WatchChanged(s)
  BY <1>3 DEF WatchChanged, Visit
<1>4. ASSUME NEW t \in Types, SendNothing(s, t) PROVE UNCHANGED <<watchVars, up>> /\ Apart(s)
  BY <1>4 DEF SendNothing, Visit
<1>5. ASSUME NEW t \in Types, SendDelta(s, t) PROVE UNCHANGED <<watchVars, up>> /\ Apart(s)
  BY <1>5 DEF SendDelta, Visit
<1>6. CASE Close(s)
  BY <1>6 DEF Close, CloseAll
<1> QED BY <1>1, <1>2, <1>3, <1>4, <1>5, <1>6 DEF Task, Send, SendFails, StreamEnds

\* So only its own stream is left to show.
LEMMA OneTask ==
    ASSUME NEW B, NEW L, DeltaInv(B), HoldInv(B, L), NEW s \in Streams, Task(s),
           UNCHANGED envoyVars, TaskHold(s)', ClientHold(B, L, s)'
    PROVE  HoldInv(B, L)'
<1> SUFFICES ASSUME NEW r \in Streams \ {s} PROVE TaskHold(r)' /\ ClientHold(B, L, r)'
  BY DEF HoldInv
<1>1. UNCHANGED <<watchVars, up>> /\ Apart(s)
  BY TaskApart DEF DeltaInv
<1>2. UNCHANGED <<wants, asked, has, drops>>
  BY DEF envoyVars
<1>3. TaskHold(r) /\ ClientHold(B, L, r)
  BY DEF HoldInv
<1>4. changes \in Nat /\ seen[r] \in Nat /\ EnvoyTypeOK(B)
  BY DEF DeltaInv, DeltaTypeOK, StreamTypeOK
<1>5. TaskHold(r)'
  BY <1>1, <1>2, <1>3, <1>4, SameTask DEF Apart
<1>6. \A t \in Types, n \in Names : Keeps(r, t, n)
  BY <1>2 DEF Keeps
<1>7. ClientHold(B, L, r)'
  BY <1>1, <1>2, <1>3, <1>4, <1>6, SameHold DEF Apart
<1> QED BY <1>5, <1>7

\* A NACK is of a type that the server knows.
LEMMA NackHold ==
    ASSUME NEW B, NEW L, DeltaInv(B), HoldInv(B, L), NEW s \in Streams, ReceiveNack(s),
           UNCHANGED envoyVars
    PROVE  HoldInv(B, L)'
<1>1. /\ Take(s) /\ Head(inbound[s]).error
      /\ UNCHANGED <<changes, advertised, up, outbound, pc, held, todo, seen, known, subs, sent>>
  BY DEF ReceiveNack, Take, watchVars
<1>2. UNCHANGED <<wants, asked, has, drops>>
  BY DEF envoyVars
<1>3. DeltaTypeOK(B) /\ EnvoyTypeOK(B) /\ ClientInv(s) /\ TaskHold(s) /\ ClientHold(B, L, s)
  BY DEF DeltaInv, DeltaTypeOK, HoldInv
<1>4. /\ Head(inbound[s]) = inbound[s][1] /\ 1 \in 1 .. Len(inbound[s])
      /\ \A i \in 1 .. Len(inbound'[s]) :
            inbound'[s][i] = inbound[s][i + 1] /\ i + 1 \in 1 .. Len(inbound[s])
  BY <1>1, <1>3, TakeSplit
<1>5. TaskHold(s)'
  <2>1. DropInv(s)'
    BY <1>2, <1>3, <1>4 DEF TaskHold, DropInv
  <2> QED BY <1>1, <1>3, <2>1 DEF TaskHold, NewInv, ServedInv, ClearInv
<1>6. ASSUME up[s], NEW t \in Types
      PROVE  /\ ReportInv(s, t)'
             /\ \A n \in Names : SettledInv(B, L, s, t, n)' /\ WantedInv(B, s, t, n)'
  <2>1. /\ ReportInv(s, t)
        /\ \A n \in Names : SettledInv(B, L, s, t, n) /\ WantedInv(B, s, t, n)
    BY <1>3, <1>6 DEF ClientHold
  <2>2. Head(inbound[s]).type # t \/ t \in known[s]
    BY <1>1, <1>3, <1>4, <1>6 DEF ClientInv, OnlyFirstEmpty
  <2>3. ReportInv(s, t)'
    BY <1>1, <1>3, <2>1, <2>2, TailReport
  <2>4. \A n \in Names : Keeps(s, t, n)
    BY <1>2 DEF Keeps
  <2> QED BY <1>1, <1>2, <1>3, <2>1, <2>3, <2>4, SameSettled
<1>7. ClientHold(B, L, s)'
  BY <1>1, <1>6 DEF ClientHold
<1> QED BY <1>5, <1>7, OneTask DEF Task

\* The first request of a type records as sent what the client has, and nothing
\* of that type is on its way to it; the others record nothing.
LEMMA RequestHold ==
    ASSUME NEW B, NEW L, DeltaInv(B), HoldInv(B, L), NEW s \in Streams, ReceiveRequest(s),
           UNCHANGED envoyVars
    PROVE  HoldInv(B, L)'
<1>1. DeltaTypeOK(B) /\ EnvoyTypeOK(B) /\ TaskInv(s) /\ TaskHold(s) /\ ClientHold(B, L, s)
  BY DEF DeltaInv, DeltaTypeOK, HoldInv
<1>2. PICK req \in Requests : req = Head(inbound[s])
  BY <1>1, TakeSplit DEF ReceiveRequest
<1>3. PICK t \in Types : t = req.type
  BY DEF Requests
<1>4. PICK now : now =
         [n \in Names |-> IF req.initial[n] # 0 THEN req.initial[n] ELSE sent[s][t][n]]
  OBVIOUS
<1>5. /\ Take(s) /\ pc[s] = "select"
      /\ known'[s] = known[s] \cup {t}
      /\ sent'[s][t] = now
      /\ \A u \in Types \ {t} : sent'[s][u] = sent[s][u] /\ subs'[s][u] = subs[s][u]
      /\ pc'[s] = "push" /\ todo'[s] = {t} /\ held'[s] = advertised
      /\ UNCHANGED <<changes, advertised, up, outbound, seen>>
  BY <1>1, <1>2, <1>3, <1>4
  DEF ReceiveRequest, Take, Visit, watchVars, DeltaTypeOK, StreamTypeOK
<1>6. UNCHANGED <<wants, asked, has, drops>>
  BY DEF envoyVars
<1>7. /\ req = inbound[s][1] /\ 1 \in 1 .. Len(inbound[s])
      /\ \A i \in 1 .. Len(inbound'[s]) :
            /\ inbound'[s][i] = inbound[s][i + 1]
            /\ i + 1 \in 1 .. Len(inbound[s]) /\ 1 < i + 1
  BY <1>1, <1>2, <1>5, TakeSplit
<1>8. TaskHold(s)'
  <2>1. DropInv(s)' /\ ClearInv(s)'
    BY <1>1, <1>5, <1>6, <1>7 DEF TaskHold, DropInv, ClearInv
  <2>2. NewInv(s)'
    BY <1>1, <1>5 DEF TaskHold, NewInv
  <2>3. ServedInv(s)'
    <3>1. seen[s] <= changes /\ todo[s] = {}
      BY <1>1, <1>5 DEF TaskHold, ServedInv
    <3>2. ASSUME seen[s] = changes, NEW u \in known'[s] \ todo'[s], NEW n \in Names,
                 Matches(subs[s][u], n)'
          PROVE  sent'[s][u][n] = Ver(advertised[u][n])
      <4>1. u \in Types \ {t} /\ u \in known[s] \ todo[s]
        BY <1>1, <1>5, <3>1, <3>2 DEF DeltaTypeOK, StreamTypeOK
      <4>2. subs'[s][u] = subs[s][u] /\ sent'[s][u] = sent[s][u]
        BY <1>5, <4>1
      <4>3. Matches(subs[s][u], n)
        BY <3>2, <4>2 DEF Matches
      <4> QED BY <1>1, <1>5, <3>2, <4>1, <4>2, <4>3 DEF TaskHold, ServedInv
    <3> QED BY <1>5, <3>1, <3>2 DEF ServedInv, Ver
  <2> QED BY <2>1, <2>2, <2>3 DEF TaskHold
<1>9. ASSUME up[s], NEW u \in Types
      PROVE  /\ ReportInv(s, u)'
             /\ \A n \in Names : SettledInv(B, L, s, u, n)' /\ WantedInv(B, s, u, n)'
  <2>1. /\ ReportInv(s, u)
        /\ \A n \in Names : SettledInv(B, L, s, u, n) /\ WantedInv(B, s, u, n)
    BY <1>1, <1>9 DEF ClientHold
  <2>2. \A n \in Names : Keeps(s, u, n)
    BY <1>6 DEF Keeps
  <2>3. \A n \in Names : WantedInv(B, s, u, n)'
    BY <1>5, <1>6, <2>1 DEF WantedInv, Meant
  <2>4. CASE u # t \/ u \in known[s]
    <3>1. ReportInv(s, u)'
      BY <1>1, <1>2, <1>3, <1>5, <2>1, <2>4, TailReport
    <3>2. sent'[s][u] = sent[s][u]
      <4>1. CASE u = t
        <5>1. Later(s, 1)
          BY <1>3, <1>7, <2>4, <4>1 DEF Later
        <5>2. req.initial = NothingInitial
          BY <1>3, <1>7, <2>1, <4>1, <5>1 DEF ReportInv
        <5>3. now = sent[s][t]
          BY <1>1, <1>4, <5>2 DEF NothingInitial, DeltaTypeOK, StreamTypeOK
        <5> QED BY <1>5, <4>1, <5>3
      <4>2. CASE u # t
        BY <1>5, <4>2
      <4> QED BY <4>1, <4>2
    <3>3. \A n \in Names : HeldBy(L, s, u, n, sent[s][u][n]) =>
                              HeldBy(L, s, u, n, sent[s][u][n])'
      BY <1>6, <3>2 DEF HeldBy
    <3>4. \A n \in Names : SettledInv(B, L, s, u, n)'
      BY <1>3, <1>5, <2>1, <2>4, <3>2, <3>3 DEF SettledInv
    <3> QED BY <2>3, <3>1, <3>4
  <2>5. CASE u = t /\ u \notin known[s]
    <3>1. ~Later(s, 1)
      BY <1>3, <1>7, <2>5 DEF Later
    <3>2. \A n \in Names : HeldBy({}, s, t, n, req.initial[n])
      BY <1>3, <1>7, <2>1, <2>5, <3>1 DEF ReportInv
    <3>3. \A n \in Names : now[n] = req.initial[n]
      <4>1. \A n \in Names : sent[s][t][n] = 0
        BY <1>1, <2>5 DEF TaskHold, NewInv
      <4> QED BY <1>4, <4>1
    <3>4. ReportInv(s, u)'
      <4>1. t \in known'[s]
        BY <1>5
      <4>2. ASSUME NEW i \in 1 .. Len(inbound'[s]), inbound'[s][i].type = t
            PROVE  Later(s, i)' /\ inbound'[s][i].initial = NothingInitial
        <5>1. Later(s, i + 1)
          BY <1>3, <1>7, <4>2 DEF Later
        <5>2. inbound[s][i + 1].initial = NothingInitial
          BY <1>7, <2>1, <2>5, <4>2, <5>1 DEF ReportInv
        <5> QED BY <1>7, <4>1, <4>2, <5>2 DEF Later
      <4> QED BY <2>5, <4>1, <4>2 DEF ReportInv
    <3>5. ASSUME NEW n \in Names PROVE SettledInv(B, L, s, u, n)'
      <4>1. NoneIn(outbound[s], Naming(B, t, n))
        BY <1>1, <2>5 DEF TaskInv, NoneIn, Naming
      <4>2. HeldBy(L, s, t, n, sent[s][t][n])'
        BY <1>5, <1>6, <3>2, <3>3 DEF HeldBy
      <4> QED BY <1>5, <2>5, <4>1, <4>2 DEF SettledInv
    <3> QED BY <2>3, <3>4, <3>5
  <2> QED BY <2>4, <2>5
<1>10. ClientHold(B, L, s)'
  BY <1>5, <1>9 DEF ClientHold
<1> QED BY <1>8, <1>10, OneTask DEF Task

\* changed() resolves, or the loop passes over a type: nothing is sent.
LEMMA PassHold ==
    ASSUME NEW B, NEW L, DeltaInv(B), HoldInv(B, L), NEW s \in Streams,
           UNCHANGED <<envoyVars, watchVars, wireVars, known, subs, sent>>,
           Task(s), ServedInv(s)'
    PROVE  HoldInv(B, L)'
<1>1. /\ UNCHANGED <<wants, asked, has, drops>>
      /\ UNCHANGED <<up, inbound, outbound, known, subs, sent>>
  BY DEF envoyVars, wireVars
<1>2. EnvoyTypeOK(B) /\ TaskHold(s) /\ ClientHold(B, L, s)
  BY DEF DeltaInv, DeltaTypeOK, HoldInv
<1>3. TaskHold(s)'
  BY <1>1, <1>2 DEF TaskHold, NewInv, DropInv, ClearInv
<1>4. \A t \in Types, n \in Names : Keeps(s, t, n)
  BY <1>1 DEF Keeps
<1>5. ClientHold(B, L, s)'
  BY <1>1, <1>2, <1>4, SameHold
<1> QED BY <1>3, <1>5, OneTask

LEMMA ChangedHold ==
    ASSUME NEW B, NEW L, DeltaInv(B), HoldInv(B, L), NEW s \in Streams, WatchChanged(s),
           UNCHANGED envoyVars
    PROVE  HoldInv(B, L)'
<1>1. /\ pc[s] = "select" /\ seen'[s] = changes
      /\ pc'[s] = IF known[s] = {} THEN "select" ELSE "push"
      /\ held'[s] = IF known[s] = {} THEN NoSnap ELSE advertised
      /\ todo'[s] = known[s]
      /\ UNCHANGED <<changes, advertised, known, subs, sent>>
  BY DEF WatchChanged, Visit, watchVars, DeltaInv, DeltaTypeOK, StreamTypeOK
<1>2. changes \in Nat
  BY DEF DeltaInv, DeltaTypeOK, StreamTypeOK
<1>3. ServedInv(s)'
  BY <1>1, <1>2 DEF ServedInv
<1> QED BY <1>3, PassHold DEF Task, WatchChanged

\* What the loop leaves as sent of a type is what the task's snapshot has.
SentNow(s, t) ==
    [n \in Names |-> IF Moved(s, t, n) THEN held[s][t][n].version
                     ELSE IF n \in Gone(s, t) THEN 0 ELSE sent[s][t][n]]

LEMMA LoopServes ==
    ASSUME NEW B, DeltaInv(B), NEW s \in Streams, ServedInv(s), pc[s] = "push",
           NEW t \in todo[s],
           seen'[s] = seen[s], known'[s] = known[s], subs'[s] = subs[s],
           UNCHANGED watchVars, Visit(s, todo[s] \ {t}, held[s]),
           sent'[s] = [sent[s] EXCEPT ![t] = SentNow(s, t)]
    PROVE  ServedInv(s)'
<1>1. /\ todo'[s] = todo[s] \ {t}
      /\ pc'[s] = IF todo[s] \ {t} = {} THEN "select" ELSE "push"
      /\ held'[s] = IF todo[s] \ {t} = {} THEN NoSnap ELSE held[s]
      /\ UNCHANGED <<changes, advertised>>
  BY DEF Visit, watchVars, DeltaInv, DeltaTypeOK, StreamTypeOK
<1>2. seen[s] <= changes /\ (seen[s] = changes => held[s] = advertised)
  BY DEF ServedInv
<1>3. /\ t \in Types
      /\ sent[s] \in [Types -> [Names -> Nat]]
      /\ held[s] \in Holding(B)
  BY DEF DeltaInv, DeltaTypeOK, StreamTypeOK
<1>4. ASSUME seen[s] = changes, NEW u \in known'[s] \ todo'[s], NEW n \in Names,
             Matches(subs[s][u], n)'
      PROVE  sent'[s][u][n] = Ver(advertised[u][n])
  <2>1. Matches(subs[s][u], n)
    BY <1>4 DEF Matches
  <2>2. CASE u = t
    <3>1. sent'[s][u][n] = SentNow(s, t)[n]
      BY <1>3, <2>2
    <3>2. SentNow(s, t)[n] = Ver(held[s][t][n])
      BY <2>1, <2>2 DEF SentNow, Moved, Gone, Ver
    <3> QED BY <1>2, <1>4, <2>2, <3>1, <3>2
  <2>3. CASE u # t
    <3>1. u \in known[s] \ todo[s]
      BY <1>1, <1>4, <2>3
    <3>2. sent'[s][u] = sent[s][u]
      BY <1>3, <2>3
    <3> QED BY <1>4, <2>1, <3>1, <3>2 DEF ServedInv
  <2> QED BY <2>2, <2>3
<1>5. pc'[s] # "push" => todo'[s] = {}
  BY <1>1
<1>6. pc'[s] \notin {"unused", "closed"}
  BY <1>1
<1>7. seen'[s] <= changes' /\ (pc'[s] = "push" /\ seen'[s] = changes' => held'[s] = advertised')
  BY <1>1, <1>2
<1> QED BY <1>1, <1>4, <1>5, <1>6, <1>7 DEF ServedInv, Ver

LEMMA NothingHold ==
    ASSUME NEW B, NEW L, DeltaInv(B), HoldInv(B, L), NEW s \in Streams, NEW t \in Types,
           SendNothing(s, t), UNCHANGED envoyVars
    PROVE  HoldInv(B, L)'
<1>1. sent[s] \in [Types -> [Names -> Nat]]
  BY DEF DeltaInv, DeltaTypeOK, StreamTypeOK
<1>2. SentNow(s, t) = sent[s][t]
  BY <1>1 DEF SentNow, SendNothing, Nothing
<1>3. sent'[s] = [sent[s] EXCEPT ![t] = SentNow(s, t)]
  BY <1>1, <1>2 DEF SendNothing
<1>4. ServedInv(s)'
  BY <1>3, LoopServes DEF SendNothing, HoldInv, TaskHold
<1> QED BY <1>4, PassHold DEF SendNothing, Task, Send

\* A response names what its sending changes on record, and nothing else.
LEMMA SentResponse ==
    ASSUME NEW B, DeltaInv(B), NEW s \in Streams, NEW t \in Types, SendDelta(s, t)
    PROVE  \E resp \in Responses(B) :
              /\ outbound' = [outbound EXCEPT ![s] = Append(outbound[s], resp)]
              /\ sent'[s] = [sent[s] EXCEPT ![t] = SentNow(s, t)]
              /\ resp.type = t
              /\ \A n \in Names :
                    /\ resp.resources[n] \in {held[s][t][n], Absent}
                    /\ n \in resp.removed => resp.resources[n] = Absent
                    /\ resp \in Naming(B, t, n) =>
                          /\ Matches(subs[s][t], n)
                          /\ resp \in Leaving(B, t, n, SentNow(s, t)[n])
                          /\ SentNow(s, t)[n] # sent[s][t][n]
                    /\ resp \notin Naming(B, t, n) => SentNow(s, t)[n] = sent[s][t][n]
<1>1. PICK resp : resp =
              [type |-> t,
               resources |-> [n \in Names |-> IF Moved(s, t, n) THEN held[s][t][n] ELSE Absent],
               removed |-> Gone(s, t)]
  OBVIOUS
<1>2. /\ held[s][t] \in [Names -> Entries(B) \cup {Absent}]
      /\ sent[s][t] \in [Names -> Nat]
  BY DEF SendDelta, DeltaInv, DeltaTypeOK, StreamTypeOK, Holding
<1>3. resp \in Responses(B)
  BY <1>1, <1>2 DEF Responses, Gone
<1>4. /\ outbound' = [outbound EXCEPT ![s] = Append(outbound[s], resp)]
      /\ sent'[s] = [sent[s] EXCEPT ![t] = SentNow(s, t)]
  BY <1>1 DEF SendDelta, SentNow, DeltaInv, DeltaTypeOK, StreamTypeOK
<1>5. ASSUME NEW n \in Names
      PROVE  /\ resp.resources[n] \in {held[s][t][n], Absent}
             /\ n \in resp.removed => resp.resources[n] = Absent
             /\ resp \in Naming(B, t, n) =>
                   /\ Matches(subs[s][t], n)
                   /\ resp \in Leaving(B, t, n, SentNow(s, t)[n])
                   /\ SentNow(s, t)[n] # sent[s][t][n]
             /\ resp \notin Naming(B, t, n) => SentNow(s, t)[n] = sent[s][t][n]
  <2>1. /\ resp.resources[n] = IF Moved(s, t, n) THEN held[s][t][n] ELSE Absent
        /\ n \in resp.removed <=> n \in Gone(s, t)
        /\ resp.type = t
    BY <1>1
  <2>2. SentNow(s, t)[n] = IF Moved(s, t, n) THEN held[s][t][n].version
                           ELSE IF n \in Gone(s, t) THEN 0 ELSE sent[s][t][n]
    BY DEF SentNow
  <2>3. CASE Moved(s, t, n)
    <3>1. Matches(subs[s][t], n) /\ held[s][t][n] # Absent
          /\ sent[s][t][n] # held[s][t][n].version
      BY <2>3 DEF Moved
    <3>2. n \notin Gone(s, t)
      BY <3>1 DEF Gone
    <3> QED BY <1>3, <2>1, <2>2, <2>3, <3>1, <3>2 DEF Naming, Leaving, Ver
  <2>4. CASE ~Moved(s, t, n) /\ n \in Gone(s, t)
    <3>1. Matches(subs[s][t], n) /\ sent[s][t][n] # 0
      BY <2>4 DEF Gone
    <3> QED BY <1>3, <2>1, <2>2, <2>4, <3>1 DEF Naming, Leaving, Ver
  <2>5. CASE ~Moved(s, t, n) /\ n \notin Gone(s, t)
    BY <2>1, <2>2, <2>5 DEF Naming
  <2> QED BY <2>3, <2>4, <2>5
<1>6. resp.type = t
  BY <1>1
<1> QED BY <1>3, <1>4, <1>5, <1>6

\* Without a request to unsubscribe, nothing is served that is not wanted.
LEMMA MatchesWanted ==
    ASSUME NEW B, DeltaInv(B), NEW s \in Streams, up[s], DropInv(s), drops = 0,
           NEW t \in Types, NEW n \in Names, Matches(subs[s][t], n)
    PROVE  n \in Meant(wants[Owner[s]][t])
<1>1. /\ subs[s][t].wildcard \in BOOLEAN /\ subs[s][t].names \subseteq Patterns
      /\ requested[s][t] \subseteq wants[Owner[s]][t]
      /\ wants[Owner[s]][t] \subseteq Patterns \cup {Star}
  BY EnvoyAssumption
  DEF DeltaInv, DeltaTypeOK, StreamTypeOK, EnvoyTypeOK, ClientInv, AskedInv
<1>2. ASSUME NEW p \in Patterns \cup {Star}, InSub(subs[s][t], p)
      PROVE  p \in requested[s][t]
  <2>1. Agrees(s, t, p)
    BY DEF DeltaInv, ClientInv
  <2>2. \A M : ~LastIn(inbound[s], Dropping(t, p), M)
    BY DEF DropInv, LastIn, Dropping
  <2> QED BY <1>2, <2>1, <2>2 DEF Agrees
<1>3. n \in Meant(requested[s][t])
  <2>1. subs[s][t].wildcard => Star \in requested[s][t]
    BY <1>2 DEF InSub
  <2>2. \A p \in subs[s][t].names : p \in requested[s][t]
    BY <1>1, <1>2, DeltaAssumption DEF InSub
  <2> QED BY <2>1, <2>2 DEF Matches, Meant
<1> QED BY <1>1, <1>3, MeantGrows

LEMMA DeltaHold ==
    ASSUME NEW B, NEW L, DeltaInv(B), HoldInv(B, L), NEW s \in Streams, NEW t \in Types,
           SendDelta(s, t), UNCHANGED envoyVars
    PROVE  HoldInv(B, L)'
<1>1. PICK resp \in Responses(B) :
              /\ outbound' = [outbound EXCEPT ![s] = Append(outbound[s], resp)]
              /\ sent'[s] = [sent[s] EXCEPT ![t] = SentNow(s, t)]
              /\ resp.type = t
              /\ \A n \in Names :
                    /\ n \in resp.removed => resp.resources[n] = Absent
                    /\ resp \in Naming(B, t, n) =>
                          /\ Matches(subs[s][t], n)
                          /\ resp \in Leaving(B, t, n, SentNow(s, t)[n])
                    /\ resp \notin Naming(B, t, n) => SentNow(s, t)[n] = sent[s][t][n]
  BY SentResponse
<1>2. /\ pc[s] = "push" /\ t \in todo[s]
      /\ Visit(s, todo[s] \ {t}, held[s])
      /\ UNCHANGED watchVars
      /\ UNCHANGED <<up, inbound, seen, known, subs>>
  BY DEF SendDelta
<1>3. UNCHANGED <<wants, asked, has, drops>>
  BY DEF envoyVars
<1>4. EnvoyTypeOK(B) /\ TaskInv(s) /\ TaskHold(s) /\ ClientHold(B, L, s)
      /\ outbound \in [Streams -> Seq(Responses(B))]
      /\ sent[s] \in [Types -> [Names -> Nat]]
  BY DEF DeltaInv, DeltaTypeOK, StreamTypeOK, HoldInv
<1>5. /\ outbound[s] \in Seq(Responses(B)) /\ outbound'[s] = Append(outbound[s], resp)
      /\ \A i \in 1 .. Len(outbound'[s]) :
            \/ i \in 1 .. Len(outbound[s]) /\ outbound'[s][i] = outbound[s][i]
            \/ outbound'[s][i] = resp
  <2>1. outbound[s] \in Seq(Responses(B)) /\ outbound'[s] = Append(outbound[s], resp)
    BY <1>1, <1>4
  <2> QED BY <2>1, AppendFacts
<1>6. TaskHold(s)'
  <2>1. t \in known[s]
    BY <1>2, <1>4 DEF TaskInv
  <2>2. NewInv(s)'
    BY <1>1, <1>2, <1>4, <2>1 DEF TaskHold, NewInv
  <2>3. ServedInv(s)'
    BY <1>1, <1>2, <1>4, LoopServes DEF TaskHold
  <2>4. DropInv(s)'
    BY <1>2, <1>3, <1>4 DEF TaskHold, DropInv
  <2>5. ClearInv(s)'
    <3>1. \A n \in resp.removed : resp.resources[n] = Absent
      BY <1>1 DEF Responses
    <3> QED BY <1>4, <1>5, <3>1 DEF TaskHold, ClearInv
  <2> QED BY <2>2, <2>3, <2>4, <2>5 DEF TaskHold
<1>7. ASSUME up[s], NEW u \in Types, NEW n \in Names
      PROVE  SettledInv(B, L, s, u, n)' /\ WantedInv(B, s, u, n)'
  <2>1. SettledInv(B, L, s, u, n) /\ WantedInv(B, s, u, n)
    BY <1>4, <1>7 DEF ClientHold
  <2>2. \A A, M : /\ resp \in A => LastIn(outbound'[s], A, M)
                  /\ resp \notin M /\ LastIn(outbound[s], A, M) => LastIn(outbound'[s], A, M)
                  /\ resp \notin M /\ NoneIn(outbound[s], M) => NoneIn(outbound'[s], M)
    BY <1>5, AppendLastIn
  <2>3. \/ resp \notin Naming(B, u, n) /\ sent'[s][u][n] = sent[s][u][n]
        \/ /\ resp \in Leaving(B, u, n, sent'[s][u][n])
           /\ drops = 0 => n \in Meant(wants[Owner[s]][u])
    <3>1. CASE u # t
      <4>1. sent'[s][u] = sent[s][u]
        BY <1>1, <1>4, <3>1
      <4> QED BY <1>1, <3>1, <4>1 DEF Naming
    <3>2. CASE u = t
      <4>1. sent'[s][t][n] = SentNow(s, t)[n]
        BY <1>1, <1>4
      <4>2. drops = 0 /\ Matches(subs[s][t], n) => n \in Meant(wants[Owner[s]][t])
        BY <1>4, <1>7, MatchesWanted DEF TaskHold
      <4> QED BY <1>1, <3>2, <4>1, <4>2
    <3> QED BY <3>1, <3>2
  <2>4. WantedInv(B, s, u, n)'
    <3>1. resp \notin Naming(B, u, n) \/ (drops = 0 => n \in Meant(wants[Owner[s]][u]))
      BY <2>3
    <3> QED BY <1>3, <2>1, <2>2, <3>1 DEF WantedInv, Meant
  <2>5. CASE resp \in Leaving(B, u, n, sent'[s][u][n])
    BY <2>2, <2>4, <2>5 DEF SettledInv, Leaving, Naming
  <2>6. CASE resp \notin Naming(B, u, n) /\ sent'[s][u][n] = sent[s][u][n]
    <3>1. HeldBy(L, s, u, n, sent[s][u][n]) => HeldBy(L, s, u, n, sent[s][u][n])'
      BY <1>3, <2>6 DEF HeldBy
    <3> QED BY <1>2, <2>1, <2>2, <2>4, <2>6, <3>1 DEF SettledInv, Leaving, Naming
  <2> QED BY <2>3, <2>5, <2>6
<1>8. ClientHold(B, L, s)'
  <2>1. ASSUME up[s], NEW u \in Types PROVE ReportInv(s, u)'
    <3>1. \A n \in Names : Keeps(s, u, n)
      BY <1>3 DEF Keeps
    <3> QED BY <1>2, <1>3, <1>4, <2>1, <3>1, SameReport DEF ClientHold
  <2> QED BY <1>2, <1>7, <2>1 DEF ClientHold
<1> QED BY <1>6, <1>8, OneTask DEF Task, Send

\* Streams that are not up close, at a restart all that were opened.
LEMMA CloseHold ==
    ASSUME NEW B, NEW L, DeltaInv(B), HoldInv(B, L), NEW S \in SUBSET Streams, CloseAll(S),
           \A r \in S : ~up'[r],
           \A r \in Streams : up'[r] => up[r] /\ asked'[r] = asked[r],
           UNCHANGED <<wants, has, drops>>,
           \/ UNCHANGED watchVars
           \/ changes' \in Nat /\ \A r \in Streams \ S : pc[r] = "unused"
    PROVE  HoldInv(B, L)'
<1> SUFFICES ASSUME NEW r \in Streams PROVE TaskHold(r)' /\ ClientHold(B, L, r)'
  BY DEF HoldInv
<1>1. TaskHold(r) /\ ClientHold(B, L, r) /\ EnvoyTypeOK(B)
      /\ changes \in Nat /\ seen[r] \in Nat
  BY DEF HoldInv, DeltaInv, DeltaTypeOK, StreamTypeOK
<1>2. CASE r \in S
  <2>1. /\ pc'[r] = "closed" /\ todo'[r] = {} /\ known'[r] = {} /\ seen'[r] = 0
        /\ subs'[r] = [t \in Types |-> NoSub] /\ sent'[r] = NoSent
        /\ inbound'[r] = <<>> /\ outbound'[r] = <<>>
    BY <1>2 DEF CloseAll
  <2>2. changes' \in Nat
    BY <1>1 DEF watchVars
  <2>3. NewInv(r)'
    BY <2>1 DEF NewInv, NoSent
  <2>4. ServedInv(r)'
    BY <2>1, <2>2 DEF ServedInv
  <2>5. DropInv(r)' /\ ClearInv(r)'
    BY <2>1, EmptyFacts DEF DropInv, ClearInv
  <2>6. ClientHold(B, L, r)'
    BY <1>2 DEF ClientHold
  <2> QED BY <2>3, <2>4, <2>5, <2>6 DEF TaskHold
<1>3. CASE r \notin S
  <2>1. /\ inbound'[r] = inbound[r] /\ outbound'[r] = outbound[r]
        /\ pc'[r] = pc[r] /\ held'[r] = held[r] /\ todo'[r] = todo[r] /\ seen'[r] = seen[r]
        /\ known'[r] = known[r] /\ subs'[r] = subs[r] /\ sent'[r] = sent[r]
    BY <1>3 DEF CloseAll
  <2>2. TaskHold(r)'
    <3>1. CASE UNCHANGED watchVars
      BY <1>1, <2>1, <3>1, SameTask
    <3>2. CASE changes' \in Nat /\ pc[r] = "unused"
      <4>1. NewInv(r)' /\ DropInv(r)' /\ ClearInv(r)'
        BY <1>1, <2>1 DEF TaskHold, NewInv, DropInv, ClearInv
      <4>2. ServedInv(r)'
        BY <1>1, <2>1, <3>2 DEF TaskHold, ServedInv
      <4> QED BY <4>1, <4>2 DEF TaskHold
    <3> QED BY <1>3, <3>1, <3>2
  <2>3. \A t \in Types, n \in Names : Keeps(r, t, n)
    BY DEF Keeps
  <2>4. ClientHold(B, L, r)'
    BY <1>1, <2>1, <2>3, SameHold
  <2> QED BY <2>2, <2>4
<1> QED BY <1>2, <1>3

LEMMA TaskHolds ==
    ASSUME NEW B, NEW L, DeltaInv(B), HoldInv(B, L), NEW s \in Streams, Task(s),
           UNCHANGED envoyVars
    PROVE  HoldInv(B, L)'
<1>1. ASSUME Close(s), ~up[s] PROVE HoldInv(B, L)'
  <2>1. /\ CloseAll({s}) /\ {s} \in SUBSET Streams
        /\ UNCHANGED <<watchVars, up, wants, asked, has, drops>>
    BY <1>1 DEF Close, envoyVars
  <2> QED BY <1>1, <2>1, CloseHold
<1> QED BY <1>1, NackHold, RequestHold, ChangedHold, NothingHold, DeltaHold
        DEF Task, Send, SendFails, StreamEnds

\* A step of neither side, be it that the advertised snapshot changes.
LEMMA WatchHold ==
    ASSUME NEW B, NEW L, DeltaInv(B), HoldInv(B, L),
           UNCHANGED <<wireVars, taskVars, envoyVars>>,
           changes' = changes + 1 \/ UNCHANGED watchVars
    PROVE  HoldInv(B, L)'
<1> SUFFICES ASSUME NEW r \in Streams PROVE TaskHold(r)' /\ ClientHold(B, L, r)'
  BY DEF HoldInv
<1>1. TaskHold(r) /\ ClientHold(B, L, r) /\ EnvoyTypeOK(B)
      /\ changes \in Nat /\ seen[r] \in Nat
  BY DEF HoldInv, DeltaInv, DeltaTypeOK, StreamTypeOK
<1>2. /\ UNCHANGED <<up, inbound, outbound, pc, held, todo, seen, known, subs, sent>>
      /\ UNCHANGED <<wants, requested, asked, has, drops>>
  BY DEF wireVars, taskVars, envoyVars
<1>3. TaskHold(r)'
  BY <1>1, <1>2, SameTask
<1>4. \A t \in Types, n \in Names : Keeps(r, t, n)
  BY <1>2 DEF Keeps
<1>5. ClientHold(B, L, r)'
  BY <1>1, <1>2, <1>4, SameHold
<1> QED BY <1>3, <1>5

-----------------------------------------------------------------------------
(* The client. *)

\* A new stream finds nothing on its way.
LEMMA ConnectHold ==
    ASSUME NEW B, NEW L, DeltaInv(B), HoldInv(B, L), NEW s \in Streams, Connect(s)
    PROVE  HoldInv(B, L)'
<1>1. /\ UNCHANGED <<watchVars, inbound, outbound, held, todo, known, subs, sent>>
      /\ UNCHANGED <<wants, asked, has, drops>>
      /\ pc[s] = "unused" /\ pc' = [pc EXCEPT ![s] = "select"]
      /\ up' = [up EXCEPT ![s] = TRUE]
      /\ seen' = [seen EXCEPT ![s] = changes]
  BY DEF Connect, Open, envoyVars
<1>2. /\ changes \in Nat /\ seen \in [Streams -> Nat] /\ up \in [Streams -> BOOLEAN]
      /\ pc \in [Streams -> {"unused", "select", "push", "closed"}] /\ EnvoyTypeOK(B)
  BY DEF DeltaInv, DeltaTypeOK, StreamTypeOK
<1>3. ASSUME NEW r \in Streams \ {s} PROVE TaskHold(r)' /\ ClientHold(B, L, r)'
  <2>1. TaskHold(r) /\ ClientHold(B, L, r)
    BY DEF HoldInv
  <2>2. pc'[r] = pc[r] /\ seen'[r] = seen[r] /\ up'[r] = up[r]
    BY <1>1, <1>2
  <2>3. TaskHold(r)'
    BY <1>1, <1>2, <2>1, <2>2, SameTask
  <2>4. \A t \in Types, n \in Names : Keeps(r, t, n)
    BY <1>1 DEF Keeps
  <2>5. ClientHold(B, L, r)'
    BY <1>1, <1>2, <2>1, <2>2, <2>4, SameHold
  <2> QED BY <2>3, <2>5
<1>4. /\ known[s] = {} /\ inbound[s] = <<>> /\ asked[s] = {} /\ todo[s] = {}
      /\ \A i \in 1 .. Len(outbound[s]) : outbound[s][i].type \in known[s]
  <2>1. ~up[s]
    BY <1>1 DEF DeltaInv, ClientInv
  <2> QED BY <1>1, <2>1 DEF DeltaInv, UnusedInv, DownInv, TaskInv
<1>5. TaskHold(s)'
  <2>1. NewInv(s)' /\ DropInv(s)' /\ ClearInv(s)'
    BY <1>1 DEF HoldInv, TaskHold, NewInv, DropInv, ClearInv
  <2>2. ServedInv(s)'
    BY <1>1, <1>2, <1>4 DEF ServedInv, watchVars
  <2> QED BY <2>1, <2>2 DEF TaskHold
<1>6. ClientHold(B, L, s)'
  <2> SUFFICES ASSUME NEW t \in Types
               PROVE  /\ ReportInv(s, t)'
                      /\ \A n \in Names : SettledInv(B, L, s, t, n)' /\ WantedInv(B, s, t, n)'
    BY DEF ClientHold
  <2>1. ReportInv(s, t)'
    BY <1>1, <1>4, EmptyFacts DEF ReportInv
  <2>2. \A n \in Names : SettledInv(B, L, s, t, n)'
    BY <1>1, <1>4 DEF SettledInv
  <2>3. \A n \in Names : WantedInv(B, s, t, n)'
    BY <1>1, <1>4 DEF WantedInv, NoneIn
  <2> QED BY <2>1, <2>2, <2>3
<1> QED BY <1>3, <1>5, <1>6 DEF HoldInv

LEMMA DisconnectHold ==
    ASSUME NEW B, NEW L, DeltaInv(B), HoldInv(B, L), NEW s \in Streams, Disconnect(s)
    PROVE  HoldInv(B, L)'
<1> SUFFICES ASSUME NEW r \in Streams PROVE TaskHold(r)' /\ ClientHold(B, L, r)'
  BY DEF HoldInv
<1>1. /\ UNCHANGED <<watchVars, inbound, outbound>>
      /\ UNCHANGED <<pc, held, todo, seen, known, subs, sent, wants, has, drops>>
      /\ up'[s] = FALSE
      /\ \A x \in Streams \ {s} : up'[x] = up[x] /\ asked'[x] = asked[x]
  BY DEF Disconnect, Cut, ForgetAll, taskVars, DeltaInv, DeltaTypeOK, StreamTypeOK, EnvoyTypeOK
<1>2. TaskHold(r) /\ ClientHold(B, L, r) /\ EnvoyTypeOK(B)
      /\ changes \in Nat /\ seen[r] \in Nat
  BY DEF HoldInv, DeltaInv, DeltaTypeOK, StreamTypeOK
<1>3. TaskHold(r)'
  BY <1>1, <1>2, SameTask
<1>4. \A t \in Types, n \in Names : Keeps(r, t, n)
  BY <1>1 DEF Keeps
<1>5. ClientHold(B, L, r)'
  <2>1. CASE r = s
    BY <1>1, <2>1 DEF ClientHold
  <2>2. CASE r # s
    BY <1>1, <1>2, <1>4, <2>2, SameHold
  <2> QED BY <2>1, <2>2
<1> QED BY <1>3, <1>5

LEMMA InterestHold ==
    ASSUME NEW B, NEW L, DeltaInv(B), HoldInv(B, L), NEW e \in Envoys, NEW t \in Types,
           TakeInterest(e, t)
    PROVE  HoldInv(B, L)'
<1> SUFFICES ASSUME NEW r \in Streams PROVE TaskHold(r)' /\ ClientHold(B, L, r)'
  BY DEF HoldInv
<1>1. /\ UNCHANGED <<watchVars, up, inbound, outbound>>
      /\ UNCHANGED <<pc, held, todo, seen, known, subs, sent>>
      /\ UNCHANGED <<requested, asked, has, drops>>
      /\ wants' = [wants EXCEPT ![e][t] = @ \cup Due(e, t)]
  BY DEF TakeInterest, streamVars, wireVars, taskVars
<1>2. TaskHold(r) /\ ClientHold(B, L, r) /\ EnvoyTypeOK(B)
      /\ changes \in Nat /\ seen[r] \in Nat
  BY DEF HoldInv, DeltaInv, DeltaTypeOK, StreamTypeOK
<1>3. TaskHold(r)'
  BY <1>1, <1>2, SameTask
<1>4. \A u \in Types, n \in Names : Keeps(r, u, n)
  BY <1>1 DEF Keeps
<1>5. \A u \in Types : wants[Owner[r]][u] \subseteq wants'[Owner[r]][u]
  BY <1>1, <1>2, EnvoyAssumption DEF EnvoyTypeOK
<1>6. ClientHold(B, L, r)'
  BY <1>1, <1>2, <1>4, <1>5, SameHold
<1> QED BY <1>3, <1>6

\* A request reports what the client has, if it is the first of its type.
LEMMA SentReport ==
    ASSUME NEW B, DeltaTypeOK(B), NEW s \in Streams, NEW req \in Requests,
           inbound' = [inbound EXCEPT ![s] = Append(inbound[s], req)],
           known'[s] = known[s], NEW t \in Types, ReportInv(s, t),
           t \in known[s] \/ \A n \in Names : Keeps(s, t, n),
           drops # 0 => drops' # 0,
           t \in asked'[s] => t \in asked[s] \/ req.type = t,
           req.type = t =>
              IF t \in known[s] \/ \E i \in 1 .. Len(inbound[s]) : inbound[s][i].type = t
              THEN req.initial = NothingInitial
              ELSE \A n \in Names : HeldBy({}, s, t, n, req.initial[n])'
    PROVE  ReportInv(s, t)'
<1>0. PICK k : k = Len(inbound[s])
  OBVIOUS
<1>1. /\ k \in Nat /\ Len(inbound'[s]) = k + 1
      /\ inbound'[s][k + 1] = req
      /\ \A i \in 1 .. k : inbound'[s][i] = inbound[s][i]
  BY <1>0, RequestSent
<1>2. ASSUME t \in asked'[s], t \notin known[s]
      PROVE  \E i \in 1 .. Len(inbound'[s]) : inbound'[s][i].type = t
  <2>1. CASE req.type = t
    BY <1>1, <2>1
  <2>2. CASE \E i \in 1 .. k : inbound[s][i].type = t
    BY <1>1, <2>2
  <2> QED BY <1>0, <1>2, <2>1, <2>2 DEF ReportInv
<1>3. ASSUME NEW i \in 1 .. k, inbound'[s][i].type = t
      PROVE  IF Later(s, i)' THEN inbound'[s][i].initial = NothingInitial
             ELSE \A n \in Names : HeldBy({}, s, t, n, inbound[s][i].initial[n])'
  <2>1. inbound'[s][i] = inbound[s][i]
    BY <1>1
  <2>2. Later(s, i)' <=> Later(s, i)
    <3>1. \A j \in 1 .. Len(inbound'[s]) : j < i => j \in 1 .. k
      BY <1>1
    <3>2. \A j \in 1 .. k : j \in 1 .. Len(inbound'[s])
      BY <1>1
    <3> QED BY <1>0, <1>1, <1>3, <2>1, <3>1, <3>2 DEF Later
  <2>3. CASE Later(s, i)
    BY <1>0, <1>3, <2>1, <2>2, <2>3 DEF ReportInv
  <2>4. CASE ~Later(s, i)
    <3>1. \A n \in Names : HeldBy({}, s, t, n, inbound[s][i].initial[n])
      BY <1>0, <1>3, <2>1, <2>4 DEF ReportInv
    <3>2. ASSUME NEW n \in Names
          PROVE  HeldBy({}, s, t, n, inbound[s][i].initial[n])'
      <4>1. PICK v : v = inbound[s][i].initial[n]
        OBVIOUS
      <4>2. HeldBy({}, s, t, n, v)
        BY <3>1, <4>1 DEF HeldBy
      <4>3. HeldBy({}, s, t, n, v)'
        <5>1. Keeps(s, t, n)
          BY <1>0, <1>3, <2>1, <2>4 DEF Later
        <5> QED BY <4>2, <5>1, HeldKept
      <4> QED BY <2>1, <4>1, <4>3 DEF HeldBy
    <3> QED BY <2>2, <2>4, <3>2
  <2> QED BY <2>3, <2>4
<1>4. ASSUME req.type = t
      PROVE  IF Later(s, k + 1)' THEN req.initial = NothingInitial
             ELSE \A n \in Names : HeldBy({}, s, t, n, inbound[s][k + 1].initial[n])'
  <2>1. Later(s, k + 1)' => t \in known[s] \/ \E i \in 1 .. k : inbound[s][i].type = t
    <3>1. \A j \in 1 .. Len(inbound'[s]) : j < k + 1 => j \in 1 .. k
      BY <1>1
    <3> QED BY <1>1, <1>4, <3>1 DEF Later
  <2>2. t \in known[s] \/ (\E i \in 1 .. k : inbound[s][i].type = t) => Later(s, k + 1)'
    <3>1. \A j \in 1 .. k : j \in 1 .. Len(inbound'[s]) /\ j < k + 1
      BY <1>1
    <3> QED BY <1>1, <1>4, <3>1 DEF Later
  <2>3. \A n \in Names : HeldBy({}, s, t, n, req.initial[n])' =>
           HeldBy({}, s, t, n, inbound[s][k + 1].initial[n])'
    BY <1>1 DEF HeldBy
  <2> QED BY <1>0, <1>4, <2>1, <2>2, <2>3
<1>5. \A i \in 1 .. Len(inbound'[s]) : i \in 1 .. k \/ i = k + 1
  BY <1>1
<1>6. ASSUME NEW i \in 1 .. Len(inbound'[s]), inbound'[s][i].type = t
      PROVE  IF Later(s, i)' THEN inbound'[s][i].initial = NothingInitial
             ELSE \A n \in Names : HeldBy({}, s, t, n, inbound[s][i].initial[n])'
  <2>1. CASE i \in 1 .. k
    BY <1>3, <1>6, <2>1
  <2>2. CASE i # k + 1
    BY <1>5, <2>1, <2>2
  <2>3. CASE i = k + 1
    <3>1. req.type = t /\ inbound'[s][i] = req
      BY <1>1, <1>6, <2>3
    <3> QED BY <1>4, <2>3, <3>1 DEF Later, HeldBy
  <2> QED BY <2>2, <2>3
<1> QED BY <1>2, <1>6 DEF ReportInv

\* What is left to show of a step that sends a request.
LEMMA SendingHold ==
    ASSUME NEW B, NEW L, DeltaInv(B), HoldInv(B, L), NEW s \in Streams, up[s],
           NEW req \in Requests,
           inbound' = [inbound EXCEPT ![s] = Append(inbound[s], req)],
           UNCHANGED <<watchVars, up, taskVars>>,
           drops' = 0 => drops = 0 /\ req.unsubscribe = {},
           \A r \in Streams \ {s} : outbound'[r] = outbound[r] /\ asked'[r] = asked[r],
           \A i \in 1 .. Len(outbound'[s]) :
              \E j \in 1 .. Len(outbound[s]) : outbound'[s][i] = outbound[s][j],
           \A r \in Streams : Owner[r] # Owner[s] =>
              wants'[Owner[r]] = wants[Owner[r]] /\ has'[Owner[r]] = has[Owner[r]],
           \A t \in Types :
              /\ ReportInv(s, t)'
              /\ \A n \in Names : SettledInv(B, L, s, t, n)' /\ WantedInv(B, s, t, n)'
    PROVE  HoldInv(B, L)'
<1>1. /\ UNCHANGED watchVars /\ UNCHANGED <<up, pc, held, todo, seen, known, subs, sent>>
  BY DEF taskVars
<1>2. DeltaTypeOK(B) /\ EnvoyTypeOK(B) /\ changes \in Nat /\ seen \in [Streams -> Nat]
  BY DEF DeltaInv, DeltaTypeOK, StreamTypeOK
<1>3. /\ \A r \in Streams \ {s} : inbound'[r] = inbound[r]
      /\ \A i \in 1 .. Len(inbound'[s]) :
            \/ i \in 1 .. Len(inbound[s]) /\ inbound'[s][i] = inbound[s][i]
            \/ inbound'[s][i] = req
  BY <1>2, RequestSent
<1>4. TaskHold(s)'
  <2>1. TaskHold(s)
    BY DEF HoldInv
  <2>2. NewInv(s)'
    BY <1>1, <2>1 DEF TaskHold, NewInv
  <2>3. ServedInv(s)'
    BY <1>1, <2>1 DEF TaskHold, ServedInv, watchVars
  <2>4. DropInv(s)'
    BY <1>3, <2>1 DEF TaskHold, DropInv
  <2>5. ClearInv(s)'
    BY <2>1 DEF TaskHold, ClearInv
  <2> QED BY <2>2, <2>3, <2>4, <2>5 DEF TaskHold
<1>5. ClientHold(B, L, s)'
  BY DEF ClientHold
<1>6. ASSUME NEW r \in Streams \ {s} PROVE TaskHold(r)' /\ ClientHold(B, L, r)'
  <2>1. TaskHold(r) /\ ClientHold(B, L, r)
    BY DEF HoldInv
  <2>2. TaskHold(r)'
    BY <1>1, <1>2, <1>3, <2>1, SameTask
  <2>3. up'[r] => wants'[Owner[r]] = wants[Owner[r]] /\ has'[Owner[r]] = has[Owner[r]]
    BY <1>1 DEF DeltaInv, ClientInv
  <2>4. up'[r] => \A t \in Types, n \in Names : Keeps(r, t, n)
    BY <2>3 DEF Keeps
  <2>5. ClientHold(B, L, r)'
    BY <1>1, <1>2, <1>3, <2>1, <2>3, <2>4, SameHold
  <2> QED BY <2>2, <2>5
<1> QED BY <1>4, <1>5, <1>6 DEF HoldInv

LEMMA SubscribeHold ==
    ASSUME NEW B, NEW L, DeltaInv(B), HoldInv(B, L), NEW s \in Streams, NEW t \in Types,
           Subscribe(s, t)
    PROVE  HoldInv(B, L)'
<1>1. PICK e \in Envoys : e = Owner[s]
  BY EnvoyAssumption
<1>2. PICK initial :
         initial = IF t \notin asked[s] THEN VersionsOf(has[e][t]) ELSE NothingInitial
  OBVIOUS
<1>3. PICK names : names = IF t \notin asked[s] /\ wants[e][t] \ requested[s][t] = {Star}
                           THEN {} ELSE wants[e][t] \ requested[s][t]
  OBVIOUS
<1>4. PICK req : req = Subscription(t, initial, names)
  OBVIOUS
<1>5. /\ up[s]
      /\ asked' = [asked EXCEPT ![s] = @ \cup {t}]
      /\ inbound' = [inbound EXCEPT ![s] = Append(inbound[s], req)]
      /\ UNCHANGED <<watchVars, up, outbound, taskVars, known, sent, wants, has, drops>>
  BY <1>1, <1>2, <1>3, <1>4 DEF Subscribe, taskVars
<1>6. DeltaTypeOK(B) /\ EnvoyTypeOK(B) /\ ClientInv(s) /\ ClientHold(B, L, s)
      /\ asked \in [Streams -> SUBSET Types]
  BY DEF DeltaInv, DeltaTypeOK, EnvoyTypeOK, HoldInv
<1>7. req \in Requests
  <2>1. names \subseteq Patterns \cup {Star}
    BY <1>3, <1>6 DEF EnvoyTypeOK
  <2>2. VersionsOf(has[e][t]) \in [Names -> Nat]
    BY <1>6 DEF EnvoyTypeOK, Holding, Entries, VersionsOf
  <2> QED BY <1>2, <1>4, <2>1, <2>2, RequestsTyped
<1>8. req.type = t /\ req.initial = initial /\ req.unsubscribe = {}
  BY <1>4 DEF Subscription
<1>9. ASSUME NEW u \in Types
      PROVE  /\ ReportInv(s, u)'
             /\ \A n \in Names : SettledInv(B, L, s, u, n)' /\ WantedInv(B, s, u, n)'
  <2>1. /\ ReportInv(s, u) /\ AskedInv(s, u)
        /\ \A n \in Names : SettledInv(B, L, s, u, n) /\ WantedInv(B, s, u, n)
    BY <1>5, <1>6, <1>9 DEF ClientHold, ClientInv
  <2>2. \A n \in Names : Keeps(s, u, n)
    BY <1>5 DEF Keeps
  <2>3. \A n \in Names : SettledInv(B, L, s, u, n)' /\ WantedInv(B, s, u, n)'
    BY <1>5, <1>6, <2>1, <2>2, SameSettled
  <2>4. u \in asked'[s] => u \in asked[s] \/ req.type = u
    BY <1>5, <1>6, <1>8
  <2>5. ASSUME req.type = u
        PROVE  IF u \in known[s] \/ \E i \in 1 .. Len(inbound[s]) : inbound[s][i].type = u
               THEN req.initial = NothingInitial
               ELSE \A n \in Names : HeldBy({}, s, u, n, req.initial[n])'
    <3>1. CASE u \in asked[s]
      BY <1>2, <1>8, <2>1, <2>5, <3>1 DEF ReportInv
    <3>2. CASE u \notin asked[s]
      <4>1. ~(u \in known[s] \/ \E i \in 1 .. Len(inbound[s]) : inbound[s][i].type = u)
        BY <2>1, <2>5, <3>2 DEF AskedInv
      <4>2. \A n \in Names : req.initial[n] = Ver(has[e][u][n])
        BY <1>2, <1>8, <2>5, <3>2 DEF VersionsOf, Ver
      <4>3. \A n \in Names : HeldBy({}, s, u, n, req.initial[n])'
        BY <1>1, <1>5, <4>2 DEF HeldBy, Ver
      <4> QED BY <4>1, <4>3
    <3> QED BY <3>1, <3>2
  <2>6. ReportInv(s, u)'
    BY <1>5, <1>6, <1>7, <1>8, <2>1, <2>2, <2>4, <2>5, SentReport
  <2> QED BY <2>3, <2>6
<1>10. \A r \in Streams \ {s} : outbound'[r] = outbound[r] /\ asked'[r] = asked[r]
  BY <1>5, <1>6
<1> QED BY <1>5, <1>7, <1>8, <1>9, <1>10, SendingHold

\* What it gives up, the client no longer has, whatever is said of it.
LEMMA UnsubscribeHold ==
    ASSUME NEW B, NEW L, DeltaInv(B), HoldInv(B, L), NEW s \in Streams, NEW t \in Types,
           NEW p \in Patterns \cup {Star}, Unsubscribe(s, t, p)
    PROVE  HoldInv(B, L)'
<1>1. PICK e \in Envoys : e = Owner[s]
  BY EnvoyAssumption
<1>2. PICK req : req = Unsubscription(t, {p})
  OBVIOUS
<1>3. PICK kept : kept = Meant(wants[e][t] \ {p})
  OBVIOUS
<1>4. DeltaTypeOK(B) /\ EnvoyTypeOK(B) /\ ClientInv(s) /\ ClientHold(B, L, s)
  BY DEF DeltaInv, DeltaTypeOK, HoldInv
<1>5. /\ up[s] /\ p \in requested[s][t]
      /\ drops' = drops + 1
      /\ wants' = [wants EXCEPT ![e][t] = @ \ {p}]
      /\ has' = [has EXCEPT ![e][t] =
                    [n \in Names |-> IF n \in kept THEN has[e][t][n] ELSE Absent]]
      /\ inbound' = [inbound EXCEPT ![s] = Append(inbound[s], req)]
      /\ UNCHANGED <<watchVars, up, outbound, taskVars, known, sent, asked>>
  BY <1>1, <1>2, <1>3, <1>4 DEF Unsubscribe, taskVars, EnvoyTypeOK
<1>6. req \in Requests
  BY <1>2, RequestsTyped
<1>7. req.type = t /\ req.initial = NothingInitial
  BY <1>2 DEF Unsubscription
<1>8. drops' # 0
  BY <1>4, <1>5 DEF EnvoyTypeOK
<1>9. \A u \in Types, n \in Names : Keeps(s, u, n)
  BY <1>1, <1>4, <1>5, <1>8 DEF Keeps, EnvoyTypeOK, Holding
<1>10. ASSUME NEW u \in Types
       PROVE  /\ ReportInv(s, u)'
              /\ \A n \in Names : SettledInv(B, L, s, u, n)' /\ WantedInv(B, s, u, n)'
  <2>1. /\ ReportInv(s, u) /\ AskedInv(s, u)
        /\ \A n \in Names : SettledInv(B, L, s, u, n) /\ WantedInv(B, s, u, n)
    BY <1>4, <1>5, <1>10 DEF ClientHold, ClientInv
  <2>2. \A n \in Names : SettledInv(B, L, s, u, n)' /\ WantedInv(B, s, u, n)'
    BY <1>4, <1>5, <1>8, <1>9, <2>1, SameSettled
  <2>3. u = t => t \in known[s] \/ \E i \in 1 .. Len(inbound[s]) : inbound[s][i].type = t
    BY <1>5, <2>1 DEF AskedInv, ReportInv
  <2>4. ReportInv(s, u)'
    BY <1>4, <1>5, <1>6, <1>7, <1>8, <1>9, <2>1, <2>3, SentReport
  <2> QED BY <2>2, <2>4
<1>11. \A r \in Streams : Owner[r] # Owner[s] =>
          wants'[Owner[r]] = wants[Owner[r]] /\ has'[Owner[r]] = has[Owner[r]]
  BY <1>1, <1>4, <1>5, EnvoyAssumption DEF EnvoyTypeOK
<1> QED BY <1>5, <1>6, <1>8, <1>10, <1>11, SendingHold

\* A response that is accepted leaves the client where it says, but for what
\* the client has given up.
LEMMA AcceptTaken ==
    ASSUME NEW B, NEW L, DeltaInv(B), HoldInv(B, L), NEW s \in Streams, Accept(s),
           NEW u \in Types, NEW n \in Names
    PROVE  /\ Head(outbound[s]) \notin Naming(B, u, n) =>
                 has'[Owner[s]][u][n] = has[Owner[s]][u][n]
           /\ \A v : Head(outbound[s]) \in Leaving(B, u, n, v) => HeldBy({}, s, u, n, v)'
<1>1. PICK e \in Envoys : e = Owner[s]
  BY EnvoyAssumption
<1>2. /\ EnvoyTypeOK(B) /\ TaskHold(s) /\ ClientHold(B, L, s)
      /\ outbound \in [Streams -> Seq(Responses(B))]
  BY DEF DeltaInv, DeltaTypeOK, StreamTypeOK, HoldInv
<1>3. outbound[s] \in Seq(Responses(B)) /\ outbound[s] # <<>> /\ up[s] /\ UNCHANGED drops
  BY <1>2 DEF Accept, Reply
<1>4. PICK resp \in Responses(B) : resp = Head(outbound[s]) /\ resp = outbound[s][1]
  BY <1>3, TailFacts
<1>5. PICK t \in Types : t = resp.type
  BY DEF Responses
<1>6. 1 \in 1 .. Len(outbound[s])
  <2>1. Len(outbound[s]) \in Nat \ {0}
    BY <1>3, TailFacts
  <2> QED BY <2>1
<1>7. PICK now : now = [m \in Names |->
         IF m \in resp.removed THEN Absent
         ELSE IF resp.resources[m] = Absent THEN has[e][t][m]
         ELSE IF m \in Meant(wants[e][t]) THEN resp.resources[m] ELSE Absent]
  OBVIOUS
<1>8. has' = [has EXCEPT ![e][t] = now]
  BY <1>1, <1>4, <1>5, <1>7 DEF Accept
<1>9. has'[e][t] = now /\ (u # t => has'[e][u] = has[e][u])
  BY <1>2, <1>8 DEF EnvoyTypeOK, Holding
<1>10. n \in resp.removed => resp.resources[n] = Absent
  BY <1>2, <1>4, <1>6 DEF TaskHold, ClearInv
<1>11. resp \in Naming(B, t, n) => drops # 0 \/ n \in Meant(wants[e][t])
  <2>1. WantedInv(B, s, t, n)
    BY <1>2, <1>3 DEF ClientHold
  <2>2. ~NoneIn(outbound[s], Naming(B, t, n)) \/ resp \notin Naming(B, t, n)
    BY <1>4, <1>6 DEF NoneIn
  <2> QED BY <1>1, <2>1, <2>2 DEF WantedInv
<1>12. CASE u # t
  BY <1>1, <1>4, <1>5, <1>9, <1>12 DEF Naming, Leaving
<1>13. CASE u = t
  <2>1. resp \notin Naming(B, t, n) => now[n] = has[e][t][n]
    BY <1>5, <1>7 DEF Naming
  <2>2. ASSUME NEW v, resp \in Leaving(B, t, n, v)
        PROVE  Ver(now[n]) = v \/ (drops # 0 /\ now[n] = Absent)
    BY <1>7, <1>10, <1>11, <2>2 DEF Leaving, Naming, Ver
  <2>3. \A v : (Ver(now[n]) = v \/ (drops # 0 /\ now[n] = Absent)) =>
                   HeldBy({}, s, t, n, v)'
    BY <1>1, <1>3, <1>9 DEF HeldBy
  <2> QED BY <1>1, <1>4, <1>9, <1>13, <2>1, <2>2, <2>3
<1> QED BY <1>12, <1>13

\* One that is refused had better be in L.
LEMMA ReplyHold ==
    ASSUME NEW B, NEW L, DeltaInv(B), HoldInv(B, L), NEW s \in Streams,
           \/ Accept(s)
           \/ /\ Reject(s)
              /\ \A t \in Types, n \in Names : Head(outbound[s]) \in Naming(B, t, n) =>
                    <<t, Ver(Head(outbound[s]).resources[n])>> \in L
    PROVE  HoldInv(B, L)'
<1>1. PICK e \in Envoys : e = Owner[s]
  BY EnvoyAssumption
<1>2. /\ DeltaTypeOK(B) /\ EnvoyTypeOK(B) /\ ClientInv(s) /\ TaskInv(s)
      /\ TaskHold(s) /\ ClientHold(B, L, s)
      /\ outbound \in [Streams -> Seq(Responses(B))]
  BY DEF DeltaInv, DeltaTypeOK, StreamTypeOK, HoldInv
<1>3. outbound[s] \in Seq(Responses(B)) /\ outbound[s] # <<>>
  BY <1>2 DEF Accept, Reject, Reply
<1>4. PICK resp \in Responses(B) : resp = Head(outbound[s]) /\ resp = outbound[s][1]
  BY <1>3, TailFacts
<1>5. PICK t \in Types : t = resp.type
  BY DEF Responses
<1>6. 1 \in 1 .. Len(outbound[s]) /\ t \in known[s]
  <2>1. Len(outbound[s]) \in Nat \ {0}
    BY <1>3, TailFacts
  <2> QED BY <1>2, <1>4, <1>5, <2>1 DEF TaskInv
<1>7. PICK req \in {Ack(t), Nack(t)} : Reply(s, req)
  BY <1>4, <1>5 DEF Accept, Reject
<1>8. /\ req \in Requests /\ req.type = t
      /\ req.initial = NothingInitial /\ req.unsubscribe = {}
  BY <1>7, RequestsTyped DEF Ack, Nack, Subscription
<1>9. /\ up[s]
      /\ outbound' = [outbound EXCEPT ![s] = Tail(outbound[s])]
      /\ inbound' = [inbound EXCEPT ![s] = Append(inbound[s], req)]
      /\ UNCHANGED <<watchVars, up, taskVars, known, sent>>
      /\ UNCHANGED <<wants, requested, asked, drops>>
  BY <1>7 DEF Reply, taskVars
<1>10. /\ outbound'[s] = Tail(outbound[s])
       /\ \A i \in 1 .. Len(outbound'[s]) :
             \E j \in 1 .. Len(outbound[s]) : outbound'[s][i] = outbound[s][j]
       /\ \A r \in Streams \ {s} : outbound'[r] = outbound[r]
  <2>1. /\ outbound'[s] = Tail(outbound[s])
        /\ \A r \in Streams \ {s} : outbound'[r] = outbound[r]
    BY <1>2, <1>9
  <2>2. Len(outbound[s]) \in Nat
        /\ \A i \in 1 .. Len(Tail(outbound[s])) :
              Tail(outbound[s])[i] = outbound[s][i + 1] /\ i + 1 \in 2 .. Len(outbound[s])
    BY <1>3, TailFacts
  <2>3. \A i \in 1 .. Len(Tail(outbound[s])) : i + 1 \in 1 .. Len(outbound[s])
    BY <2>2
  <2> QED BY <2>1, <2>2, <2>3
<1>11. \A r \in Streams : Owner[r] # Owner[s] => has'[Owner[r]] = has[Owner[r]]
  BY <1>2, EnvoyAssumption DEF Accept, Reject, EnvoyTypeOK
<1>12. ASSUME NEW u \in Types, NEW n \in Names
       PROVE  /\ resp \notin Naming(B, u, n) => has'[e][u][n] = has[e][u][n]
              /\ \A v : resp \in Leaving(B, u, n, v) => HeldBy(L, s, u, n, v)'
  <2>1. CASE Accept(s)
    BY <1>1, <1>4, <2>1, AcceptTaken DEF HeldBy
  <2>2. CASE ~Accept(s)
    BY <1>4, <2>2 DEF Reject, Leaving, HeldBy
  <2> QED BY <2>1, <2>2
<1>13. ASSUME NEW u \in Types
       PROVE  /\ ReportInv(s, u)'
              /\ \A n \in Names : SettledInv(B, L, s, u, n)' /\ WantedInv(B, s, u, n)'
  <2>1. /\ ReportInv(s, u) /\ AskedInv(s, u)
        /\ \A n \in Names : SettledInv(B, L, s, u, n) /\ WantedInv(B, s, u, n)
    BY <1>2, <1>9, <1>13 DEF ClientHold, ClientInv
  <2>2. ReportInv(s, u)'
    <3>1. req.type = u => u \in known[s]
      BY <1>6, <1>8
    <3>2. u \in known[s] \/ \A n \in Names : Keeps(s, u, n)
      BY <1>1, <1>5, <1>6, <1>12 DEF Keeps, Naming
    <3> QED BY <1>2, <1>8, <1>9, <2>1, <3>1, <3>2, SentReport
  <2>3. ASSUME NEW n \in Names PROVE SettledInv(B, L, s, u, n)' /\ WantedInv(B, s, u, n)'
    <3>1. /\ SettledInv(B, L, s, u, n) /\ WantedInv(B, s, u, n)
          /\ resp \notin Naming(B, u, n) => has'[e][u][n] = has[e][u][n]
          /\ \A v : resp \in Leaving(B, u, n, v) => HeldBy(L, s, u, n, v)'
      BY <1>12, <2>1, <2>3
    <3>2. \A A, M :
             /\ NoneIn(outbound[s], M) => NoneIn(outbound'[s], M) /\ resp \notin M
             /\ LastIn(outbound[s], A, M) =>
                   LastIn(outbound'[s], A, M) \/ (NoneIn(outbound'[s], M) /\ resp \in A)
      BY <1>3, <1>4, <1>10, TailLastIn
    <3>3. WantedInv(B, s, u, n)'
      BY <1>9, <3>1, <3>2 DEF WantedInv, Meant
    <3>4. SettledInv(B, L, s, u, n)'
      <4>1. PICK v : v = sent[s][u][n] /\ v = sent'[s][u][n]
        BY <1>9
      <4>2. resp \notin Naming(B, u, n) /\ HeldBy(L, s, u, n, v) => HeldBy(L, s, u, n, v)'
        BY <1>1, <1>9, <3>1 DEF HeldBy
      <4>3. resp \in Leaving(B, u, n, v) => HeldBy(L, s, u, n, v)'
        BY <3>1
      <4>4. u \in known[s] =>
               \/ LastIn(outbound[s], Leaving(B, u, n, v), Naming(B, u, n))
               \/ NoneIn(outbound[s], Naming(B, u, n)) /\ HeldBy(L, s, u, n, v)
        BY <3>1, <4>1 DEF SettledInv
      <4>5. u \in known'[s] =>
               \/ LastIn(outbound'[s], Leaving(B, u, n, v), Naming(B, u, n))
               \/ NoneIn(outbound'[s], Naming(B, u, n)) /\ HeldBy(L, s, u, n, v)'
        BY <1>9, <3>2, <4>2, <4>3, <4>4
      <4> QED BY <4>1, <4>5 DEF SettledInv, HeldBy, Leaving, Naming
    <3> QED BY <3>3, <3>4
  <2> QED BY <2>2, <2>3
<1> QED BY <1>8, <1>9, <1>10, <1>11, <1>13, SendingHold

\* A quiet client has what is advertised of all that it asked for.
LEMMA QuietHold ==
    ASSUME NEW B, NEW L, DeltaInv(B), HoldInv(B, L), NEW s \in Streams, Quiet(s),
           NEW t \in Types, NEW n \in Meant(requested[s][t] \cap wants[Owner[s]][t])
    PROVE  n \in Names /\ HeldBy(L, s, t, n, Ver(advertised[t][n]))
<1>1. /\ up[s] /\ pc[s] = "select" /\ seen[s] = changes
      /\ outbound[s] = <<>>
  BY DEF Quiet
<1>2. requested[s][t] \subseteq Patterns \cup {Star}
  BY DEF DeltaInv, DeltaTypeOK, EnvoyTypeOK
<1>3. n \in Meant(requested[s][t]) /\ n \in Names
  <2>1. Meant(requested[s][t] \cap wants[Owner[s]][t]) \subseteq Meant(requested[s][t])
    BY <1>2, MeantGrows
  <2> QED BY <1>2, <2>1, DeltaAssumption DEF Meant
<1>4. Matches(subs[s][t], n)
  BY <1>3, DeltaAgrees DEF SubscriptionAgrees
<1>5. TaskHold(s) /\ SettledInv(B, L, s, t, n)
  BY <1>1, <1>3 DEF HoldInv, ClientHold
<1>6. t \in known[s]
  BY <1>4, <1>5 DEF TaskHold, NewInv, NoSub, Matches
<1>7. sent[s][t][n] = Ver(advertised[t][n])
  BY <1>1, <1>3, <1>4, <1>5, <1>6 DEF TaskHold, ServedInv
<1>8. HeldBy(L, s, t, n, sent[s][t][n])
  BY <1>1, <1>5, <1>6, EmptyFacts DEF SettledInv, LastIn
<1> QED BY <1>3, <1>7, <1>8

\* Responses name nothing but what the client wants.
LEMMA WantedOnly == ASSUME NEW B, NEW L, DeltaInv(B), HoldInv(B, L) PROVE NothingUnwanted
<1> SUFFICES ASSUME NEW s \in Streams, up[s], drops = 0,
                    NEW resp \in Range(outbound[s]), NEW n \in Names,
                    resp.resources[n] # Absent \/ n \in resp.removed
             PROVE  n \in Meant(wants[Owner[s]][resp.type])
  BY DEF NothingUnwanted
<1>1. outbound[s] \in Seq(Responses(B))
  BY DEF DeltaInv, DeltaTypeOK, StreamTypeOK
<1>2. PICK i \in 1 .. Len(outbound[s]) : resp = outbound[s][i] /\ resp \in Responses(B)
  BY <1>1, LenProperties DEF Range
<1>3. PICK t \in Types : t = resp.type
  BY <1>2 DEF Responses
<1>4. WantedInv(B, s, t, n)
  BY DEF HoldInv, ClientHold
<1>5. resp \in Naming(B, t, n)
  BY <1>2, <1>3 DEF Naming
<1> QED BY <1>2, <1>3, <1>4, <1>5 DEF WantedInv, NoneIn

-----------------------------------------------------------------------------
(* What entries there are of a name. *)

\* The control plane offers none but A[t][n], a client has none but C[t][n].
OffersIn(A) ==
    /\ \A t \in Types, n \in Names : advertised[t][n] \in A[t][n] \cup {Absent}
    /\ \A s \in Streams : pc[s] = "push" =>
          \A t \in Types, n \in Names : held[s][t][n] \in A[t][n] \cup {Absent}
    /\ \A s \in Streams : \A i \in 1 .. Len(outbound[s]) : \A n \in Names :
          outbound[s][i].resources[n] \in A[outbound[s][i].type][n] \cup {Absent}

HoldsIn(C) ==
    \A e \in Envoys, t \in Types, n \in Names : has[e][t][n] \in C[t][n] \cup {Absent}

EntriesIn(A, C) ==
    /\ \A t \in Types, n \in Names : A[t][n] \subseteq C[t][n]
    /\ OffersIn(A) /\ HoldsIn(C)

LEMMA TaskOffers ==
    ASSUME NEW A, NEW B, DeltaInv(B), OffersIn(A), NEW s \in Streams, Task(s)
    PROVE  OffersIn(A)'
<1>1. UNCHANGED <<watchVars, up>> /\ Apart(s)
  BY TaskApart DEF DeltaInv
<1>2. ASSUME pc'[s] = "push", NEW t \in Types, NEW n \in Names
      PROVE  held'[s][t][n] \in A[t][n] \cup {Absent}
  <2>1. held'[s] = advertised \/ (held'[s] = held[s] /\ pc[s] = "push")
    BY <1>2 DEF Task, ReceiveNack, Take, ReceiveRequest, WatchChanged, Send, SendNothing,
                SendDelta, SendFails, StreamEnds, Close, CloseAll, Visit,
                DeltaInv, DeltaTypeOK, StreamTypeOK
  <2> QED BY <2>1 DEF OffersIn
<1>3. ASSUME NEW i \in 1 .. Len(outbound'[s]), NEW n \in Names
      PROVE  outbound'[s][i].resources[n] \in A[outbound'[s][i].type][n] \cup {Absent}
  <2>1. CASE outbound'[s] = outbound[s]
    BY <1>3, <2>1 DEF OffersIn
  <2>2. CASE outbound'[s] = <<>>
    BY <1>3, <2>2, EmptyFacts
  <2>3. ASSUME NEW t \in Types, SendDelta(s, t)
        PROVE  outbound'[s][i].resources[n] \in A[outbound'[s][i].type][n] \cup {Absent}
    <3>1. PICK resp \in Responses(B) :
             /\ outbound' = [outbound EXCEPT ![s] = Append(outbound[s], resp)]
             /\ resp.type = t
             /\ resp.resources[n] \in {held[s][t][n], Absent}
      BY <2>3, SentResponse
    <3>2. outbound[s] \in Seq(Responses(B)) /\ outbound'[s] = Append(outbound[s], resp)
      BY <3>1 DEF DeltaInv, DeltaTypeOK, StreamTypeOK
    <3>3. \/ i \in 1 .. Len(outbound[s]) /\ outbound'[s][i] = outbound[s][i]
          \/ outbound'[s][i] = resp
      BY <1>3, <3>2, AppendFacts
    <3>4. pc[s] = "push"
      BY <2>3 DEF SendDelta
    <3> QED BY <3>1, <3>3, <3>4 DEF OffersIn
  <2>4. \/ outbound'[s] = outbound[s]
        \/ outbound'[s] = <<>>
        \/ \E t \in Types : SendDelta(s, t)
    BY DEF Task, ReceiveNack, Take, ReceiveRequest, WatchChanged, Send, SendNothing,
           SendFails, StreamEnds, Close, CloseAll, wireVars
  <2> QED BY <2>1, <2>2, <2>3, <2>4
<1> QED BY <1>1, <1>2, <1>3 DEF OffersIn, Apart, watchVars

\* Who unsubscribes comes by nothing.
LEMMA GivenUp ==
    ASSUME NEW B, EnvoyTypeOK(B), NEW s \in Streams, NEW t \in Types,
           NEW p \in Patterns \cup {Star}, Unsubscribe(s, t, p)
    PROVE  \A e \in Envoys, u \in Types, n \in Names :
              has'[e][u][n] \in {has[e][u][n], Absent}
<1>1. PICK e \in Envoys : e = Owner[s]
  BY EnvoyAssumption
<1>2. PICK kept : kept = Meant(wants[e][t] \ {p})
  OBVIOUS
<1>3. PICK now : now = [n \in Names |-> IF n \in kept THEN has[e][t][n] ELSE Absent]
  OBVIOUS
<1>4. has' = [has EXCEPT ![e][t] = now]
  BY <1>1, <1>2, <1>3 DEF Unsubscribe, EnvoyTypeOK
<1>5. \A n \in Names : now[n] \in {has[e][t][n], Absent}
  BY <1>3
<1> QED BY <1>4, <1>5 DEF EnvoyTypeOK, Holding

\* A client comes by nothing but what it is offered.
LEMMA ClientEntries ==
    ASSUME NEW A, NEW C, NEW B, DeltaInv(B), EntriesIn(A, C), NEW s \in Streams,
           \/ Client(s)
           \/ Connect(s)
           \/ Disconnect(s)
           \/ \E t \in Types, p \in Patterns \cup {Star} : Unsubscribe(s, t, p)
    PROVE  EntriesIn(A, C)'
<1>1. OffersIn(A) /\ HoldsIn(C)
  BY DEF EntriesIn
<1>2. outbound \in [Streams -> Seq(Responses(B))] /\ EnvoyTypeOK(B)
      /\ pc \in [Streams -> {"unused", "select", "push", "closed"}]
  BY DEF DeltaInv, DeltaTypeOK, StreamTypeOK
<1>3. CASE Connect(s)
  <2>1. UNCHANGED <<advertised, held, outbound, has>> /\ pc' = [pc EXCEPT ![s] = "select"]
    BY <1>3 DEF Connect, Open, watchVars, envoyVars
  <2> QED BY <1>1, <1>2, <2>1 DEF EntriesIn, OffersIn, HoldsIn
<1>4. CASE Disconnect(s)
  <2>1. UNCHANGED <<advertised, pc, held, outbound, has>>
    BY <1>4 DEF Disconnect, Cut, ForgetAll, watchVars, taskVars
  <2> QED BY <1>1, <2>1 DEF EntriesIn, OffersIn, HoldsIn
<1>5. ASSUME NEW t \in Types, Subscribe(s, t) PROVE EntriesIn(A, C)'
  <2>1. UNCHANGED <<advertised, pc, held, outbound, has>>
    BY <1>5 DEF Subscribe, watchVars, taskVars
  <2> QED BY <1>1, <2>1 DEF EntriesIn, OffersIn, HoldsIn
<1>6. ASSUME NEW t \in Types, NEW p \in Patterns \cup {Star}, Unsubscribe(s, t, p)
      PROVE  EntriesIn(A, C)'
  <2>1. UNCHANGED <<advertised, pc, held, outbound>>
        /\ \A e \in Envoys, u \in Types, n \in Names :
              has'[e][u][n] \in {has[e][u][n], Absent}
    <3>1. UNCHANGED <<advertised, pc, held, outbound>>
      BY <1>6 DEF Unsubscribe, watchVars, taskVars
    <3> QED BY <1>2, <1>6, <3>1, GivenUp
  <2> QED BY <1>1, <2>1 DEF EntriesIn, OffersIn, HoldsIn
<1>7. CASE Accept(s) \/ Reject(s)
  <2>1. PICK resp \in Responses(B) : resp = Head(outbound[s])
        /\ \A n \in Names : resp.resources[n] \in A[resp.type][n] \cup {Absent}
    <3>1. outbound[s] \in Seq(Responses(B)) /\ outbound[s] # <<>>
      BY <1>2, <1>7 DEF Accept, Reject, Reply
    <3>2. /\ Head(outbound[s]) = outbound[s][1] /\ Head(outbound[s]) \in Responses(B)
          /\ Len(outbound[s]) \in Nat \ {0}
      BY <3>1, TailFacts
    <3>3. 1 \in 1 .. Len(outbound[s])
      BY <3>2
    <3> QED BY <1>1, <3>2, <3>3 DEF OffersIn
  <2>2. /\ UNCHANGED <<advertised, pc, held>>
        /\ outbound' = [outbound EXCEPT ![s] = Tail(outbound[s])]
        /\ outbound[s] # <<>>
    BY <1>7 DEF Accept, Reject, Reply, watchVars, taskVars
  <2>3. OffersIn(A)'
    <3>1. \A r \in Streams : \A i \in 1 .. Len(outbound'[r]) :
             \E j \in 1 .. Len(outbound[r]) : outbound'[r][i] = outbound[r][j]
      <4> SUFFICES ASSUME NEW i \in 1 .. Len(outbound'[s])
                   PROVE  \E j \in 1 .. Len(outbound[s]) : outbound'[s][i] = outbound[s][j]
        BY <1>2, <2>2
      <4>1. /\ outbound'[s] = Tail(outbound[s]) /\ Len(outbound[s]) \in Nat
            /\ Tail(outbound[s])[i] = outbound[s][i + 1] /\ i + 1 \in 2 .. Len(outbound[s])
        BY <1>2, <2>2, TailFacts
      <4> QED BY <4>1
    <3> QED BY <1>1, <2>2, <3>1 DEF OffersIn
  <2>4. \A e \in Envoys, u \in Types, n \in Names :
           has'[e][u][n] \in {has[e][u][n], Absent} \cup (IF u = resp.type
                                                           THEN {resp.resources[n]} ELSE {})
    <3>1. CASE Reject(s)
      BY <3>1 DEF Reject
    <3>2. CASE Accept(s)
      <4>1. Owner[s] \in Envoys /\ resp.type \in Types
        BY EnvoyAssumption DEF Responses
      <4>2. PICK now : now = [m \in Names |->
               IF m \in resp.removed THEN Absent
               ELSE IF resp.resources[m] = Absent THEN has[Owner[s]][resp.type][m]
               ELSE IF m \in Meant(wants[Owner[s]][resp.type]) THEN resp.resources[m]
               ELSE Absent]
        OBVIOUS
      <4>3. has' = [has EXCEPT ![Owner[s]][resp.type] = now]
        BY <2>1, <3>2, <4>2 DEF Accept
      <4>4. \A n \in Names :
               now[n] \in {has[Owner[s]][resp.type][n], Absent, resp.resources[n]}
        BY <4>2
      <4> QED BY <1>2, <4>1, <4>3, <4>4 DEF EnvoyTypeOK, Holding
    <3> QED BY <1>7, <3>1, <3>2
  <2>5. ASSUME NEW e \in Envoys, NEW u \in Types, NEW n \in Names
        PROVE  has'[e][u][n] \in C[u][n] \cup {Absent}
    <3>1. has[e][u][n] \in C[u][n] \cup {Absent} /\ A[u][n] \subseteq C[u][n]
      BY <1>1 DEF EntriesIn, HoldsIn
    <3>2. u = resp.type => resp.resources[n] \in A[u][n] \cup {Absent}
      BY <2>1
    <3> QED BY <2>4, <3>1, <3>2
  <2> QED BY <2>3, <2>5 DEF EntriesIn, HoldsIn
<1> QED BY <1>3, <1>4, <1>5, <1>6, <1>7 DEF Client

-----------------------------------------------------------------------------
(* Nothing twice. *)

\* Positions i and j of q are in M, and none between them is; i is the first.
Adjacent(q, M, i, j) ==
    i < j /\ q[i] \in M /\ q[j] \in M /\ \A k \in 1 .. Len(q) : i < k /\ k < j => q[k] \notin M

FirstOf(q, M, i) == q[i] \in M /\ \A k \in 1 .. Len(q) : k < i => q[k] \notin M

\* Each response that names n leaves it at another version than the one before
\* does, and than the client has.
NewsInv(B, s, t, n) ==
    /\ \A i, j \in 1 .. Len(outbound[s]) : Adjacent(outbound[s], Naming(B, t, n), i, j) =>
          Ver(outbound[s][i].resources[n]) # Ver(outbound[s][j].resources[n])
    /\ \A i \in 1 .. Len(outbound[s]) : FirstOf(outbound[s], Naming(B, t, n), i) =>
          \/ has[Owner[s]][t][n] = Absent
          \/ Ver(has[Owner[s]][t][n]) # Ver(outbound[s][i].resources[n])

News(B) == \A s \in Streams : up[s] => \A t \in Types, n \in Names : NewsInv(B, s, t, n)

LEMMA AppendNews ==
    ASSUME NEW q, NEW x, NEW M, NEW r,
           Len(q) \in Nat, Len(r) = Len(q) + 1, r[Len(q) + 1] = x,
           \A i \in 1 .. Len(q) : r[i] = q[i]
    PROVE  /\ \A i, j \in 1 .. Len(r) : Adjacent(r, M, i, j) =>
                 \/ /\ i \in 1 .. Len(q) /\ j \in 1 .. Len(q) /\ Adjacent(q, M, i, j)
                    /\ r[i] = q[i] /\ r[j] = q[j]
                 \/ /\ r[j] = x /\ x \in M /\ i \in 1 .. Len(q) /\ r[i] = q[i]
                    /\ q[i] \in M /\ \A k \in 1 .. Len(q) : i < k => q[k] \notin M
           /\ \A i \in 1 .. Len(r) : FirstOf(r, M, i) =>
                 \/ i \in 1 .. Len(q) /\ FirstOf(q, M, i) /\ r[i] = q[i]
                 \/ r[i] = x /\ x \in M /\ NoneIn(q, M)
<1>2. ASSUME NEW i \in 1 .. Len(r), NEW j \in 1 .. Len(r), Adjacent(r, M, i, j)
      PROVE  \/ /\ i \in 1 .. Len(q) /\ j \in 1 .. Len(q) /\ Adjacent(q, M, i, j)
                /\ r[i] = q[i] /\ r[j] = q[j]
             \/ /\ r[j] = x /\ x \in M /\ i \in 1 .. Len(q) /\ r[i] = q[i]
                /\ q[i] \in M /\ \A k \in 1 .. Len(q) : i < k => q[k] \notin M
  <2>1. /\ i < j /\ r[i] \in M /\ r[j] \in M /\ i \in 1 .. Len(q)
        /\ \A k \in 1 .. Len(q) : i < k /\ k < j => q[k] \notin M
    BY <1>2 DEF Adjacent
  <2>2. CASE j \in 1 .. Len(q)
    BY <2>1, <2>2 DEF Adjacent
  <2>3. CASE j = Len(q) + 1
    <3>1. \A k \in 1 .. Len(q) : k < j
      BY <2>3
    <3> QED BY <2>1, <2>3, <3>1
  <2> QED BY <2>2, <2>3
<1>3. ASSUME NEW i \in 1 .. Len(r), FirstOf(r, M, i)
      PROVE  \/ i \in 1 .. Len(q) /\ FirstOf(q, M, i) /\ r[i] = q[i]
             \/ r[i] = x /\ x \in M /\ NoneIn(q, M)
  <2>1. r[i] \in M /\ \A k \in 1 .. Len(q) : k < i => q[k] \notin M
    BY <1>3 DEF FirstOf
  <2>2. CASE i \in 1 .. Len(q)
    BY <2>1, <2>2 DEF FirstOf
  <2>3. CASE i = Len(q) + 1
    <3>1. \A k \in 1 .. Len(q) : k < i
      BY <2>3
    <3> QED BY <2>1, <2>3, <3>1 DEF NoneIn
  <2> QED BY <2>2, <2>3
<1> QED BY <1>2, <1>3

LEMMA TailNews ==
    ASSUME NEW q, NEW M, NEW r,
           Len(q) \in Nat \ {0}, Len(r) = Len(q) - 1,
           \A i \in 1 .. Len(r) : r[i] = q[i + 1]
    PROVE  /\ \A i \in 1 .. Len(r) : i + 1 \in 1 .. Len(q) /\ r[i] = q[i + 1]
           /\ 1 \in 1 .. Len(q)
           /\ \A i, j \in 1 .. Len(r) :
                 Adjacent(r, M, i, j) => Adjacent(q, M, i + 1, j + 1)
           /\ \A i \in 1 .. Len(r) : FirstOf(r, M, i) =>
                 IF q[1] \in M THEN Adjacent(q, M, 1, i + 1) ELSE FirstOf(q, M, i + 1)
<1>1. \A i \in 1 .. Len(r) : r[i] = q[i + 1] /\ i + 1 \in 2 .. Len(q)
  OBVIOUS
<1>2. \A k \in 1 .. Len(q) : k = 1 \/ (k - 1 \in 1 .. Len(r) /\ q[k] = r[k - 1])
  BY <1>1
<1>3. ASSUME NEW i \in 1 .. Len(r), NEW j \in 1 .. Len(r), Adjacent(r, M, i, j)
      PROVE  Adjacent(q, M, i + 1, j + 1)
  <2>1. i < j /\ r[i] \in M /\ r[j] \in M
    BY <1>3 DEF Adjacent
  <2>2. ASSUME NEW k \in 1 .. Len(q), i + 1 < k, k < j + 1 PROVE q[k] \notin M
    <3>1. k - 1 \in 1 .. Len(r) /\ q[k] = r[k - 1] /\ i < k - 1 /\ k - 1 < j
      BY <1>2, <2>2
    <3> QED BY <1>3, <3>1 DEF Adjacent
  <2>3. i + 1 < j + 1 /\ q[i + 1] \in M /\ q[j + 1] \in M
    BY <1>1, <2>1
  <2> QED BY <2>2, <2>3 DEF Adjacent
<1>4. ASSUME NEW i \in 1 .. Len(r), FirstOf(r, M, i)
      PROVE  IF q[1] \in M THEN Adjacent(q, M, 1, i + 1) ELSE FirstOf(q, M, i + 1)
  <2>1. ASSUME NEW k \in 1 .. Len(q), k # 1, k < i + 1 PROVE q[k] \notin M
    <3>1. k - 1 \in 1 .. Len(r) /\ q[k] = r[k - 1] /\ k - 1 < i
      BY <1>2, <2>1
    <3> QED BY <1>4, <3>1 DEF FirstOf
  <2>2. q[i + 1] \in M /\ 1 < i + 1
    BY <1>1, <1>4 DEF FirstOf
  <2>3. \A k \in 1 .. Len(q) : 1 < k => k # 1
    OBVIOUS
  <2> QED BY <1>1, <2>1, <2>2, <2>3 DEF Adjacent, FirstOf
<1>5. \A i \in 1 .. Len(r) : i + 1 \in 1 .. Len(q) /\ r[i] = q[i + 1]
  BY <1>1
<1> QED BY <1>1, <1>3, <1>4, <1>5

\* A client that is sent nothing and takes nothing, be it that it gives some up.
LEMMA SameNews ==
    ASSUME NEW B, NEW s \in Streams, NEW t \in Types, NEW n \in Names, NewsInv(B, s, t, n),
           outbound'[s] = outbound[s],
           has'[Owner[s]][t][n] \in {has[Owner[s]][t][n], Absent}
    PROVE  NewsInv(B, s, t, n)'
BY DEF NewsInv, Adjacent, FirstOf, Naming, Ver

LEMMA TaskNews ==
    ASSUME NEW B, DeltaInv(B), HoldInv(B, {}), News(B), NEW s \in Streams, Task(s),
           UNCHANGED envoyVars
    PROVE  News(B)'
<1> SUFFICES ASSUME NEW r \in Streams, up'[r], NEW u \in Types, NEW n \in Names
             PROVE  NewsInv(B, r, u, n)'
  BY DEF News
<1>1. UNCHANGED <<watchVars, up>> /\ Apart(s)
  BY TaskApart DEF DeltaInv
<1>2. UNCHANGED <<has, drops>>
  BY DEF envoyVars
<1>3. NewsInv(B, r, u, n)
  BY <1>1 DEF News
<1>4. CASE outbound'[r] = outbound[r]
  BY <1>2, <1>3, <1>4, SameNews
<1>5. CASE outbound'[r] = <<>>
  BY <1>5, EmptyFacts DEF NewsInv
<1>6. ASSUME r = s, NEW t \in Types, SendDelta(s, t) PROVE NewsInv(B, s, u, n)'
  <2>1. PICK resp \in Responses(B) :
              /\ outbound' = [outbound EXCEPT ![s] = Append(outbound[s], resp)]
              /\ resp.type = t
              /\ \A m \in Names :
                    /\ resp \in Naming(B, t, m) =>
                          /\ resp \in Leaving(B, t, m, SentNow(s, t)[m])
                          /\ SentNow(s, t)[m] # sent[s][t][m]
    <3>1. PICK one \in Responses(B) :
              /\ outbound' = [outbound EXCEPT ![s] = Append(outbound[s], one)]
              /\ sent'[s] = [sent[s] EXCEPT ![t] = SentNow(s, t)]
              /\ one.type = t
              /\ \A m \in Names :
                    /\ one.resources[m] \in {held[s][t][m], Absent}
                    /\ m \in one.removed => one.resources[m] = Absent
                    /\ one \in Naming(B, t, m) =>
                          /\ Matches(subs[s][t], m)
                          /\ one \in Leaving(B, t, m, SentNow(s, t)[m])
                          /\ SentNow(s, t)[m] # sent[s][t][m]
                    /\ one \notin Naming(B, t, m) => SentNow(s, t)[m] = sent[s][t][m]
      BY <1>6, SentResponse
    <3> QED BY <3>1
  <2>2. PICK q \in Seq(Responses(B)) : q = outbound[s] /\ outbound'[s] = Append(q, resp)
    BY <2>1 DEF DeltaInv, DeltaTypeOK, StreamTypeOK
  <2>3. PICK M : M = Naming(B, u, n)
    OBVIOUS
  <2>4. PICK p : p = outbound'[s]
    OBVIOUS
  <2>5. ASSUME resp \in M
        PROVE  /\ u = t /\ Ver(resp.resources[n]) # sent[s][u][n]
               /\ \/ LastIn(q, Leaving(B, u, n, sent[s][u][n]), M)
                  \/ NoneIn(q, M) /\ HeldBy({}, s, u, n, sent[s][u][n])
    <3>1. u = t /\ Ver(resp.resources[n]) # sent[s][u][n]
      BY <2>1, <2>3, <2>5 DEF Naming, Leaving
    <3>2. t \in known[s]
      BY <1>6 DEF SendDelta, DeltaInv, TaskInv
    <3>3. SettledInv(B, {}, s, u, n)
      BY <1>1, <1>6 DEF HoldInv, ClientHold
    <3> QED BY <2>2, <2>3, <3>1, <3>2, <3>3 DEF SettledInv
  <2>6. /\ \A i, j \in 1 .. Len(q) : Adjacent(q, M, i, j) =>
              Ver(q[i].resources[n]) # Ver(q[j].resources[n])
        /\ \A i \in 1 .. Len(q) : FirstOf(q, M, i) =>
              \/ has[Owner[s]][u][n] = Absent
              \/ Ver(has[Owner[s]][u][n]) # Ver(q[i].resources[n])
    BY <1>3, <1>6, <2>2, <2>3 DEF NewsInv
  <2>10. /\ Len(q) \in Nat /\ Len(p) = Len(q) + 1 /\ p[Len(q) + 1] = resp
         /\ \A i \in 1 .. Len(q) : p[i] = q[i]
    BY <2>2, <2>4, AppendFacts
  <2>11. /\ \A i, j \in 1 .. Len(p) : Adjacent(p, M, i, j) =>
               \/ /\ i \in 1 .. Len(q) /\ j \in 1 .. Len(q) /\ Adjacent(q, M, i, j)
                  /\ p[i] = q[i] /\ p[j] = q[j]
               \/ /\ p[j] = resp /\ resp \in M /\ i \in 1 .. Len(q) /\ p[i] = q[i]
                  /\ q[i] \in M /\ \A k \in 1 .. Len(q) : i < k => q[k] \notin M
         /\ \A i \in 1 .. Len(p) : FirstOf(p, M, i) =>
               \/ i \in 1 .. Len(q) /\ FirstOf(q, M, i) /\ p[i] = q[i]
               \/ p[i] = resp /\ resp \in M /\ NoneIn(q, M)
    BY <2>10, AppendNews
  <2>7. ASSUME NEW i \in 1 .. Len(p), NEW j \in 1 .. Len(p), Adjacent(p, M, i, j)
        PROVE  Ver(p[i].resources[n]) # Ver(p[j].resources[n])
    <3>1. CASE /\ i \in 1 .. Len(q) /\ j \in 1 .. Len(q) /\ Adjacent(q, M, i, j)
               /\ p[i] = q[i] /\ p[j] = q[j]
      BY <2>6, <3>1
    <3>2. CASE /\ p[j] = resp /\ resp \in M /\ i \in 1 .. Len(q) /\ p[i] = q[i]
               /\ q[i] \in M /\ \A k \in 1 .. Len(q) : i < k => q[k] \notin M
      <4>1. LastIn(q, Leaving(B, u, n, sent[s][u][n]), M)
        BY <2>5, <3>2 DEF NoneIn
      <4>2. PICK k \in 1 .. Len(q) : q[k] \in Leaving(B, u, n, sent[s][u][n])
               /\ \A l \in 1 .. Len(q) : k < l => q[l] \notin M
        BY <4>1 DEF LastIn
      <4>3. q[k] \in M
        BY <2>3, <4>2 DEF Leaving
      <4>4. k = i
        BY <3>2, <4>2, <4>3
      <4> QED BY <2>5, <3>2, <4>2, <4>4 DEF Leaving
    <3> QED BY <2>7, <2>11, <3>1, <3>2
  <2>8. ASSUME NEW i \in 1 .. Len(p), FirstOf(p, M, i)
        PROVE  \/ has[Owner[s]][u][n] = Absent
               \/ Ver(has[Owner[s]][u][n]) # Ver(p[i].resources[n])
    <3>1. CASE i \in 1 .. Len(q) /\ FirstOf(q, M, i) /\ p[i] = q[i]
      BY <2>6, <3>1
    <3>2. CASE p[i] = resp /\ resp \in M /\ NoneIn(q, M)
      <4>1. ~LastIn(q, Leaving(B, u, n, sent[s][u][n]), M)
        BY <2>3, <3>2 DEF LastIn, NoneIn, Leaving
      <4> QED BY <2>5, <3>2, <4>1 DEF HeldBy
    <3> QED BY <2>8, <2>11, <3>1, <3>2
  <2>9. M = Naming(B, u, n)'
    BY <2>3 DEF Naming
  <2> QED BY <1>2, <2>4, <2>7, <2>8, <2>9 DEF NewsInv, Ver
<1>7. \/ outbound'[s] = outbound[s]
      \/ outbound'[s] = <<>>
      \/ \E t \in Types : SendDelta(s, t)
  BY DEF Task, ReceiveNack, Take, ReceiveRequest, WatchChanged, Send, SendNothing,
         SendFails, StreamEnds, Close, CloseAll, wireVars
<1> QED BY <1>1, <1>4, <1>5, <1>6, <1>7 DEF Apart

\* A response that is accepted leaves the client at another version than the
\* one behind it.
LEMMA AcceptNews ==
    ASSUME NEW B, DeltaInv(B), HoldInv(B, {}), News(B), NEW s \in Streams, Accept(s),
           NEW u \in Types, NEW n \in Names
    PROVE  NewsInv(B, s, u, n)'
<1>1. PICK q \in Seq(Responses(B)) :
         q = outbound[s] /\ q # <<>> /\ outbound'[s] = Tail(q) /\ up[s]
  BY DEF Accept, Reply, DeltaInv, DeltaTypeOK, StreamTypeOK
<1>2. PICK M : M = Naming(B, u, n) /\ M = Naming(B, u, n)'
  BY DEF Naming
<1>3. PICK p : p = Tail(q)
  OBVIOUS
<1>4. /\ \A i, j \in 1 .. Len(q) : Adjacent(q, M, i, j) =>
            Ver(q[i].resources[n]) # Ver(q[j].resources[n])
      /\ \A i \in 1 .. Len(q) : FirstOf(q, M, i) =>
            \/ has[Owner[s]][u][n] = Absent
            \/ Ver(has[Owner[s]][u][n]) # Ver(q[i].resources[n])
  BY <1>1, <1>2 DEF News, NewsInv
<1>5. /\ Head(q) \notin M => has'[Owner[s]][u][n] = has[Owner[s]][u][n]
      /\ Head(q) \in M => HeldBy({}, s, u, n, Ver(Head(q).resources[n]))'
  <2>1. PICK v : v = Ver(Head(q).resources[n])
    OBVIOUS
  <2>2. Head(q) \in M => HeldBy({}, s, u, n, v)'
    BY <1>1, <1>2, <2>1, AcceptTaken DEF Leaving
  <2>3. HeldBy({}, s, u, n, v)' => HeldBy({}, s, u, n, Ver(Head(q).resources[n]))'
    BY <2>1 DEF HeldBy, Ver
  <2> QED BY <1>1, <1>2, <2>2, <2>3, AcceptTaken
<1>6. /\ \A i \in 1 .. Len(p) : i + 1 \in 1 .. Len(q) /\ p[i] = q[i + 1]
      /\ 1 \in 1 .. Len(q)
      /\ \A i, j \in 1 .. Len(p) : Adjacent(p, M, i, j) => Adjacent(q, M, i + 1, j + 1)
      /\ \A i \in 1 .. Len(p) : FirstOf(p, M, i) =>
            IF q[1] \in M THEN Adjacent(q, M, 1, i + 1) ELSE FirstOf(q, M, i + 1)
  <2>1. /\ Len(q) \in Nat \ {0} /\ Len(p) = Len(q) - 1
        /\ \A i \in 1 .. Len(p) : p[i] = q[i + 1]
    BY <1>1, <1>3, TailFacts
  <2> QED BY <2>1, TailNews
<1>7. \A i, j \in 1 .. Len(p) : Adjacent(p, M, i, j) =>
         Ver(p[i].resources[n]) # Ver(p[j].resources[n])
  BY <1>4, <1>6
<1>8. ASSUME NEW i \in 1 .. Len(p), FirstOf(p, M, i)
      PROVE  \/ has'[Owner[s]][u][n] = Absent
             \/ Ver(has'[Owner[s]][u][n]) # Ver(p[i].resources[n])
  <2>1. CASE Head(q) \in M
    <3>1. Ver(Head(q).resources[n]) # Ver(p[i].resources[n])
      <4>1. Head(q) = q[1]
        BY <1>1, TailFacts
      <4> QED BY <1>4, <1>6, <1>8, <2>1, <4>1
    <3> QED BY <1>5, <2>1, <3>1 DEF HeldBy, Ver
  <2>2. CASE Head(q) \notin M
    <3>1. Head(q) = q[1]
      BY <1>1, TailFacts
    <3> QED BY <1>4, <1>5, <1>6, <1>8, <2>2, <3>1
  <2> QED BY <2>1, <2>2
<1> QED BY <1>1, <1>2, <1>3, <1>7, <1>8 DEF NewsInv, Ver

LEMMA ClientNews ==
    ASSUME NEW B, DeltaInv(B), HoldInv(B, {}), News(B), NEW s \in Streams,
           \/ Client(s) /\ ~Reject(s)
           \/ Connect(s)
           \/ Disconnect(s)
           \/ \E t \in Types, p \in Patterns \cup {Star} : Unsubscribe(s, t, p)
    PROVE  News(B)'
<1>1. outbound \in [Streams -> Seq(Responses(B))] /\ EnvoyTypeOK(B)
      /\ up \in [Streams -> BOOLEAN]
  BY DEF DeltaInv, DeltaTypeOK, StreamTypeOK
<1>2. CASE Connect(s)
  <2>1. UNCHANGED <<outbound, has>> /\ \A r \in Streams : up'[r] => up[r] \/ r = s
    BY <1>1, <1>2 DEF Connect, Open, envoyVars
  <2>2. \A i \in 1 .. Len(outbound[s]) : FALSE
    BY <1>2 DEF Connect, Open, DeltaInv, TaskInv, UnusedInv
  <2>3. \A t \in Types, n \in Names : NewsInv(B, s, t, n)'
    BY <2>1, <2>2 DEF NewsInv
  <2> QED BY <2>1, <2>3, SameNews DEF News
<1>3. CASE Disconnect(s)
  <2>1. UNCHANGED <<outbound, has>> /\ \A r \in Streams : up'[r] => up[r]
    BY <1>1, <1>3 DEF Disconnect, Cut, ForgetAll
  <2> QED BY <2>1, SameNews DEF News
<1>4. ASSUME NEW t \in Types, Subscribe(s, t) PROVE News(B)'
  <2>1. UNCHANGED <<outbound, has, up>>
    BY <1>4 DEF Subscribe
  <2> QED BY <2>1, SameNews DEF News
<1>5. ASSUME NEW t \in Types, NEW p \in Patterns \cup {Star}, Unsubscribe(s, t, p)
      PROVE  News(B)'
  <2>1. UNCHANGED <<outbound, up>>
    BY <1>5 DEF Unsubscribe
  <2>2. \A e \in Envoys, u \in Types, n \in Names :
              has'[e][u][n] \in {has[e][u][n], Absent}
    BY <1>1, <1>5, GivenUp
  <2>3. \A r \in Streams : Owner[r] \in Envoys
    BY EnvoyAssumption
  <2> QED BY <2>1, <2>2, <2>3, SameNews DEF News
<1>6. CASE Accept(s)
  <2>1. /\ \A r \in Streams \ {s} : outbound'[r] = outbound[r]
        /\ up[s] /\ UNCHANGED up
        /\ \A r \in Streams : Owner[r] # Owner[s] => has'[Owner[r]] = has[Owner[r]]
    BY <1>1, <1>6, EnvoyAssumption DEF Accept, Reply, EnvoyTypeOK
  <2>2. \A r \in Streams \ {s} : up[r] => Owner[r] # Owner[s]
    BY <2>1 DEF DeltaInv, ClientInv
  <2>3. \A t \in Types, n \in Names : NewsInv(B, s, t, n)'
    BY <1>6, AcceptNews
  <2> QED BY <2>1, <2>2, <2>3, SameNews DEF News
<1> QED BY <1>2, <1>3, <1>4, <1>5, <1>6 DEF Client

\* So what a client reads is news to it.
LEMMA NewsRead == ASSUME NEW B, DeltaInv(B), News(B) PROVE NothingResent
<1> SUFFICES ASSUME NEW s \in Streams, up[s], outbound[s] # <<>>, NEW n \in Names,
                    NEW t \in Types, t = Head(outbound[s]).type,
                    Head(outbound[s]).resources[n] # Absent,
                    has[Owner[s]][t][n] # Absent
             PROVE  Head(outbound[s]).resources[n].version # has[Owner[s]][t][n].version
  <2>1. \A s \in Streams : outbound[s] # <<>> => Head(outbound[s]) \in Responses(B)
    BY TailFacts DEF DeltaInv, DeltaTypeOK, StreamTypeOK
  <2>2. \A s \in Streams : outbound[s] # <<>> => Head(outbound[s]).type \in Types
    BY <2>1 DEF Responses
  <2> QED BY <2>2 DEF NothingResent
<1>1. outbound[s] \in Seq(Responses(B))
  BY DEF DeltaInv, DeltaTypeOK, StreamTypeOK
<1>2. /\ Head(outbound[s]) = outbound[s][1] /\ Head(outbound[s]) \in Responses(B)
      /\ Len(outbound[s]) \in Nat \ {0}
  BY <1>1, TailFacts
<1>3. 1 \in 1 .. Len(outbound[s]) /\ \A k \in 1 .. Len(outbound[s]) : ~(k < 1)
  BY <1>2
<1>4. FirstOf(outbound[s], Naming(B, t, n), 1)
  BY <1>2, <1>3 DEF FirstOf, Naming
<1> QED BY <1>2, <1>3, <1>4 DEF News, NewsInv, Ver
=============================================================================
