--------------------------- MODULE SotwStreamProofs ---------------------------
(***************************************************************************)
(* An inductive invariant of the state-of-the-world stream, and that every *)
(* step of the stream and of the Envoy at its far end preserves it.  The   *)
(* chapters' proof modules add their own steps.                            *)
(***************************************************************************)
EXTENDS EnvoySotw, SequenceTheorems, TLAPS

\* What the task of s may rely on between its steps.  Subscriptions are what
\* Envoy has named: a reply names a type that was pushed, hence subscribed.
\* The last conjunct is what NoLostPush needs while a push is under way.
TaskInv(s) ==
    /\ todo[s] \subseteq subscribed[s]
    /\ pc[s] # "push" => todo[s] = {}
    /\ pc[s] \in {"unused", "closed"} => subscribed[s] = {}
    /\ seen[s] <= changes
    /\ \A resp \in Range(outbound[s]) : resp.type \in subscribed[s]
    /\ \A req \in Range(inbound[s]) :
          req.error \/ req.nonce # 0 => req.type \in subscribed[s]
    /\ seen[s] = changes =>
          /\ pc[s] = "push" => held[s] = advertised
          /\ \A t \in (subscribed[s] \cap Served) \ todo[s] :
                sent_version[s][t] = advertised.version

HeldInv(Snapshots) ==
    \A s \in Streams : pc[s] \in {"push", "rollback"} => held[s] \in Snapshots

StreamInv(Snapshots) ==
    /\ StreamTypeOK(Snapshots)
    /\ HeldInv(Snapshots)
    /\ \A s \in Streams : TaskInv(s)

Versioned(Snapshots) == \A snap \in Snapshots : snap.version \in Nat

-----------------------------------------------------------------------------
(* Sequences by their elements. *)

\* What reading the head of a queue leaves in it.
LEMMA TailRange ==
    ASSUME NEW T, NEW q \in Seq(T), q # <<>>
    PROVE  /\ Head(q) \in T
           /\ Head(q) \in Range(q)
           /\ Tail(q) \in Seq(T)
           /\ Len(Tail(q)) <= Len(q)
           /\ Range(Tail(q)) \subseteq Range(q)
<1>1. /\ Head(q) \in T
      /\ Tail(q) \in Seq(T)
      /\ Len(Tail(q)) = Len(q) - 1
      /\ \A i \in 1..Len(Tail(q)) : Tail(q)[i] = q[i+1]
  BY HeadTailProperties
<1>2. /\ Len(q) \in Nat \ {0}
      /\ DOMAIN q = 1..Len(q)
      /\ DOMAIN Tail(q) = 1..Len(Tail(q))
  BY <1>1, EmptySeq, LenProperties
<1>3. Head(q) = q[1]
  OBVIOUS
<1> QED BY <1>1, <1>2, <1>3 DEF Range

\* What writing to a queue adds to it.
LEMMA AppendRange ==
    ASSUME NEW T, NEW q \in Seq(T), NEW x \in T
    PROVE  /\ Append(q, x) \in Seq(T)
           /\ Len(Append(q, x)) = Len(q) + 1
           /\ Range(Append(q, x)) = Range(q) \cup {x}
<1>1. /\ Append(q, x) \in Seq(T)
      /\ Len(Append(q, x)) = Len(q) + 1
      /\ \A i \in 1..Len(q) : Append(q, x)[i] = q[i]
      /\ Append(q, x)[Len(q) + 1] = x
  BY AppendProperties
<1>2. /\ Len(q) \in Nat
      /\ DOMAIN q = 1..Len(q)
      /\ DOMAIN Append(q, x) = 1..(Len(q) + 1)
  BY <1>1, LenProperties
<1> QED BY <1>1, <1>2 DEF Range

LEMMA EmptyRange ==
    ASSUME NEW T
    PROVE  <<>> \in Seq(T) /\ Len(<<>>) = 0 /\ Range(<<>>) = {}
BY EmptySeq DEF Range

-----------------------------------------------------------------------------
(* The initial state, and the steps of the task of one stream. *)

LEMMA StreamInitInv ==
    ASSUME NEW S, NEW first \in S, StreamInit(first)
    PROVE  StreamInv(S)
<1>1. StreamTypeOK(S)
  BY EmptyRange, ChannelAssumption DEF StreamInit, StreamTypeOK
<1>2. \A s \in Streams : TaskInv(s)
  BY EmptyRange DEF StreamInit, TaskInv
<1> QED BY <1>1, <1>2 DEF StreamInv, HeldInv, StreamInit

\* A published snapshot is news to every task.
LEMMA WatchSendInv ==
    ASSUME NEW S, StreamInv(S), NEW snap \in S,
           WatchSend(snap), UNCHANGED <<wireVars, taskVars>>
    PROVE  StreamInv(S)'
<1>1. StreamTypeOK(S)'
  BY DEF StreamInv, StreamTypeOK, WatchSend, watchVars, wireVars, taskVars
<1>2. HeldInv(S)'
  BY DEF StreamInv, HeldInv, taskVars
<1>3. ASSUME NEW r \in Streams PROVE TaskInv(r)'
  <2>1. TaskInv(r) /\ changes \in Nat /\ seen[r] \in Nat
    BY DEF StreamInv, StreamTypeOK
  <2> QED BY <2>1 DEF TaskInv, WatchSend, watchVars, wireVars, taskVars
<1> QED BY <1>1, <1>2, <1>3 DEF StreamInv

LEMMA OpenInv ==
    ASSUME NEW S, StreamInv(S), NEW s \in Streams, Open(s)
    PROVE  StreamInv(S)'
<1>1. StreamTypeOK(S)'
  BY DEF StreamInv, StreamTypeOK, Open, watchVars
<1>2. HeldInv(S)'
  BY DEF StreamInv, StreamTypeOK, HeldInv, Open
<1>3. ASSUME NEW r \in Streams PROVE TaskInv(r)'
  BY DEF StreamInv, StreamTypeOK, TaskInv, Open, watchVars
<1> QED BY <1>1, <1>2, <1>3 DEF StreamInv

LEMMA CutInv ==
    ASSUME NEW S, StreamInv(S), NEW s \in Streams, Cut(s)
    PROVE  StreamInv(S)'
<1>1. StreamTypeOK(S)'
  BY DEF StreamInv, StreamTypeOK, Cut, watchVars, taskVars
<1>2. HeldInv(S)'
  BY DEF StreamInv, HeldInv, Cut, taskVars
<1>3. ASSUME NEW r \in Streams PROVE TaskInv(r)'
  BY DEF StreamInv, TaskInv, Cut, watchVars, taskVars
<1> QED BY <1>1, <1>2, <1>3 DEF StreamInv

LEMMA CloseInv ==
    ASSUME NEW S, StreamInv(S), NEW s \in Streams, Close(s)
    PROVE  StreamInv(S)'
<1>1. StreamTypeOK(S)'
  BY EmptyRange, ChannelAssumption DEF StreamInv, StreamTypeOK, Close, watchVars
<1>2. HeldInv(S)'
  BY DEF StreamInv, StreamTypeOK, HeldInv, Close
<1>3. ASSUME NEW r \in Streams PROVE TaskInv(r)'
  BY EmptyRange DEF StreamInv, StreamTypeOK, TaskInv, Close, watchVars
<1> QED BY <1>1, <1>2, <1>3 DEF StreamInv

\* What Take leaves to the arm that handles the request.
LEMMA TakeFacts ==
    ASSUME NEW S, StreamInv(S), NEW s \in Streams, Take(s)
    PROVE  /\ Head(inbound[s]) \in Requests
           /\ Head(inbound[s]) \in Range(inbound[s])
           /\ inbound' \in [Streams -> Seq(Requests)]
           /\ subscribed' \in [Streams -> SUBSET Types]
           /\ \A r \in Streams : Range(inbound'[r]) \subseteq Range(inbound[r])
<1>1. /\ inbound \in [Streams -> Seq(Requests)]
      /\ subscribed \in [Streams -> SUBSET Types]
  BY DEF StreamInv, StreamTypeOK
<1>2. /\ Head(inbound[s]) \in Requests
      /\ Head(inbound[s]) \in Range(inbound[s])
      /\ Tail(inbound[s]) \in Seq(Requests)
      /\ Range(Tail(inbound[s])) \subseteq Range(inbound[s])
  BY <1>1, TailRange DEF Take
<1>3. inbound' = [inbound EXCEPT ![s] = Tail(@)]
  BY DEF Take
<1>4. Head(inbound[s]).type \in Types
  BY <1>2 DEF Requests
<1> QED BY <1>1, <1>2, <1>3, <1>4 DEF Take

LEMMA ReceiveSubscriptionInv ==
    ASSUME NEW S, StreamInv(S), NEW s \in Streams, ReceiveSubscription(s)
    PROVE  StreamInv(S)'
<1> DEFINE t == Head(inbound[s]).type
<1>1. t \in Types
  BY TakeFacts DEF ReceiveSubscription, Requests
<1>2. StreamTypeOK(S)'
  BY <1>1, TakeFacts
  DEF StreamInv, StreamTypeOK, ReceiveSubscription, Take, Visit, watchVars
<1>3. HeldInv(S)'
  BY DEF StreamInv, StreamTypeOK, HeldInv, ReceiveSubscription, Visit
<1>4. ASSUME NEW r \in Streams PROVE TaskInv(r)'
  BY <1>1, <1>4, TakeFacts
  DEF StreamInv, StreamTypeOK, TaskInv, ReceiveSubscription, Take, Visit, watchVars
<1> QED BY <1>2, <1>3, <1>4 DEF StreamInv

LEMMA ReceiveAckInv ==
    ASSUME NEW S, StreamInv(S), NEW s \in Streams, ReceiveAck(s)
    PROVE  StreamInv(S)'
<1>1. StreamTypeOK(S)'
  BY TakeFacts DEF StreamInv, StreamTypeOK, ReceiveAck, Take, watchVars
<1>2. HeldInv(S)'
  BY DEF StreamInv, HeldInv, ReceiveAck
<1>3. ASSUME NEW r \in Streams PROVE TaskInv(r)'
  <2>1. Head(inbound[s]).type \in subscribed[s]
    BY TakeFacts DEF StreamInv, TaskInv, ReceiveAck
  <2>2. subscribed' = subscribed
    BY <2>1 DEF StreamInv, StreamTypeOK, ReceiveAck, Take
  <2> QED BY <1>3, <2>2, TakeFacts DEF StreamInv, TaskInv, ReceiveAck, Take, watchVars
<1> QED BY <1>1, <1>2, <1>3 DEF StreamInv

LEMMA WatchChangedInv ==
    ASSUME NEW S, StreamInv(S), NEW s \in Streams, WatchChanged(s)
    PROVE  StreamInv(S)'
<1>1. StreamTypeOK(S)'
  BY DEF StreamInv, StreamTypeOK, WatchChanged, Visit, watchVars, wireVars
<1>2. HeldInv(S)'
  BY DEF StreamInv, StreamTypeOK, HeldInv, WatchChanged, Visit, watchVars
<1>3. ASSUME NEW r \in Streams PROVE TaskInv(r)'
  BY DEF StreamInv, StreamTypeOK, TaskInv, WatchChanged, Visit, watchVars, wireVars
<1> QED BY <1>1, <1>2, <1>3 DEF StreamInv

LEMMA PushSkipInv ==
    ASSUME NEW S, StreamInv(S), NEW s \in Streams, NEW t \in Types, PushSkip(s, t)
    PROVE  StreamInv(S)'
<1>1. StreamTypeOK(S)'
  BY DEF StreamInv, StreamTypeOK, PushSkip, Visit, watchVars, wireVars
<1>2. HeldInv(S)'
  BY DEF StreamInv, StreamTypeOK, HeldInv, PushSkip, Visit
<1>3. ASSUME NEW r \in Streams PROVE TaskInv(r)'
  BY <1>3
  DEF StreamInv, StreamTypeOK, TaskInv, PushSkip, UpToDate, Visit, watchVars, wireVars
<1> QED BY <1>1, <1>2, <1>3 DEF StreamInv

LEMMA PushSendInv ==
    ASSUME NEW S, Versioned(S), StreamInv(S), NEW s \in Streams, NEW t \in Types,
           PushSend(s, t)
    PROVE  StreamInv(S)'
<1> DEFINE resp == BuildResponse(held[s], t)
<1>1. /\ held[s] \in S
      /\ held[s].version \in Nat
      /\ resp \in Responses(S)
      /\ resp.type = t
      /\ t \in subscribed[s]
  BY DEF StreamInv, HeldInv, TaskInv, PushSend, Versioned, BuildResponse, Responses
<1>2. /\ Append(outbound[s], resp) \in Seq(Responses(S))
      /\ Len(Append(outbound[s], resp)) <= ChanCap
      /\ Range(Append(outbound[s], resp)) = Range(outbound[s]) \cup {resp}
  <2>1. /\ outbound[s] \in Seq(Responses(S))
        /\ Len(outbound[s]) \in Nat
        /\ Len(outbound[s]) < ChanCap
    BY LenProperties DEF StreamInv, StreamTypeOK, PushSend
  <2> QED BY <1>1, <2>1, AppendRange, ChannelAssumption
<1>3. outbound' = [outbound EXCEPT ![s] = Append(outbound[s], resp)]
  BY DEF PushSend
<1> HIDE DEF resp
<1>4. StreamTypeOK(S)'
  BY <1>1, <1>2, <1>3 DEF StreamInv, StreamTypeOK, PushSend, Visit, watchVars
<1>5. HeldInv(S)'
  BY DEF StreamInv, StreamTypeOK, HeldInv, PushSend, Visit
<1>6. ASSUME NEW r \in Streams PROVE TaskInv(r)'
  BY <1>1, <1>2, <1>3, <1>6
  DEF StreamInv, StreamTypeOK, TaskInv, PushSend, Visit, watchVars
<1> QED BY <1>4, <1>5, <1>6 DEF StreamInv

LEMMA PushInv ==
    ASSUME NEW S, Versioned(S), StreamInv(S), NEW s \in Streams, Push(s)
    PROVE  StreamInv(S)'
BY PushSkipInv, PushSendInv, CloseInv DEF Push, PushFails

-----------------------------------------------------------------------------
(* The steps of Envoy. *)

LEMMA SubscribeInv ==
    ASSUME NEW S, StreamInv(S), NEW s \in Streams, NEW t \in Types, Subscribe(s, t)
    PROVE  StreamInv(S)'
<1> DEFINE req == Subscription(t)
<1>1. /\ req \in Requests
      /\ ~req.error /\ req.nonce = 0
  BY DEF Subscription, Requests
<1>2. /\ Append(inbound[s], req) \in Seq(Requests)
      /\ Range(Append(inbound[s], req)) = Range(inbound[s]) \cup {req}
  <2>1. inbound[s] \in Seq(Requests)
    BY DEF StreamInv, StreamTypeOK
  <2> QED BY <1>1, <2>1, AppendRange
<1>3. inbound' = [inbound EXCEPT ![s] = Append(inbound[s], req)]
  BY DEF Subscribe
<1> HIDE DEF req
<1>4. StreamTypeOK(S)'
  BY <1>2, <1>3 DEF StreamInv, StreamTypeOK, Subscribe, watchVars, taskVars
<1>5. HeldInv(S)'
  BY DEF StreamInv, HeldInv, Subscribe, taskVars
<1>6. ASSUME NEW r \in Streams PROVE TaskInv(r)'
  BY <1>1, <1>2, <1>3, <1>6
  DEF StreamInv, StreamTypeOK, TaskInv, Subscribe, watchVars, taskVars
<1> QED BY <1>4, <1>5, <1>6 DEF StreamInv

\* A reply names the type of a response, which the task has subscribed.
LEMMA ReplyInv ==
    ASSUME NEW S, StreamInv(S), NEW s \in Streams, NEW req \in Requests,
           req.type = Head(outbound[s]).type, Reply(s, req)
    PROVE  StreamInv(S)'
<1>1. /\ outbound[s] \in Seq(Responses(S))
      /\ inbound[s] \in Seq(Requests)
  BY DEF StreamInv, StreamTypeOK
<1>2. /\ Append(inbound[s], req) \in Seq(Requests)
      /\ Range(Append(inbound[s], req)) = Range(inbound[s]) \cup {req}
  BY <1>1, AppendRange
<1>3. /\ Head(outbound[s]) \in Range(outbound[s])
      /\ Tail(outbound[s]) \in Seq(Responses(S))
      /\ Len(Tail(outbound[s])) <= ChanCap
      /\ Range(Tail(outbound[s])) \subseteq Range(outbound[s])
  <2>1. /\ Len(outbound[s]) \in Nat
        /\ Len(Tail(outbound[s])) \in Nat
        /\ Len(outbound[s]) <= ChanCap
    BY <1>1, TailRange, LenProperties DEF Reply, StreamInv, StreamTypeOK
  <2> QED BY <1>1, <2>1, TailRange, ChannelAssumption DEF Reply
<1>4. req.type \in subscribed[s]
  BY <1>3 DEF StreamInv, TaskInv
<1>5. /\ inbound' = [inbound EXCEPT ![s] = Append(inbound[s], req)]
      /\ outbound' = [outbound EXCEPT ![s] = Tail(outbound[s])]
  BY DEF Reply
<1>6. StreamTypeOK(S)'
  BY <1>2, <1>3, <1>5 DEF StreamInv, StreamTypeOK, Reply, watchVars, taskVars
<1>7. HeldInv(S)'
  BY DEF StreamInv, HeldInv, Reply, taskVars
<1>8. ASSUME NEW r \in Streams PROVE TaskInv(r)'
  BY <1>2, <1>3, <1>4, <1>5, <1>8
  DEF StreamInv, StreamTypeOK, TaskInv, Reply, watchVars, taskVars
<1> QED BY <1>6, <1>7, <1>8 DEF StreamInv

-----------------------------------------------------------------------------
(***************************************************************************)
(* How far what a task has sent has got, and what it was asked for.        *)
(***************************************************************************)

\* q holds no response of type t; the last one it holds is of version v.
NoneOf(q, t) == \A i \in 1 .. Len(q) : q[i].type # t

LastIs(q, t, v) ==
    \E i \in 1 .. Len(q) :
        /\ q[i].type = t
        /\ q[i].snap.version = v
        /\ \A j \in 1 .. Len(q) : i < j => q[j].type # t

\* Envoy has, or is about to get, the version the task has sent it last.
Reached(s, t) ==
    \/ sent_version[s][t] = 0
    \/ LastIs(outbound[s], t, sent_version[s][t])
    \/ /\ NoneOf(outbound[s], t)
       /\ running[Owner[s]][t] # NoSnap
       /\ running[Owner[s]][t].version = sent_version[s][t]

\* What Envoy asked for, the task has seen or will see.
AskedInv ==
    \A s \in Streams : \A t \in requested[s] :
        \/ t \in subscribed[s]
        \/ \E req \in Range(inbound[s]) : req.type = t

\* A stream that is up has a task; an Envoy has one stream that is up.
LinkInvariant ==
    \A s \in Streams :
        /\ up[s] => pc[s] \notin {"unused", "closed"}
        /\ pc[s] \in {"unused", "closed"} => \A t \in Types : sent_version[s][t] = 0
        /\ ~up[s] => requested[s] = {}
        /\ \A r \in Streams : up[s] /\ up[r] /\ Owner[s] = Owner[r] => s = r

-----------------------------------------------------------------------------
(* Queues. *)

LEMMA TailLast ==
    ASSUME NEW T, NEW q \in Seq(T), q # <<>>, NEW t, NEW v
    PROVE  /\ NoneOf(q, t) => NoneOf(Tail(q), t) /\ Head(q).type # t
           /\ LastIs(q, t, v) =>
                 \/ LastIs(Tail(q), t, v)
                 \/ /\ NoneOf(Tail(q), t)
                    /\ Head(q).type = t /\ Head(q).snap.version = v
<1>1. /\ Len(q) \in Nat \ {0}
      /\ Head(q) = q[1]
      /\ Len(Tail(q)) = Len(q) - 1
      /\ \A i \in 1 .. Len(Tail(q)) : Tail(q)[i] = q[i + 1]
  BY HeadTailProperties, EmptySeq, LenProperties
<1>2. NoneOf(q, t) => NoneOf(Tail(q), t) /\ Head(q).type # t
  BY <1>1 DEF NoneOf
<1>3. ASSUME NEW i \in 1 .. Len(q), q[i].type = t, q[i].snap.version = v,
             \A j \in 1 .. Len(q) : i < j => q[j].type # t
      PROVE  \/ LastIs(Tail(q), t, v)
             \/ /\ NoneOf(Tail(q), t)
                /\ Head(q).type = t /\ Head(q).snap.version = v
  <2>1. CASE i = 1
    BY <1>1, <1>3, <2>1 DEF NoneOf
  <2>2. CASE i # 1
    <3>1. i - 1 \in 1 .. Len(Tail(q)) /\ Tail(q)[i - 1] = q[i]
      BY <1>1, <2>2
    <3>2. \A j \in 1 .. Len(Tail(q)) : i - 1 < j => Tail(q)[j].type # t
      BY <1>1, <1>3, <2>2
    <3> QED BY <1>3, <3>1, <3>2 DEF LastIs
  <2> QED BY <2>1, <2>2
<1> QED BY <1>2, <1>3 DEF LastIs

LEMMA AppendLast ==
    ASSUME NEW T, NEW q \in Seq(T), NEW x \in T, NEW t, NEW v
    PROVE  /\ LastIs(Append(q, x), x.type, x.snap.version)
           /\ x.type # t /\ LastIs(q, t, v) => LastIs(Append(q, x), t, v)
           /\ x.type # t /\ NoneOf(q, t) => NoneOf(Append(q, x), t)
<1> DEFINE r == Append(q, x)
<1>1. /\ Len(q) \in Nat
      /\ Len(r) = Len(q) + 1
      /\ r[Len(q) + 1] = x
      /\ \A i \in 1 .. Len(q) : r[i] = q[i]
  BY AppendProperties, LenProperties
<1> HIDE DEF r
<1>2. LastIs(r, x.type, x.snap.version)
  BY <1>1 DEF LastIs
<1>3. ASSUME x.type # t, LastIs(q, t, v) PROVE LastIs(r, t, v)
  <2>1. PICK i \in 1 .. Len(q) : /\ q[i].type = t
                                 /\ q[i].snap.version = v
                                 /\ \A j \in 1 .. Len(q) : i < j => q[j].type # t
    BY <1>3 DEF LastIs
  <2>2. i \in 1 .. Len(r) /\ r[i].type = t /\ r[i].snap.version = v
    BY <1>1, <2>1
  <2>3. \A j \in 1 .. Len(r) : i < j => r[j].type # t
    BY <1>1, <1>3, <2>1
  <2> QED BY <2>2, <2>3 DEF LastIs
<1>4. x.type # t /\ NoneOf(q, t) => NoneOf(r, t)
  BY <1>1 DEF NoneOf
<1> QED BY <1>2, <1>3, <1>4 DEF r

LEMMA EmptyLast == \A t, v : NoneOf(<<>>, t) /\ ~LastIs(<<>>, t, v)
BY EmptySeq DEF NoneOf, LastIs

\* What reading the head of a queue takes out of it.
LEMMA HeadAndTail ==
    ASSUME NEW T, NEW q \in Seq(T), q # <<>>
    PROVE  \A x \in Range(q) : x = Head(q) \/ x \in Range(Tail(q))
<1>1. /\ Len(q) \in Nat \ {0}
      /\ DOMAIN q = 1 .. Len(q)
      /\ Head(q) = q[1]
      /\ Len(Tail(q)) = Len(q) - 1
      /\ DOMAIN Tail(q) = 1 .. Len(Tail(q))
      /\ \A i \in 1 .. Len(Tail(q)) : Tail(q)[i] = q[i + 1]
  BY HeadTailProperties, EmptySeq, LenProperties
<1>2. ASSUME NEW i \in 1 .. Len(q), i # 1 PROVE q[i] \in Range(Tail(q))
  <2>1. i - 1 \in DOMAIN Tail(q) /\ Tail(q)[i - 1] = q[i]
    BY <1>1, <1>2
  <2> QED BY <2>1 DEF Range
<1> QED BY <1>1, <1>2 DEF Range


\* Taking a request loses that request only.
LEMMA TakeRange ==
    ASSUME NEW S, StreamInv(S), NEW s \in Streams, Take(s)
    PROVE  /\ \A r \in Streams : subscribed[r] \subseteq subscribed'[r]
           /\ \A r \in Streams : \A req \in Range(inbound[r]) :
                 \/ req \in Range(inbound'[r])
                 \/ r = s /\ req = Head(inbound[s]) /\ req.type \in subscribed'[s]
<1>1. /\ inbound \in [Streams -> Seq(Requests)]
      /\ subscribed \in [Streams -> SUBSET Types]
  BY DEF StreamInv, StreamTypeOK
<1>2. \A req \in Range(inbound[s]) : req = Head(inbound[s]) \/ req \in Range(Tail(inbound[s]))
  BY <1>1, HeadAndTail DEF Take
<1>3. /\ inbound' = [inbound EXCEPT ![s] = Tail(inbound[s])]
      /\ subscribed' = [subscribed EXCEPT ![s] = @ \cup {Head(inbound[s]).type}]
  BY DEF Take
<1> QED BY <1>1, <1>2, <1>3

-----------------------------------------------------------------------------
(* What was asked for, whatever becomes of the responses. *)

AskInv == AskedInv /\ LinkInvariant

LEMMA AskInit ==
    ASSUME NEW first, StreamInit(first), EnvoyInit
    PROVE  AskInv
BY DEF StreamInit, EnvoyInit, AskInv, AskedInv, LinkInvariant

\* A step that loses no request whose type is yet to be seen.
LEMMA AskKept ==
    ASSUME AskInv, UNCHANGED <<up, sent_version, envoyVars>>,
           \A r \in Streams :
              /\ pc'[r] \in {"unused", "closed"} <=> pc[r] \in {"unused", "closed"}
              /\ subscribed[r] \subseteq subscribed'[r]
              /\ \A req \in Range(inbound[r]) :
                    req \in Range(inbound'[r]) \/ req.type \in subscribed'[r]
    PROVE  AskInv'
<1> USE DEF AskInv, envoyVars
<1>1. AskedInv'
  BY DEF AskedInv
<1>2. LinkInvariant'
  BY DEF LinkInvariant
<1> QED BY <1>1, <1>2

LEMMA AskTake ==
    ASSUME NEW S, StreamInv(S), AskInv, NEW s \in Streams, Take(s),
           UNCHANGED <<sent_version, envoyVars>>,
           \A r \in Streams :
              pc'[r] \in {"unused", "closed"} <=> pc[r] \in {"unused", "closed"}
    PROVE  AskInv'
<1>1. up' = up
  BY DEF Take
<1> QED BY <1>1, TakeRange, AskKept

LEMMA AskSend ==
    ASSUME NEW S, StreamInv(S), AskInv, NEW s \in Streams, NEW t \in Types,
           PushSend(s, t), UNCHANGED envoyVars
    PROVE  AskInv'
<1> USE DEF AskInv, envoyVars
<1>1. /\ UNCHANGED <<up, inbound, subscribed>>
      /\ \A r \in Streams \ {s} : sent_version'[r] = sent_version[r]
      /\ \A r \in Streams : pc'[r] \in {"unused", "closed"} =>
            r # s /\ pc[r] \in {"unused", "closed"}
  BY DEF StreamInv, StreamTypeOK, PushSend, Visit
<1>2. AskedInv'
  BY <1>1 DEF AskedInv
<1>3. LinkInvariant'
  BY <1>1 DEF LinkInvariant
<1> QED BY <1>2, <1>3

\* The task of a lost stream ends.
LEMMA AskClose ==
    ASSUME NEW S, StreamInv(S), AskInv, NEW s \in Streams, Close(s), ~up[s],
           UNCHANGED envoyVars
    PROVE  AskInv'
<1> USE DEF AskInv, envoyVars
<1>1. /\ up' = up
      /\ pc'[s] = "closed" /\ \A t \in Types : sent_version'[s][t] = 0
      /\ \A r \in Streams \ {s} :
            /\ pc'[r] = pc[r] /\ inbound'[r] = inbound[r]
            /\ subscribed'[r] = subscribed[r] /\ sent_version'[r] = sent_version[r]
  BY DEF Close, StreamInv, StreamTypeOK
<1>2. AskedInv'
  BY <1>1 DEF AskedInv, LinkInvariant
<1>3. LinkInvariant'
  BY <1>1 DEF LinkInvariant
<1> QED BY <1>2, <1>3

LEMMA AskCrash ==
    ASSUME NEW first, Crash(first), requested' = [s \in Streams |-> {}]
    PROVE  AskInv'
BY DEF Crash, AskInv, AskedInv, LinkInvariant

LEMMA AskSubscribe ==
    ASSUME NEW S, StreamInv(S), EnvoyTypeOK(S), AskInv, NEW s \in Streams,
           NEW t \in Types, Subscribe(s, t)
    PROVE  AskInv'
<1> DEFINE new == Subscription(t)
<1> USE DEF AskInv
<1>1. /\ UNCHANGED <<up, pc, subscribed, sent_version>>
      /\ inbound' = [inbound EXCEPT ![s] = Append(inbound[s], new)]
      /\ requested' = [requested EXCEPT ![s] = @ \cup {t}]
      /\ up[s]
  BY DEF Subscribe, taskVars
<1>2. new \in Requests /\ new.type = t
  BY DEF Subscription, Requests
<1> HIDE DEF new
<1>3. /\ inbound \in [Streams -> Seq(Requests)]
      /\ requested \in [Streams -> SUBSET Types]
  BY DEF StreamInv, StreamTypeOK, EnvoyTypeOK
<1>4. /\ Range(inbound'[s]) = Range(inbound[s]) \cup {new}
      /\ \A r \in Streams \ {s} : inbound'[r] = inbound[r]
  <2>1. Range(Append(inbound[s], new)) = Range(inbound[s]) \cup {new}
    BY <1>2, <1>3, AppendRange
  <2> QED BY <1>1, <1>3, <2>1
<1>5. AskedInv'
  BY <1>1, <1>2, <1>3, <1>4 DEF AskedInv
<1>6. LinkInvariant'
  BY <1>1, <1>3 DEF LinkInvariant
<1> QED BY <1>5, <1>6

LEMMA AskReply ==
    ASSUME NEW S, StreamInv(S), AskInv, NEW s \in Streams, NEW req \in Requests,
           Reply(s, req)
    PROVE  AskInv'
<1> USE DEF AskInv
<1>1. /\ UNCHANGED <<pc, subscribed, sent_version, up, requested>>
      /\ inbound' = [inbound EXCEPT ![s] = Append(inbound[s], req)]
      /\ inbound \in [Streams -> Seq(Requests)]
  BY DEF Reply, taskVars, StreamInv, StreamTypeOK
<1>2. \A r \in Streams : Range(inbound[r]) \subseteq Range(inbound'[r])
  <2>1. Range(Append(inbound[s], req)) = Range(inbound[s]) \cup {req}
    BY <1>1, AppendRange
  <2> QED BY <1>1, <2>1
<1>3. AskedInv'
  <2> SUFFICES ASSUME NEW r \in Streams, NEW u \in requested[r], u \notin subscribed[r]
               PROVE  \E x \in Range(inbound'[r]) : x.type = u
    BY <1>1 DEF AskedInv
  <2>1. PICK x \in Range(inbound[r]) : x.type = u
    BY DEF AskedInv
  <2> QED BY <1>2, <2>1
<1>4. LinkInvariant'
  BY <1>1 DEF LinkInvariant
<1> QED BY <1>3, <1>4

\* A stream begins with nothing sent, and ends with nothing asked for.
LEMMA AskLink ==
    ASSUME NEW S, StreamInv(S), EnvoyTypeOK(S), AskInv, NEW s \in Streams,
           Connect(s) \/ Disconnect(s)
    PROVE  AskInv'
<1> USE DEF AskInv
<1>1. CASE Connect(s)
  <2>1. /\ UNCHANGED <<inbound, subscribed, sent_version, requested>>
        /\ pc'[s] = "select" /\ up'[s]
        /\ \A r \in Streams \ {s} : pc'[r] = pc[r] /\ up'[r] = up[r]
        /\ \A r \in Streams : Owner[r] = Owner[s] => ~up[r]
    BY <1>1 DEF Connect, Connected, Open, envoyVars, StreamInv, StreamTypeOK
  <2>2. AskedInv' /\ LinkInvariant'
    BY <2>1 DEF AskedInv, LinkInvariant
  <2> QED BY <2>2
<1>2. CASE Disconnect(s)
  <2>1. /\ UNCHANGED <<inbound, pc, subscribed, sent_version>>
        /\ ~up'[s] /\ requested'[s] = {}
        /\ \A r \in Streams \ {s} : up'[r] = up[r] /\ requested'[r] = requested[r]
    BY <1>2 DEF Disconnect, Cut, taskVars, StreamInv, StreamTypeOK, EnvoyTypeOK
  <2>2. AskedInv' /\ LinkInvariant'
    BY <2>1 DEF AskedInv, LinkInvariant
  <2> QED BY <2>2
<1> QED BY <1>1, <1>2

\* With nothing on its way, a stream has been sent the advertised version of
\* what it was asked for.
LEMMA SentWhenQuiet ==
    ASSUME NEW S, StreamInv(S), AskInv, NEW s \in Streams, Quiet(s),
           NEW t \in requested[s] \cap Served
    PROVE  t \in Types /\ sent_version[s][t] = advertised.version
<1>1. t \in subscribed[s]
  BY EmptyRange DEF Quiet, AskInv, AskedInv
<1> QED BY <1>1, StreamAssumption DEF StreamInv, TaskInv, Quiet

-----------------------------------------------------------------------------
(* Where Envoy accepts what it is sent. *)

\* What a task has sent last of a type, its Envoy has or is about to get.
ServedInv ==
    /\ AskInv
    /\ \A s \in Streams, t \in Types : up[s] => Reached(s, t)

LEMMA ServedInit ==
    ASSUME NEW first, StreamInit(first), EnvoyInit
    PROVE  ServedInv
BY AskInit DEF StreamInit, ServedInv, Reached

\* A step that sends nothing.
LEMMA ServedKept ==
    ASSUME ServedInv, UNCHANGED <<up, outbound, sent_version, envoyVars>>, AskInv'
    PROVE  ServedInv'
<1>1. \A s \in Streams, t \in Types : Reached(s, t) => Reached(s, t)'
  BY DEF Reached, envoyVars
<1> QED BY <1>1 DEF ServedInv

LEMMA ServedSend ==
    ASSUME NEW S, StreamInv(S), ServedInv, NEW s \in Streams, NEW t \in Types,
           PushSend(s, t), UNCHANGED envoyVars
    PROVE  ServedInv'
<1> DEFINE resp == BuildResponse(held[s], t)
<1> USE DEF ServedInv, envoyVars
<1>1. /\ resp \in Responses(S)
      /\ resp.type = t /\ resp.snap = held[s]
  BY DEF StreamInv, HeldInv, PushSend, BuildResponse, Responses
<1>2. /\ outbound[s] \in Seq(Responses(S))
      /\ \A r \in Streams : outbound'[r] =
            IF r = s THEN Append(outbound[s], resp) ELSE outbound[r]
      /\ \A r \in Streams, u \in Types : sent_version'[r][u] =
            IF r = s /\ u = t THEN held[s].version ELSE sent_version[r][u]
      /\ up' = up
  BY DEF StreamInv, StreamTypeOK, PushSend
<1> HIDE DEF resp
<1>3. ASSUME NEW r \in Streams, NEW u \in Types, up[r] PROVE Reached(r, u)'
  <2>1. CASE r = s /\ u = t
    <3>1. LastIs(outbound'[s], t, held[s].version)
      BY <1>1, <1>2, AppendLast
    <3> QED BY <1>2, <2>1, <3>1 DEF Reached
  <2>2. CASE r = s /\ u # t
    <3> DEFINE v == sent_version[s][u]
    <3>1. outbound'[s] = Append(outbound[s], resp) /\ sent_version'[s][u] = v
      BY <1>2, <2>2
    <3> HIDE DEF v
    <3>2. /\ NoneOf(outbound[s], u) => NoneOf(Append(outbound[s], resp), u)
          /\ LastIs(outbound[s], u, v) => LastIs(Append(outbound[s], resp), u, v)
      BY <1>1, <1>2, <2>2, AppendLast
    <3> QED BY <1>3, <2>2, <3>1, <3>2 DEF Reached, v
  <2>3. CASE r # s
    <3>1. sent_version'[r][u] = sent_version[r][u] /\ outbound'[r] = outbound[r]
      BY <1>2, <2>3
    <3> QED BY <1>3, <3>1 DEF Reached
  <2> QED BY <2>1, <2>2, <2>3
<1>4. AskInv'
  BY AskSend
<1> QED BY <1>2, <1>3, <1>4

LEMMA ServedClose ==
    ASSUME NEW S, StreamInv(S), ServedInv, NEW s \in Streams, Close(s), ~up[s],
           UNCHANGED envoyVars
    PROVE  ServedInv'
<1> USE DEF ServedInv, envoyVars
<1>1. /\ up' = up
      /\ \A r \in Streams \ {s} :
            outbound'[r] = outbound[r] /\ sent_version'[r] = sent_version[r]
  BY DEF Close, StreamInv, StreamTypeOK
<1>2. ASSUME NEW r \in Streams, NEW t \in Types, up[r] PROVE Reached(r, t)'
  BY <1>1, <1>2 DEF Reached
<1>3. AskInv'
  BY AskClose
<1> QED BY <1>1, <1>2, <1>3

\* Accepting a response brings Envoy to it.
LEMMA ServedAccept ==
    ASSUME NEW S, StreamInv(S), EnvoyTypeOK(S), NoSnap \notin S, Versioned(S),
           ServedInv, NEW s \in Streams, Accept(s)
    PROVE  ServedInv'
<1> DEFINE resp == Head(outbound[s])
           ack  == Ack(resp.type, NonceOf(resp))
<1> USE DEF ServedInv
<1>1. /\ outbound \in [Streams -> Seq(Responses(S))]
      /\ running \in [Envoys -> [Types -> S \cup {NoSnap}]]
      /\ Owner \in [Streams -> Envoys]
  BY EnvoyAssumption DEF StreamInv, StreamTypeOK, EnvoyTypeOK
<1>2. /\ UNCHANGED <<sent_version, up>>
      /\ outbound' = [outbound EXCEPT ![s] = Tail(outbound[s])]
      /\ running' = [running EXCEPT ![Owner[s]][resp.type] = resp.snap]
      /\ outbound[s] # <<>> /\ up[s] /\ Reply(s, ack)
  BY DEF Accept, Reply, taskVars
<1>3. /\ resp.type \in Types /\ resp.snap \in S /\ resp.snap # NoSnap
      /\ ack \in Requests
  <2>1. resp \in Responses(S)
    BY <1>1, <1>2, TailRange
  <2> QED BY <2>1 DEF Responses, Versioned, Ack, NonceOf, Requests
<1> HIDE DEF ack
<1>4. AskInv'
  BY <1>2, <1>3, AskReply
<1>5. ASSUME NEW r \in Streams, NEW u \in Types, up[r] PROVE Reached(r, u)'
  <2>1. CASE r # s
    <3>1. Owner[r] # Owner[s]
      BY <1>2, <1>5, <2>1 DEF AskInv, LinkInvariant
    <3>2. outbound'[r] = outbound[r] /\ running'[Owner[r]][u] = running[Owner[r]][u]
      BY <1>1, <1>2, <2>1, <3>1
    <3> QED BY <1>2, <1>5, <3>2 DEF Reached
  <2>2. CASE r = s
    <3> DEFINE v == sent_version[s][u]
    <3>1. outbound'[s] = Tail(outbound[s]) /\ sent_version'[s][u] = v
      BY <1>1, <1>2
    <3>2. resp.type # u => running'[Owner[s]][u] = running[Owner[s]][u]
      BY <1>1, <1>2
    <3>3. resp.type = u => running'[Owner[s]][u] = resp.snap
      BY <1>1, <1>2, <1>3
    <3> HIDE DEF v
    <3>4. /\ NoneOf(outbound[s], u) => NoneOf(outbound'[s], u) /\ resp.type # u
          /\ LastIs(outbound[s], u, v) =>
                \/ LastIs(outbound'[s], u, v)
                \/ NoneOf(outbound'[s], u) /\ resp.type = u /\ resp.snap.version = v
      BY <1>1, <1>2, <3>1, TailLast
    <3>5. \/ v = 0
          \/ LastIs(outbound[s], u, v)
          \/ /\ NoneOf(outbound[s], u)
             /\ running[Owner[s]][u] # NoSnap
             /\ running[Owner[s]][u].version = v
      BY <1>5, <2>2 DEF Reached, v
    <3> HIDE DEF resp
    <3> QED BY <1>3, <2>2, <3>1, <3>2, <3>3, <3>4, <3>5 DEF Reached
  <2> QED BY <2>1, <2>2
<1> QED BY <1>2, <1>4, <1>5

LEMMA ServedLink ==
    ASSUME NEW S, StreamInv(S), EnvoyTypeOK(S), ServedInv, NEW s \in Streams,
           Connect(s) \/ Disconnect(s)
    PROVE  ServedInv'
<1> USE DEF ServedInv
<1>1. /\ UNCHANGED <<outbound, sent_version, running>>
      /\ Connect(s) => pc[s] = "unused"
      /\ \A r \in Streams : up'[r] => up[r] \/ (Connect(s) /\ r = s)
  BY DEF Connect, Disconnect, Open, Cut, envoyVars, taskVars, StreamInv, StreamTypeOK
<1>2. ASSUME NEW r \in Streams, NEW t \in Types, up'[r] PROVE Reached(r, t)'
  BY <1>1, <1>2 DEF Reached, AskInv, LinkInvariant
<1>3. AskInv'
  BY AskLink
<1> QED BY <1>2, <1>3

\* A quiet stream's Envoy runs the advertised version.
LEMMA ServedWhenQuiet ==
    ASSUME NEW S, StreamInv(S), ServedInv, NEW s \in Streams, Quiet(s),
           NEW t \in requested[s] \cap Served, advertised.version # 0
    PROVE  /\ running[Owner[s]][t] # NoSnap
           /\ running[Owner[s]][t].version = advertised.version
<1>1. t \in Types /\ sent_version[s][t] = advertised.version
  BY SentWhenQuiet DEF ServedInv
<1>2. Reached(s, t)
  BY <1>1 DEF Quiet, ServedInv
<1> QED BY <1>1, <1>2, EmptyLast DEF Quiet, Reached

===============================================================================
