------------------------------ MODULE DeltaStream ------------------------------
(***************************************************************************)
(* The delta ADS stream of chapter 4, and of chapter 5, which adds names   *)
(* that cover several resources.  Every resource has a version of its own; *)
(* send_delta sends the wanted resources whose version is not the one last *)
(* sent on the stream, and names those that are gone.                      *)
(*                                                                         *)
(* A snapshot gives, for each type and name, an entry [version, body] or   *)
(* Absent.  system_version_info and the nonces are left out: neither side  *)
(* acts on them.                                                           *)
(***************************************************************************)
EXTENDS AdsStream

CONSTANTS
    Names,     \* resource names
    Patterns,  \* names that a client may put in a subscription
    Covers,    \* Covers[p]: the resource names that pattern p stands for
    Star,      \* the name "*", which stands for all
    Absent     \* no resource of that name

ASSUME DeltaAssumption ==
    /\ Covers \in [Patterns -> SUBSET Names]
    /\ Star \notin Patterns

VARIABLES
    known,   \* known[s]: types for which s has a subscription
    subs,    \* subs[s][t]: the subscription, [wildcard, names]
    sent     \* sent[s][t][n]: version taken to be with the client, 0 when none

taskVars   == <<pc, held, todo, seen, known, subs, sent>>
streamVars == <<watchVars, wireVars, taskVars>>

NoSub  == [wildcard |-> FALSE, names |-> {}]
NoSent == [t \in Types |-> [n \in Names |-> 0]]

-----------------------------------------------------------------------------
(* Requests and responses. *)

Entries(Bodies) == [version : Nat \ {0}, body : Bodies]
Holding(Bodies) == [Types -> [Names -> Entries(Bodies) \cup {Absent}]]

NothingInitial == [n \in Names |-> 0]

Requests ==
    [type : Types, initial : [Names -> Nat], subscribe : SUBSET (Patterns \cup {Star}),
     unsubscribe : SUBSET (Patterns \cup {Star}), error : BOOLEAN]

Subscription(t, initial, names) ==
    [type |-> t, initial |-> initial, subscribe |-> names, unsubscribe |-> {},
     error |-> FALSE]
Unsubscription(t, names) ==
    [type |-> t, initial |-> NothingInitial, subscribe |-> {}, unsubscribe |-> names,
     error |-> FALSE]
Ack(t)  == Subscription(t, NothingInitial, {})
Nack(t) == [Ack(t) EXCEPT !.error = TRUE]

Responses(Bodies) ==
    [type : Types, resources : [Names -> Entries(Bodies) \cup {Absent}],
     removed : SUBSET Names]

StreamTypeOK(Bodies) ==
    /\ advertised \in Holding(Bodies)
    /\ changes \in Nat
    /\ up \in [Streams -> BOOLEAN]
    /\ inbound \in [Streams -> Seq(Requests)]
    /\ outbound \in [Streams -> Seq(Responses(Bodies))]
    /\ \A s \in Streams : Len(outbound[s]) <= ChanCap
    /\ pc \in [Streams -> {"unused", "select", "push", "closed"}]
    /\ held \in [Streams -> Holding(Bodies) \cup {NoSnap}]
    /\ todo \in [Streams -> SUBSET Types]
    /\ seen \in [Streams -> Nat]
    /\ known \in [Streams -> SUBSET Types]
    /\ subs \in [Streams -> [Types -> [wildcard : BOOLEAN, names : SUBSET Patterns]]]
    /\ sent \in [Streams -> [Types -> [Names -> Nat]]]

StreamInit(first) ==
    /\ advertised = first
    /\ changes = 1
    /\ up = [s \in Streams |-> FALSE]
    /\ inbound = [s \in Streams |-> <<>>]
    /\ outbound = [s \in Streams |-> <<>>]
    /\ pc = [s \in Streams |-> "unused"]
    /\ held = [s \in Streams |-> NoSnap]
    /\ todo = [s \in Streams |-> {}]
    /\ seen = [s \in Streams |-> 0]
    /\ known = [s \in Streams |-> {}]
    /\ subs = [s \in Streams |-> [t \in Types |-> NoSub]]
    /\ sent = [s \in Streams |-> NoSent]

-----------------------------------------------------------------------------
(* The stream's life. *)

Open(s) ==
    /\ pc[s] = "unused"
    /\ pc' = [pc EXCEPT ![s] = "select"]
    /\ up' = [up EXCEPT ![s] = TRUE]
    /\ seen' = [seen EXCEPT ![s] = changes]
    /\ UNCHANGED <<watchVars, inbound, outbound, held, todo, known, subs, sent>>

Cut(s) ==
    /\ up[s]
    /\ up' = [up EXCEPT ![s] = FALSE]
    /\ UNCHANGED <<watchVars, inbound, outbound, taskVars>>

\* The tasks of the streams in S end and drop what they hold.
CloseAll(S) ==
    /\ pc' = [s \in Streams |-> IF s \in S THEN "closed" ELSE pc[s]]
    /\ held' = [s \in Streams |-> IF s \in S THEN NoSnap ELSE held[s]]
    /\ todo' = [s \in Streams |-> IF s \in S THEN {} ELSE todo[s]]
    /\ inbound' = [s \in Streams |-> IF s \in S THEN <<>> ELSE inbound[s]]
    /\ outbound' = [s \in Streams |-> IF s \in S THEN <<>> ELSE outbound[s]]
    /\ known' = [s \in Streams |-> IF s \in S THEN {} ELSE known[s]]
    /\ subs' = [s \in Streams |-> IF s \in S THEN [t \in Types |-> NoSub] ELSE subs[s]]
    /\ sent' = [s \in Streams |-> IF s \in S THEN NoSent ELSE sent[s]]
    /\ seen' = [s \in Streams |-> IF s \in S THEN 0 ELSE seen[s]]

\* break 'outer
Close(s) == CloseAll({s}) /\ UNCHANGED <<watchVars, up>>

\* inbound.next() yields None or an error.
StreamEnds(s) ==
    /\ pc[s] = "select"
    /\ ~up[s]
    /\ Close(s)

-----------------------------------------------------------------------------
(* Serving requests. *)

Take(s) ==
    /\ pc[s] = "select"
    /\ inbound[s] # <<>>
    /\ inbound' = [inbound EXCEPT ![s] = Tail(@)]
    /\ UNCHANGED <<watchVars, up, outbound, seen>>

\* A NACK that takes back what was recorded as sent.
ReceiveNack_Forgets(s) ==
    /\ Take(s)
    /\ Head(inbound[s]).error
    /\ sent' = [sent EXCEPT ![s] = NoSent]
    /\ Visit(s, {Head(inbound[s]).type}, advertised)
    /\ UNCHANGED <<known, subs>>

\* A NACK is logged and nothing else.
ReceiveNack(s) ==
    /\ Take(s)
    /\ Head(inbound[s]).error
    /\ UNCHANGED <<pc, held, todo, known, subs, sent>>

\* No names left is taken for no request so far.
Subscribed_WhenEmpty(sub, req, first) ==
    LET legacy == sub = NoSub /\ req.subscribe = {} /\ req.unsubscribe = {}
    IN  [wildcard |-> \/ legacy
                      \/ /\ Star \notin req.unsubscribe
                         /\ sub.wildcard \/ Star \in req.subscribe,
         names |-> (sub.names \cup (req.subscribe \ {Star})) \ req.unsubscribe]

\* Giving a collection up takes the names with it that it covers.
Subscribed_CoveredGo(sub, req, first) ==
    LET legacy  == first /\ req.subscribe = {} /\ req.unsubscribe = {}
        Goes(p) == \E q \in req.unsubscribe \ {Star} : Covers[p] \subseteq Covers[q]
    IN  [wildcard |-> \/ legacy
                      \/ /\ Star \notin req.unsubscribe
                         /\ sub.wildcard \/ Star \in req.subscribe,
         names |-> {p \in sub.names \cup (req.subscribe \ {Star}) : ~Goes(p)}]

\* The subscription after a request: subscribe, then unsubscribe.  A first
\* request for a type without any names asks for all of them.
Subscribed(sub, req, first) ==
    LET legacy == first /\ req.subscribe = {} /\ req.unsubscribe = {}
    IN  [wildcard |-> \/ legacy
                      \/ /\ Star \notin req.unsubscribe
                         /\ sub.wildcard \/ Star \in req.subscribe,
         names |-> (sub.names \cup (req.subscribe \ {Star})) \ req.unsubscribe]

\* The versions that a client reports are not looked at.
ReceiveRequest_IgnoresInitial(s) ==
    LET req == Head(inbound[s])
        t   == req.type
    IN  /\ Take(s)
        /\ ~req.error
        /\ subs' = [subs EXCEPT ![s][t] = Subscribed(@, req, t \notin known[s])]
        /\ known' = [known EXCEPT ![s] = @ \cup {t}]
        /\ Visit(s, {t}, advertised)
        /\ UNCHANGED sent

\* Reading the advertised snapshot marks it as seen.
ReceiveRequest_MarksSeen(s) ==
    LET req == Head(inbound[s])
        t   == req.type
    IN  /\ pc[s] = "select"
        /\ inbound[s] # <<>>
        /\ ~req.error
        /\ inbound' = [inbound EXCEPT ![s] = Tail(@)]
        /\ sent' = [sent EXCEPT ![s][t] =
                      [n \in Names |-> IF req.initial[n] # 0 THEN req.initial[n] ELSE @[n]]]
        /\ subs' = [subs EXCEPT ![s][t] = Subscribed(@, req, t \notin known[s])]
        /\ known' = [known EXCEPT ![s] = @ \cup {t}]
        /\ seen' = [seen EXCEPT ![s] = changes]
        /\ Visit(s, {t}, advertised)
        /\ UNCHANGED <<watchVars, up, outbound>>

\* Any other request, an ACK included: what the client reports to have is
\* recorded as sent, the subscription is brought up to date, and the type is
\* sent from the advertised snapshot as far as it moved.
ReceiveRequest(s) ==
    LET req == Head(inbound[s])
        t   == req.type
    IN  /\ Take(s)
        /\ ~req.error
        /\ sent' = [sent EXCEPT ![s][t] =
                      [n \in Names |-> IF req.initial[n] # 0 THEN req.initial[n] ELSE @[n]]]
        /\ subs' = [subs EXCEPT ![s][t] = Subscribed(@, req, t \notin known[s])]
        /\ known' = [known EXCEPT ![s] = @ \cup {t}]
        /\ Visit(s, {t}, advertised)

\* changed() resolves: borrow_and_update, then every type with a subscription.
WatchChanged(s) ==
    /\ pc[s] = "select"
    /\ seen[s] # changes
    /\ seen' = [seen EXCEPT ![s] = changes]
    /\ Visit(s, known[s], advertised)
    /\ UNCHANGED <<watchVars, wireVars, known, subs, sent>>

-----------------------------------------------------------------------------
(* send_delta, for one type of the loop. *)

Matches(sub, n) == sub.wildcard \/ \E p \in sub.names : n \in Covers[p]

\* A resource is sent again only when its version has grown.
Moved_Newer(s, t, n) ==
    /\ Matches(subs[s][t], n)
    /\ held[s][t][n] # Absent
    /\ sent[s][t][n] < held[s][t][n].version

\* The wanted resources at another version than the one last sent.
Moved(s, t, n) ==
    /\ Matches(subs[s][t], n)
    /\ held[s][t][n] # Absent
    /\ sent[s][t][n] # held[s][t][n].version

\* Only names subscribed to as such are looked for, which was enough in
\* chapter 4.
Gone_ByName(s, t) ==
    {n \in Names : /\ sent[s][t][n] # 0
                   /\ held[s][t][n] = Absent
                   /\ subs[s][t].wildcard \/ \E p \in subs[s][t].names : Covers[p] = {n}}

\* What a client reports is removed whether or not it has subscribed to it.
Gone_Unasked(s, t) ==
    {n \in Names : sent[s][t][n] # 0 /\ held[s][t][n] = Absent}

\* The wanted resources that the client has and the snapshot has not.
Gone(s, t) ==
    {n \in Names : sent[s][t][n] # 0 /\ Matches(subs[s][t], n) /\ held[s][t][n] = Absent}

Nothing(s, t) == Gone(s, t) = {} /\ \A n \in Names : ~Moved(s, t, n)

SendNothing(s, t) ==
    /\ pc[s] = "push"
    /\ t \in todo[s]
    /\ Nothing(s, t)
    /\ Visit(s, todo[s] \ {t}, held[s])
    /\ UNCHANGED <<watchVars, wireVars, seen, known, subs, sent>>

\* A channel without a bound.
SendDelta_Unbounded(s, t) ==
    /\ pc[s] = "push"
    /\ t \in todo[s]
    /\ ~Nothing(s, t)
    /\ outbound' = [outbound EXCEPT ![s] = Append(@,
           [type |-> t,
            resources |-> [n \in Names |-> IF Moved(s, t, n) THEN held[s][t][n] ELSE Absent],
            removed |-> Gone(s, t)])]
    /\ sent' = [sent EXCEPT ![s][t] =
           [n \in Names |-> IF Moved(s, t, n) THEN held[s][t][n].version
                            ELSE IF n \in Gone(s, t) THEN 0 ELSE @[n]]]
    /\ Visit(s, todo[s] \ {t}, held[s])
    /\ UNCHANGED <<watchVars, up, inbound, seen, known, subs>>

\* The response goes out and the resources in it are not recorded.
SendDelta_Unrecorded(s, t) ==
    /\ pc[s] = "push"
    /\ t \in todo[s]
    /\ ~Nothing(s, t)
    /\ Len(outbound[s]) < ChanCap
    /\ outbound' = [outbound EXCEPT ![s] = Append(@,
           [type |-> t,
            resources |-> [n \in Names |-> IF Moved(s, t, n) THEN held[s][t][n] ELSE Absent],
            removed |-> Gone(s, t)])]
    /\ Visit(s, todo[s] \ {t}, held[s])
    /\ UNCHANGED <<watchVars, up, inbound, seen, known, subs, sent>>

\* sent is updated before tx.send, which waits while the channel is full; the
\* task does nothing else meanwhile, so one step stands for both.
SendDelta(s, t) ==
    /\ pc[s] = "push"
    /\ t \in todo[s]
    /\ ~Nothing(s, t)
    /\ Len(outbound[s]) < ChanCap
    /\ outbound' = [outbound EXCEPT ![s] = Append(@,
           [type |-> t,
            resources |-> [n \in Names |-> IF Moved(s, t, n) THEN held[s][t][n] ELSE Absent],
            removed |-> Gone(s, t)])]
    /\ sent' = [sent EXCEPT ![s][t] =
           [n \in Names |-> IF Moved(s, t, n) THEN held[s][t][n].version
                            ELSE IF n \in Gone(s, t) THEN 0 ELSE @[n]]]
    /\ Visit(s, todo[s] \ {t}, held[s])
    /\ UNCHANGED <<watchVars, up, inbound, seen, known, subs>>

\* tx.send fails: the receiving half went away with the connection.
SendFails(s, t) ==
    /\ pc[s] = "push"
    /\ ~up[s]
    /\ t \in todo[s]
    /\ ~Nothing(s, t)
    /\ Close(s)

Send(s) == \E t \in Types : SendNothing(s, t) \/ SendDelta(s, t) \/ SendFails(s, t)

\* The steps of stream s's task.
Task(s) ==
    \/ ReceiveNack(s)
    \/ ReceiveRequest(s)
    \/ WatchChanged(s)
    \/ Send(s)
    \/ StreamEnds(s)

===============================================================================
