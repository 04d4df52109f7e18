------------------------------ MODULE SotwStream ------------------------------
(***************************************************************************)
(* The state-of-the-world ADS stream of chapter 2, which chapters 3 and 6  *)
(* repeat line for line: push_if_new sends every resource of a type when   *)
(* the snapshot's version is not the one last sent.                        *)
(*                                                                         *)
(* A snapshot is a record [version, body]: version is the number n of the  *)
(* string "vn", body is what tells two snapshots of a chapter apart.  The  *)
(* control plane that fills the watch channel, the NACK arm (the one arm   *)
(* in which the chapters differ) and the Envoy at the far end belong to    *)
(* the modules that extend this one.                                       *)
(***************************************************************************)
EXTENDS AdsStream

CONSTANT
    Served     \* resource types every snapshot holds resources of

ASSUME StreamAssumption == Served \subseteq Types

VARIABLES
    subscribed,    \* subscribed[s]: types seen in a request of s
    sent_version   \* sent_version[s][t]: last version sent, 0 when none

taskVars  == <<pc, held, todo, subscribed, sent_version, seen>>
streamVars == <<watchVars, wireVars, taskVars>>

-----------------------------------------------------------------------------
(* Requests and responses.  A request carries no version that the server   *)
(* acts on: it looks at error_detail and at whether the nonce is empty (0).*)

Subscription(t) == [type |-> t, nonce |-> 0, error |-> FALSE]
Ack(t, n)       == [type |-> t, nonce |-> n, error |-> FALSE]
Nack(t, n)      == [type |-> t, nonce |-> n, error |-> TRUE]

Requests == [type : Types, nonce : Nat, error : BOOLEAN]

\* build_response: the resources of one type, stamped with the snapshot's
\* version.  The nonce is made of the type and that version.
BuildResponse(snap, t) == [type |-> t, snap |-> snap]
NonceOf(resp) == resp.snap.version

Responses(Snapshots) == [type : Types, snap : Snapshots]

StreamTypeOK(Snapshots) ==
    /\ advertised \in Snapshots
    /\ changes \in Nat
    /\ up \in [Streams -> BOOLEAN]
    /\ inbound \in [Streams -> Seq(Requests)]
    /\ outbound \in [Streams -> Seq(Responses(Snapshots))]
    /\ \A s \in Streams : Len(outbound[s]) <= ChanCap
    /\ pc \in [Streams -> {"unused", "select", "push", "rollback", "closed"}]
    /\ held \in [Streams -> Snapshots \cup {NoSnap}]
    /\ todo \in [Streams -> SUBSET Types]
    /\ subscribed \in [Streams -> SUBSET Types]
    /\ sent_version \in [Streams -> [Types -> Nat]]
    /\ seen \in [Streams -> Nat]

StreamInit(first) ==
    /\ advertised = first
    /\ changes = 1
    /\ up = [s \in Streams |-> FALSE]
    /\ inbound = [s \in Streams |-> <<>>]
    /\ outbound = [s \in Streams |-> <<>>]
    /\ pc = [s \in Streams |-> "unused"]
    /\ held = [s \in Streams |-> NoSnap]
    /\ todo = [s \in Streams |-> {}]
    /\ subscribed = [s \in Streams |-> {}]
    /\ sent_version = [s \in Streams |-> [t \in Types |-> 0]]
    /\ seen = [s \in Streams |-> 0]

-----------------------------------------------------------------------------
(* The stream's life. *)

\* The handler spawns the task, whose first step subscribes to the watch
\* channel: the value held at that moment counts as seen.
Open(s) ==
    /\ pc[s] = "unused"
    /\ pc' = [pc EXCEPT ![s] = "select"]
    /\ up' = [up EXCEPT ![s] = TRUE]
    /\ seen' = [seen EXCEPT ![s] = changes]
    /\ UNCHANGED <<watchVars, inbound, outbound, held, todo, subscribed,
                   sent_version>>

\* The connection is lost.  The task notices when it next uses the stream.
Cut(s) ==
    /\ up[s]
    /\ up' = [up EXCEPT ![s] = FALSE]
    /\ UNCHANGED <<watchVars, inbound, outbound, taskVars>>

\* break 'outer: the task ends and drops its locals and both channels.
Close(s) ==
    /\ pc' = [pc EXCEPT ![s] = "closed"]
    /\ held' = [held EXCEPT ![s] = NoSnap]
    /\ todo' = [todo EXCEPT ![s] = {}]
    /\ inbound' = [inbound EXCEPT ![s] = <<>>]
    /\ outbound' = [outbound EXCEPT ![s] = <<>>]
    /\ subscribed' = [subscribed EXCEPT ![s] = {}]
    /\ sent_version' = [sent_version EXCEPT ![s] = [t \in Types |-> 0]]
    /\ seen' = [seen EXCEPT ![s] = 0]
    /\ UNCHANGED <<watchVars, up>>

\* The process ends and is started again, with first in its watch channel.
Crash(first) ==
    /\ advertised' = first
    /\ changes' = 1
    /\ up' = [s \in Streams |-> FALSE]
    /\ inbound' = [s \in Streams |-> <<>>]
    /\ outbound' = [s \in Streams |-> <<>>]
    /\ pc' = [s \in Streams |-> IF pc[s] = "unused" THEN "unused" ELSE "closed"]
    /\ held' = [s \in Streams |-> NoSnap]
    /\ todo' = [s \in Streams |-> {}]
    /\ subscribed' = [s \in Streams |-> {}]
    /\ sent_version' = [s \in Streams |-> [t \in Types |-> 0]]
    /\ seen' = [s \in Streams |-> 0]

\* inbound.next() yields None or an error.
StreamEnds(s) ==
    /\ pc[s] = "select"
    /\ ~up[s]
    /\ Close(s)

-----------------------------------------------------------------------------
(* Serving requests.  The select! is biased towards inbound, but inbound[s]*)
(* includes requests that have not arrived yet, so a request in it does    *)
(* not rule out the watch arm.                                             *)

\* Take the next request: its type counts as subscribed whatever it says.
Take(s) ==
    /\ pc[s] = "select"
    /\ inbound[s] # <<>>
    /\ inbound' = [inbound EXCEPT ![s] = Tail(@)]
    /\ subscribed' = [subscribed EXCEPT ![s] = @ \cup {Head(inbound[s]).type}]
    /\ UNCHANGED <<up, outbound>>

\* An empty nonce: a subscription, answered from the advertised snapshot.
\* borrow() does not mark that value as seen.
ReceiveSubscription_MarksSeen(s) ==
    /\ Take(s)
    /\ ~Head(inbound[s]).error
    /\ Head(inbound[s]).nonce = 0
    /\ Visit(s, {Head(inbound[s]).type}, advertised)
    /\ seen' = [seen EXCEPT ![s] = changes]
    /\ UNCHANGED <<watchVars, sent_version>>

ReceiveSubscription(s) ==
    /\ Take(s)
    /\ ~Head(inbound[s]).error
    /\ Head(inbound[s]).nonce = 0
    /\ Visit(s, {Head(inbound[s]).type}, advertised)
    /\ UNCHANGED <<watchVars, sent_version, seen>>

\* A nonce and no error: an ACK, which is logged and nothing else.
ReceiveAck(s) ==
    /\ Take(s)
    /\ ~Head(inbound[s]).error
    /\ Head(inbound[s]).nonce # 0
    /\ UNCHANGED <<watchVars, pc, held, todo, sent_version, seen>>

\* changed() resolves: borrow_and_update, then push every subscribed type.
WatchChanged(s) ==
    /\ pc[s] = "select"
    /\ seen[s] # changes
    /\ seen' = [seen EXCEPT ![s] = changes]
    /\ Visit(s, subscribed[s], advertised)
    /\ UNCHANGED <<watchVars, wireVars, subscribed, sent_version>>

-----------------------------------------------------------------------------
(* push_if_new, for one type of the loop (HashSet order: any).             *)

UpToDate_Newer(s, t) ==
    \/ sent_version[s][t] >= held[s].version
    \/ t \notin Served

\* The early returns: this version was already sent, or there is no response
\* to build for the type.
UpToDate(s, t) ==
    \/ sent_version[s][t] = held[s].version
    \/ t \notin Served

\* An early return that leaves the caller's loop as well.
PushSkip_Stops(s, t) ==
    /\ pc[s] = "push"
    /\ t \in todo[s]
    /\ UpToDate(s, t)
    /\ Visit(s, {}, held[s])
    /\ UNCHANGED <<watchVars, wireVars, subscribed, sent_version, seen>>

PushSkip(s, t) ==
    /\ pc[s] = "push"
    /\ t \in todo[s]
    /\ UpToDate(s, t)
    /\ Visit(s, todo[s] \ {t}, held[s])
    /\ UNCHANGED <<watchVars, wireVars, subscribed, sent_version, seen>>

\* An unbounded channel.
PushSend_Unbounded(s, t) ==
    /\ pc[s] = "push"
    /\ t \in todo[s]
    /\ ~UpToDate(s, t)
    /\ outbound' = [outbound EXCEPT ![s] = Append(@, BuildResponse(held[s], t))]
    /\ sent_version' = [sent_version EXCEPT ![s][t] = held[s].version]
    /\ Visit(s, todo[s] \ {t}, held[s])
    /\ UNCHANGED <<watchVars, up, inbound, subscribed, seen>>

\* tx.send waits while the channel is full.
PushSend(s, t) ==
    /\ pc[s] = "push"
    /\ t \in todo[s]
    /\ ~UpToDate(s, t)
    /\ Len(outbound[s]) < ChanCap
    /\ outbound' = [outbound EXCEPT ![s] = Append(@, BuildResponse(held[s], t))]
    /\ sent_version' = [sent_version EXCEPT ![s][t] = held[s].version]
    /\ Visit(s, todo[s] \ {t}, held[s])
    /\ UNCHANGED <<watchVars, up, inbound, subscribed, seen>>

\* tx.send fails: the receiving half went away with the connection.
PushFails(s, t) ==
    /\ pc[s] = "push"
    /\ ~up[s]
    /\ t \in todo[s]
    /\ ~UpToDate(s, t)
    /\ Close(s)

Push(s) == \E t \in Types : PushSkip(s, t) \/ PushSend(s, t) \/ PushFails(s, t)

-----------------------------------------------------------------------------
(* What every chapter's stream owes its client.                            *)

\* A task back in its select! with no unseen change has sent the advertised
\* version of every type its client subscribed to: no change made while the
\* task was busy or blocked on a full channel is lost.
NoLostPush ==
    \A s \in Streams :
        pc[s] = "select" /\ seen[s] = changes =>
            \A t \in subscribed[s] \cap Served :
                sent_version[s][t] = advertised.version

===============================================================================
