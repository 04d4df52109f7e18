-------------------------------- MODULE HelloXds --------------------------------
(***************************************************************************)
(* Chapter 1: one snapshot, "v1", loaded at start-up, and one task per     *)
(* stream that answers requests one after the other.  The tasks share      *)
(* nothing that changes, so one client with one stream at a time is the    *)
(* whole system; a new stream finds a new task.                            *)
(***************************************************************************)
EXTENDS StartUp, Sequences, Functions

CONSTANTS
    Types,            \* resource types a client may ask for
    Served,           \* resource types of the snapshot
    Roots,            \* types the client asks for from the start
    References,       \* References[t]: types that resources of type t refer to
    ChanCap,          \* capacity of the mpsc channel behind a stream
    MaxRefusals,      \* bound: refusals by the client
    MaxResubscribes,  \* bound: requests that update a subscription
    MaxStreams        \* bound: streams opened

ASSUME HelloAssumption ==
    /\ Served \subseteq Types
    /\ Roots \subseteq Types
    /\ References \in [Types -> SUBSET Types]
    /\ ChanCap \in Nat \ {0}
    /\ {MaxRefusals, MaxResubscribes, MaxStreams} \subseteq Nat

VARIABLES
    up,             \* the transport below the stream is intact
    inbound,        \* requests not yet read
    outbound,       \* responses not yet read by the client, by their types
    pc,             \* where the task is
    reply,          \* the type being sent, and whether it will be recorded
    sent_versions,  \* types recorded as sent
    streams,        \* streams opened so far
    asked,          \* types the client has asked for on the stream
    answered,       \* types of which it has had a response on the stream
    running,        \* types whose resources it has accepted, at version v1
    refusals,       \* refusals so far
    resubscribes    \* updates of subscriptions so far

taskVars   == <<pc, reply, sent_versions>>
clientVars == <<streams, asked, answered, running, refusals, resubscribes>>
streamVars == <<up, inbound, outbound, taskVars, clientVars>>
vars == <<startVars, streamVars>>

\* v1 says whether version_info is "v1", nonce whether there is one.
Requests == [type : Types, v1 : BOOLEAN, nonce : BOOLEAN, error : BOOLEAN]

NoReply == [type |-> "none", record |-> FALSE]

TypeOK ==
    /\ StartUpTypeOK
    /\ up \in BOOLEAN
    /\ inbound \in Seq(Requests)
    /\ outbound \in Seq(Types)
    /\ Len(outbound) <= ChanCap
    /\ pc \in {"closed", "next", "send"}
    /\ reply \in [type : Types, record : BOOLEAN] \cup {NoReply}
    /\ sent_versions \subseteq Types
    /\ asked \subseteq Types
    /\ answered \subseteq Types
    /\ running \subseteq Types
    /\ {streams, refusals, resubscribes} \subseteq Nat

Init ==
    /\ StartUpInit
    /\ up = FALSE
    /\ inbound = <<>>
    /\ outbound = <<>>
    /\ pc = "closed"
    /\ reply = NoReply
    /\ sent_versions = {}
    /\ asked = {}
    /\ answered = {}
    /\ running = {}
    /\ streams = 0
    /\ refusals = 0
    /\ resubscribes = 0

-----------------------------------------------------------------------------
(* The task.  It reads a request when it has dealt with the one before.    *)

Take ==
    /\ pc = "next"
    /\ inbound # <<>>
    /\ inbound' = Tail(inbound)
    /\ UNCHANGED <<up, outbound, sent_versions, clientVars>>

\* tx.send begins.
Answer(t, record) ==
    /\ pc' = "send"
    /\ reply' = [type |-> t, record |-> record]

Ignore == UNCHANGED <<pc, reply>>

Close ==
    /\ pc' = "closed"
    /\ reply' = NoReply
    /\ sent_versions' = {}
    /\ inbound' = <<>>
    /\ outbound' = <<>>
    /\ UNCHANGED <<up, clientVars>>

\* A NACK that is logged and nothing else.
ReceiveNack_Logs ==
    /\ Take
    /\ Head(inbound).error
    /\ Ignore

\* A NACK: the snapshot is sent again, without a record.
ReceiveNack ==
    /\ Take
    /\ Head(inbound).error
    /\ LET t == Head(inbound).type
       IN  IF t \in Served THEN Answer(t, FALSE) ELSE Ignore

\* An ACK has a nonce and the snapshot's version.
IsAck(req) == ~req.error /\ req.nonce /\ req.v1

ReceiveAck ==
    /\ Take
    /\ IsAck(Head(inbound))
    /\ Ignore

\* Whatever was sent before is sent again on request.
AlreadySent_Never(t) == FALSE

AlreadySent(t) == t \in sent_versions

\* Otherwise the request is taken as a subscription, unless it repeats one or
\* asks for a type that the snapshot does not have.
ReceiveSubscription ==
    /\ Take
    /\ LET req == Head(inbound)
       IN  /\ ~req.error
           /\ ~IsAck(req)
           /\ IF AlreadySent(req.type) \/ req.type \notin Served
              THEN Ignore
              ELSE Answer(req.type, TRUE)

\* A channel without a bound.
Send_Unbounded ==
    /\ pc = "send"
    /\ outbound' = Append(outbound, reply.type)
    /\ sent_versions' = IF reply.record THEN sent_versions \cup {reply.type}
                        ELSE sent_versions
    /\ pc' = "next"
    /\ reply' = NoReply
    /\ UNCHANGED <<up, inbound, clientVars>>

\* tx.send waits while the channel is full.
Send ==
    /\ pc = "send"
    /\ Len(outbound) < ChanCap
    /\ outbound' = Append(outbound, reply.type)
    /\ sent_versions' = IF reply.record THEN sent_versions \cup {reply.type}
                        ELSE sent_versions
    /\ pc' = "next"
    /\ reply' = NoReply
    /\ UNCHANGED <<up, inbound, clientVars>>

\* tx.send fails with the connection.  After a NACK that is ignored, and the
\* task goes on to find that there are no more requests.
SendFails ==
    /\ pc = "send"
    /\ ~up
    /\ IF reply.record
       THEN Close
       ELSE /\ pc' = "next"
            /\ reply' = NoReply
            /\ UNCHANGED <<up, inbound, outbound, sent_versions, clientVars>>

StreamEnds ==
    /\ pc = "next"
    /\ ~up
    /\ Close

Task == ReceiveNack \/ ReceiveAck \/ ReceiveSubscription \/ Send \/ SendFails \/ StreamEnds

-----------------------------------------------------------------------------
(* The client, which is not in the repository, as the server sees it.  Its *)
(* requests carry the version it has accepted and, once it has had a       *)
(* response on the stream, that response's nonce.                          *)

Connect ==
    /\ stage = "serving"
    /\ ~up
    /\ pc = "closed"
    /\ streams < MaxStreams
    /\ up' = TRUE
    /\ pc' = "next"
    /\ streams' = streams + 1
    /\ asked' = {}
    /\ answered' = {}
    /\ UNCHANGED <<inbound, outbound, reply, sent_versions, running, refusals,
                   resubscribes>>

Disconnect ==
    /\ up
    /\ up' = FALSE
    /\ UNCHANGED <<inbound, outbound, taskVars, clientVars>>

Wanted == Roots \cup UNION {References[t] : t \in running}

Request(t, accepted, nonce, error) ==
    inbound' = Append(inbound, [type |-> t, v1 |-> t \in accepted, nonce |-> nonce,
                                error |-> error])

Subscribe(t) ==
    /\ up
    /\ t \in Wanted \ asked
    /\ asked' = asked \cup {t}
    /\ Request(t, running, FALSE, FALSE)
    /\ UNCHANGED <<up, outbound, taskVars, streams, answered, running, refusals,
                   resubscribes>>

\* The client asks for other names of a type it has asked for.
Resubscribe(t) ==
    /\ up
    /\ t \in asked
    /\ resubscribes < MaxResubscribes
    /\ resubscribes' = resubscribes + 1
    /\ Request(t, running, t \in answered, FALSE)
    /\ UNCHANGED <<up, outbound, taskVars, streams, asked, answered, running, refusals>>

Read ==
    /\ up
    /\ outbound # <<>>
    /\ outbound' = Tail(outbound)
    /\ answered' = answered \cup {Head(outbound)}
    /\ UNCHANGED <<up, taskVars, streams, asked, resubscribes>>

Accept ==
    /\ Read
    /\ running' = running \cup {Head(outbound)}
    /\ Request(Head(outbound), running', TRUE, FALSE)
    /\ UNCHANGED refusals

\* A refusal for a reason that passes, like a port in use.
Reject ==
    /\ Read
    /\ refusals < MaxRefusals
    /\ refusals' = refusals + 1
    /\ Request(Head(outbound), running, TRUE, TRUE)
    /\ UNCHANGED running

Client == (\E t \in Types : Subscribe(t)) \/ Accept \/ Reject

Start == Starting /\ UNCHANGED streamVars
Serve == Task /\ UNCHANGED startVars
Envoy == Client /\ UNCHANGED startVars
Link  == Connect /\ UNCHANGED startVars

Next ==
    \/ Start
    \/ Serve
    \/ Envoy
    \/ Link
    \/ (Disconnect \/ \E t \in Types : Resubscribe(t)) /\ UNCHANGED startVars

\* The start-up, the task and the client go on; nothing has to break, and a
\* subscription need not be updated.
Fairness == WF_vars(Start) /\ WF_vars(Serve) /\ WF_vars(Envoy) /\ WF_vars(Link)

Spec == Init /\ [][Next]_vars
FairSpec == Spec /\ Fairness

-----------------------------------------------------------------------------
\* main.rs: sent_versions is there "so we don't reply on every keepalive ACK".
\* Here: no two responses of a type are on their way, or about to be, at once,
\* whatever updates of its subscription and NACKs the client sends.
OneAnswerInFlight ==
    \A i, j \in 1 .. Len(outbound) :
        /\ outbound[i] = outbound[j] => i = j
        /\ pc = "send" => outbound[i] # reply.type

\* A client comes to run all it wants of the snapshot unless the upstream's
\* name was never found or the client gave up connecting: failed lookups only
\* put the start-up off, and a refusal that passes is made good on the same
\* stream, as a NACK is answered with the snapshot again.
ClientIsServed ==
    <>[](\/ Wanted \cap Served \subseteq running
         \/ stage = "stopped"
         \/ ~up /\ streams = MaxStreams)

===============================================================================
