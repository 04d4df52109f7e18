----------------------------- MODULE HelloXdsProofs -----------------------------
(***************************************************************************)
(* Chapter 1: types, and that no type is answered twice at a time, for any *)
(* types, capacity and bounds.                                             *)
(***************************************************************************)
EXTENDS HelloXds, SequenceTheorems, TLAPS

\* A response is in one of three places: about to be sent, on its way, or
\* coming back as a NACK, which will be answered with it again.  No type is in
\* two of them, or in one of them twice; and while it is in any, a request for
\* it finds it recorded as sent, unless the task is just about to record it.
AnswerInv ==
    /\ \A i \in 1 .. Len(outbound) :
          /\ outbound[i] \in sent_versions
          /\ \A j \in 1 .. Len(outbound) : outbound[i] = outbound[j] => i = j
    /\ \A i \in 1 .. Len(inbound) : inbound[i].error =>
          /\ inbound[i].type \in sent_versions
          /\ \A j \in 1 .. Len(inbound) :
                inbound[j].error /\ inbound[j].type = inbound[i].type => i = j
          /\ \A j \in 1 .. Len(outbound) : outbound[j] # inbound[i].type
    /\ pc = "send" =>
          /\ reply \in [type : Types, record : BOOLEAN]
          /\ reply.record <=> reply.type \notin sent_versions
          /\ \A i \in 1 .. Len(outbound) : outbound[i] # reply.type
          /\ \A i \in 1 .. Len(inbound) : inbound[i].error => inbound[i].type # reply.type

\* The inductive invariant.
IInv == TypeOK /\ AnswerInv

-----------------------------------------------------------------------------
(* Queues. *)

\* Reading the head of a queue.
LEMMA QueueTail ==
    ASSUME NEW T, NEW q \in Seq(T), q # <<>>
    PROVE  /\ Len(q) \in Nat \ {0}
           /\ Head(q) = q[1] /\ q[1] \in T
           /\ Tail(q) \in Seq(T)
           /\ Len(Tail(q)) = Len(q) - 1
           /\ \A i \in 1 .. Len(Tail(q)) : Tail(q)[i] = q[i + 1] /\ i + 1 \in 2 .. Len(q)
<1>1. Len(q) \in Nat \ {0}
  BY EmptySeq, LenProperties
<1>2. /\ Head(q) \in T
      /\ Tail(q) \in Seq(T)
      /\ Len(Tail(q)) = Len(q) - 1
      /\ \A i \in 1 .. Len(Tail(q)) : Tail(q)[i] = q[i + 1]
  BY HeadTailProperties
<1>3. Head(q) = q[1]
  OBVIOUS
<1> QED BY <1>1, <1>2, <1>3

\* Writing to a queue.
LEMMA QueueAppend ==
    ASSUME NEW T, NEW q \in Seq(T), NEW x \in T
    PROVE  /\ Len(q) \in Nat
           /\ Append(q, x) \in Seq(T)
           /\ Len(Append(q, x)) = Len(q) + 1
           /\ Append(q, x)[Len(q) + 1] = x
           /\ \A i \in 1 .. Len(q) : Append(q, x)[i] = q[i]
BY AppendProperties, LenProperties

LEMMA EmptyQueue == ASSUME NEW T PROVE <<>> \in Seq(T) /\ Len(<<>>) = 0
BY EmptySeq

-----------------------------------------------------------------------------
(* The start. *)

LEMMA InitIInv == Init => IInv
<1> SUFFICES ASSUME Init PROVE IInv
  OBVIOUS
<1>1. StartUpTypeOK
  BY StartUpAssumption DEF Init, StartUpInit, StartUpTypeOK
<1>2. TypeOK
  <2>1. inbound \in Seq(Requests) /\ outbound \in Seq(Types) /\ Len(outbound) = 0
    BY EmptyQueue DEF Init
  <2>2. Len(outbound) <= ChanCap
    BY <2>1, HelloAssumption
  <2>3. up = FALSE /\ pc = "closed" /\ reply = NoReply
    BY DEF Init
  <2>4. sent_versions = {} /\ asked = {} /\ answered = {} /\ running = {}
    BY DEF Init
  <2>5. streams = 0 /\ refusals = 0 /\ resubscribes = 0
    BY DEF Init
  <2>6. {streams, refusals, resubscribes} \subseteq Nat
    BY <2>5
  <2>7. /\ sent_versions \subseteq Types /\ asked \subseteq Types
        /\ answered \subseteq Types /\ running \subseteq Types
    BY <2>4
  <2>8. up \in BOOLEAN /\ pc \in {"closed", "next", "send"}
    BY <2>3
  <2> QED BY <1>1, <2>1, <2>2, <2>3, <2>6, <2>7, <2>8 DEF TypeOK
<1>3. AnswerInv
  BY EmptyQueue DEF Init, AnswerInv
<1> QED BY <1>2, <1>3 DEF IInv

\* A step of the start-up.
LEMMA StartInv == ASSUME IInv, Start PROVE IInv'
<1>1. StartUpTypeOK'
  BY StartUpAssumption
     DEF IInv, TypeOK, StartUpTypeOK, Start, Starting, LookupFinds, LookupFails, Pause
<1>2. TypeOK'
  BY <1>1 DEF IInv, TypeOK, Start, streamVars, taskVars, clientVars
<1>3. AnswerInv'
  BY DEF IInv, AnswerInv, Start, streamVars, taskVars, clientVars
<1> QED BY <1>2, <1>3 DEF IInv

-----------------------------------------------------------------------------
(* The task. *)

\* Taking a request, whatever it is, keeps what is in order in the queues.
LEMMA TakeInv ==
    ASSUME IInv, Take
    PROVE  /\ inbound' \in Seq(Requests)
           /\ Head(inbound) \in Requests
           /\ Head(inbound) = inbound[1] /\ 1 \in 1 .. Len(inbound)
           /\ \A i \in 1 .. Len(inbound') :
                 inbound'[i] = inbound[i + 1] /\ i + 1 \in 2 .. Len(inbound)
           /\ \A i \in 1 .. Len(inbound') : inbound'[i].error =>
                 /\ inbound'[i].type \in sent_versions
                 /\ \A j \in 1 .. Len(inbound') :
                       inbound'[j].error /\ inbound'[j].type = inbound'[i].type => i = j
                 /\ \A j \in 1 .. Len(outbound) : outbound[j] # inbound'[i].type
<1>1. /\ inbound \in Seq(Requests) /\ inbound # <<>>
      /\ inbound' = Tail(inbound)
  BY DEF IInv, TypeOK, Take
<1>2. /\ Len(inbound) \in Nat \ {0}
      /\ Head(inbound) = inbound[1] /\ inbound[1] \in Requests
      /\ inbound' \in Seq(Requests)
      /\ Len(inbound') = Len(inbound) - 1
      /\ \A i \in 1 .. Len(inbound') :
            inbound'[i] = inbound[i + 1] /\ i + 1 \in 2 .. Len(inbound)
  BY <1>1, QueueTail
<1>3. ASSUME NEW i \in 1 .. Len(inbound'), inbound'[i].error
      PROVE  /\ inbound'[i].type \in sent_versions
             /\ \A j \in 1 .. Len(inbound') :
                   inbound'[j].error /\ inbound'[j].type = inbound'[i].type => i = j
             /\ \A j \in 1 .. Len(outbound) : outbound[j] # inbound'[i].type
  <2>1. inbound'[i] = inbound[i + 1] /\ i + 1 \in 1 .. Len(inbound)
    BY <1>2
  <2>2. ASSUME NEW j \in 1 .. Len(inbound'),
               inbound'[j].error, inbound'[j].type = inbound'[i].type
        PROVE  i = j
    <3>1. inbound'[j] = inbound[j + 1] /\ j + 1 \in 1 .. Len(inbound)
      BY <1>2
    <3>2. i + 1 = j + 1
      BY <1>3, <2>1, <2>2, <3>1 DEF IInv, AnswerInv
    <3> QED BY <1>2, <3>2
  <2> QED BY <1>3, <2>1, <2>2 DEF IInv, AnswerInv
<1> QED BY <1>2, <1>3

\* A request that is not answered.
LEMMA IgnoreInv ==
    ASSUME IInv, Take, Ignore, UNCHANGED startVars
    PROVE  IInv'
<1>1. UNCHANGED <<up, outbound, sent_versions, clientVars, pc, reply, startVars>> /\ pc = "next"
  BY DEF Take, Ignore
<1>2. TypeOK'
  BY <1>1, TakeInv DEF IInv, TypeOK, StartUpTypeOK, startVars, clientVars
<1>3. AnswerInv'
  BY <1>1, TakeInv DEF IInv, AnswerInv
<1> QED BY <1>2, <1>3 DEF IInv

\* One that is.
LEMMA AnswerStepInv ==
    ASSUME IInv, Take, UNCHANGED startVars,
           NEW t \in Types, NEW record \in BOOLEAN, Answer(t, record),
           record <=> t \notin sent_versions,
           \A i \in 1 .. Len(outbound) : outbound[i] # t,
           \A i \in 1 .. Len(inbound') : inbound'[i].error => inbound'[i].type # t
    PROVE  IInv'
<1>1. /\ UNCHANGED <<up, outbound, sent_versions, clientVars, startVars>>
      /\ pc' = "send" /\ reply' = [type |-> t, record |-> record]
  BY DEF Take, Answer
<1>2. TypeOK'
  BY <1>1, TakeInv DEF IInv, TypeOK, StartUpTypeOK, startVars, clientVars
<1>3. AnswerInv'
  BY <1>1, TakeInv DEF IInv, AnswerInv
<1> QED BY <1>2, <1>3 DEF IInv

\* A NACK leaves inbound, and its type is nowhere else.
LEMMA ReceiveNackInv == ASSUME IInv, ReceiveNack, UNCHANGED startVars PROVE IInv'
<1> DEFINE t == Head(inbound).type
<1>1. Take /\ Head(inbound).error
  BY DEF ReceiveNack
<1>2. CASE t \notin Served
  BY <1>1, <1>2, IgnoreInv DEF ReceiveNack
<1>3. CASE t \in Served
  <2>1. Answer(t, FALSE) /\ t \in Types
    BY <1>1, <1>3, HelloAssumption DEF ReceiveNack
  <2>2. /\ t \in sent_versions
        /\ \A i \in 1 .. Len(outbound) : outbound[i] # t
        /\ \A i \in 2 .. Len(inbound) : inbound[i].error => inbound[i].type # t
    BY <1>1, TakeInv DEF IInv, AnswerInv
  <2>3. \A i \in 1 .. Len(inbound') : inbound'[i].error => inbound'[i].type # t
    BY <1>1, <2>2, TakeInv
  <2> HIDE DEF t
  <2> QED BY <1>1, <2>1, <2>2, <2>3, AnswerStepInv
<1> QED BY <1>2, <1>3

\* A subscription is answered when no answer to it is recorded.
LEMMA ReceiveSubscriptionInv ==
    ASSUME IInv, ReceiveSubscription, UNCHANGED startVars
    PROVE  IInv'
<1> DEFINE t == Head(inbound).type
<1>1. Take
  BY DEF ReceiveSubscription
<1>2. CASE AlreadySent(t) \/ t \notin Served
  BY <1>1, <1>2, IgnoreInv DEF ReceiveSubscription
<1>3. CASE ~(AlreadySent(t) \/ t \notin Served)
  <2>1. Answer(t, TRUE) /\ t \in Types
    BY <1>3, HelloAssumption DEF ReceiveSubscription
  <2>2. t \notin sent_versions
    BY <1>3 DEF AlreadySent
  <2>3. \A i \in 1 .. Len(outbound) : outbound[i] # t
    BY <2>2 DEF IInv, AnswerInv
  <2>4. \A i \in 1 .. Len(inbound') : inbound'[i].error => inbound'[i].type # t
    BY <1>1, <2>2, TakeInv
  <2> HIDE DEF t
  <2> QED BY <1>1, <2>1, <2>2, <2>3, <2>4, AnswerStepInv
<1> QED BY <1>2, <1>3

\* The answer goes out and is recorded.
LEMMA SendInv == ASSUME IInv, Send, UNCHANGED startVars PROVE IInv'
<1> DEFINE t == reply.type
<1>1. /\ outbound \in Seq(Types) /\ Len(outbound) < ChanCap
      /\ outbound' = Append(outbound, t)
      /\ sent_versions' = IF reply.record THEN sent_versions \cup {t} ELSE sent_versions
      /\ pc' = "next" /\ reply' = NoReply
      /\ UNCHANGED <<up, inbound, clientVars, startVars>>
  BY DEF IInv, TypeOK, Send
<1>2. /\ t \in Types /\ reply.record \in BOOLEAN
      /\ reply.record <=> t \notin sent_versions
      /\ \A i \in 1 .. Len(outbound) : outbound[i] # t
      /\ \A i \in 1 .. Len(inbound) : inbound[i].error => inbound[i].type # t
  BY DEF IInv, AnswerInv, Send
<1>3. sent_versions' = sent_versions \cup {t}
  BY <1>1, <1>2
<1> HIDE DEF t
<1>4. /\ Len(outbound) \in Nat
      /\ outbound' \in Seq(Types)
      /\ Len(outbound') = Len(outbound) + 1
      /\ outbound'[Len(outbound) + 1] = t
      /\ \A i \in 1 .. Len(outbound) : outbound'[i] = outbound[i]
  BY <1>1, <1>2, QueueAppend
<1>5. \A i \in 1 .. Len(outbound') : i \in 1 .. Len(outbound) \/ i = Len(outbound) + 1
  BY <1>4
<1>6. TypeOK'
  <2>1. Len(outbound') <= ChanCap
    BY <1>1, <1>4, HelloAssumption
  <2> QED
    BY <1>1, <1>2, <1>3, <1>4, <2>1
       DEF IInv, TypeOK, StartUpTypeOK, startVars, clientVars
<1>7. AnswerInv'
  <2>1. ASSUME NEW i \in 1 .. Len(outbound')
        PROVE  /\ outbound'[i] \in sent_versions'
               /\ \A j \in 1 .. Len(outbound') : outbound'[i] = outbound'[j] => i = j
    BY <1>2, <1>3, <1>4, <1>5 DEF IInv, AnswerInv
  <2>2. ASSUME NEW i \in 1 .. Len(inbound'), inbound'[i].error
        PROVE  /\ inbound'[i].type \in sent_versions'
               /\ \A j \in 1 .. Len(inbound') :
                     inbound'[j].error /\ inbound'[j].type = inbound'[i].type => i = j
               /\ \A j \in 1 .. Len(outbound') : outbound'[j] # inbound'[i].type
    BY <1>1, <1>2, <1>3, <1>4, <1>5, <2>2 DEF IInv, AnswerInv
  <2> QED BY <1>1, <2>1, <2>2 DEF AnswerInv
<1> QED BY <1>6, <1>7 DEF IInv

\* The end of the task leaves nothing of the stream.
LEMMA CloseInv == ASSUME IInv, Close, UNCHANGED startVars PROVE IInv'
<1>1. TypeOK'
  BY EmptyQueue, HelloAssumption
     DEF IInv, TypeOK, StartUpTypeOK, startVars, clientVars, Close
<1>2. AnswerInv'
  BY EmptyQueue DEF AnswerInv, Close
<1> QED BY <1>1, <1>2 DEF IInv

LEMMA SendFailsInv == ASSUME IInv, SendFails, UNCHANGED startVars PROVE IInv'
<1>1. CASE reply.record
  BY <1>1, CloseInv DEF SendFails
<1>2. CASE ~reply.record
  <2>1. /\ pc' = "next" /\ reply' = NoReply
        /\ UNCHANGED <<up, inbound, outbound, sent_versions, clientVars, startVars>>
    BY <1>2 DEF SendFails
  <2>2. TypeOK'
    BY <2>1 DEF IInv, TypeOK, StartUpTypeOK, startVars, clientVars
  <2>3. AnswerInv'
    BY <2>1 DEF IInv, AnswerInv
  <2> QED BY <2>2, <2>3 DEF IInv
<1> QED BY <1>1, <1>2

LEMMA TaskStepInv == ASSUME IInv, Serve PROVE IInv'
<1>1. UNCHANGED startVars
  BY DEF Serve
<1>2. CASE ReceiveNack
  BY <1>1, <1>2, ReceiveNackInv
<1>3. CASE ReceiveAck
  BY <1>1, <1>3, IgnoreInv DEF ReceiveAck
<1>4. CASE ReceiveSubscription
  BY <1>1, <1>4, ReceiveSubscriptionInv
<1>5. CASE Send
  BY <1>1, <1>5, SendInv
<1>6. CASE SendFails
  BY <1>1, <1>6, SendFailsInv
<1>7. CASE StreamEnds
  BY <1>1, <1>7, CloseInv DEF StreamEnds
<1> QED BY <1>2, <1>3, <1>4, <1>5, <1>6, <1>7 DEF Serve, Task

-----------------------------------------------------------------------------
(* The client. *)

\* A request that is no NACK changes nothing of what is in order.
LEMMA RequestInv ==
    ASSUME IInv, NEW req \in Requests, ~req.error, inbound' = Append(inbound, req),
           UNCHANGED <<pc, reply, sent_versions>>,
           \A i \in 1 .. Len(outbound') :
              /\ outbound'[i] \in sent_versions
              /\ \A j \in 1 .. Len(outbound') : outbound'[i] = outbound'[j] => i = j
              /\ \E k \in 1 .. Len(outbound) : outbound'[i] = outbound[k]
    PROVE  inbound' \in Seq(Requests) /\ AnswerInv'
<1>1. inbound \in Seq(Requests)
  BY DEF IInv, TypeOK
<1>2. /\ Len(inbound) \in Nat
      /\ inbound' \in Seq(Requests)
      /\ Len(inbound') = Len(inbound) + 1
      /\ inbound'[Len(inbound) + 1] = req
      /\ \A i \in 1 .. Len(inbound) : inbound'[i] = inbound[i]
  BY <1>1, QueueAppend
<1>3. \A i \in 1 .. Len(inbound') : inbound'[i].error =>
         i \in 1 .. Len(inbound) /\ inbound'[i] = inbound[i]
  BY <1>2
<1>4. ASSUME NEW i \in 1 .. Len(inbound'), inbound'[i].error
      PROVE  /\ inbound'[i].type \in sent_versions'
             /\ \A j \in 1 .. Len(inbound') :
                   inbound'[j].error /\ inbound'[j].type = inbound'[i].type => i = j
             /\ \A j \in 1 .. Len(outbound') : outbound'[j] # inbound'[i].type
  BY <1>3, <1>4 DEF IInv, AnswerInv
<1>5. pc' = "send" =>
         /\ \A i \in 1 .. Len(outbound') : outbound'[i] # reply'.type
         /\ \A i \in 1 .. Len(inbound') : inbound'[i].error => inbound'[i].type # reply'.type
  BY <1>3 DEF IInv, AnswerInv
<1>6. AnswerInv'
  BY <1>4, <1>5 DEF IInv, AnswerInv
<1> QED BY <1>2, <1>6

LEMMA SubscribeInv ==
    ASSUME IInv, NEW t \in Types, Subscribe(t), UNCHANGED startVars
    PROVE  IInv'
<1> DEFINE req == [type |-> t, v1 |-> t \in running, nonce |-> FALSE, error |-> FALSE]
<1>1. /\ inbound' = Append(inbound, req) /\ req \in Requests /\ ~req.error
      /\ UNCHANGED <<up, outbound, pc, reply, sent_versions, streams, answered, running,
                     refusals, resubscribes, startVars>>
      /\ asked' = asked \cup {t}
  BY DEF Subscribe, taskVars, Request, Requests
<1> HIDE DEF req
<1>2. inbound' \in Seq(Requests) /\ AnswerInv'
  BY <1>1, RequestInv DEF IInv, AnswerInv
<1>3. TypeOK'
  BY <1>1, <1>2 DEF IInv, TypeOK, StartUpTypeOK, startVars
<1> QED BY <1>2, <1>3 DEF IInv

LEMMA ResubscribeInv ==
    ASSUME IInv, NEW t \in Types, Resubscribe(t), UNCHANGED startVars
    PROVE  IInv'
<1> DEFINE req == [type |-> t, v1 |-> t \in running, nonce |-> t \in answered,
                   error |-> FALSE]
<1>1. /\ inbound' = Append(inbound, req) /\ req \in Requests /\ ~req.error
      /\ UNCHANGED <<up, outbound, pc, reply, sent_versions, streams, asked, answered,
                     running, refusals, startVars>>
      /\ resubscribes' = resubscribes + 1
  BY DEF Resubscribe, taskVars, Request, Requests
<1> HIDE DEF req
<1>2. inbound' \in Seq(Requests) /\ AnswerInv'
  BY <1>1, RequestInv DEF IInv, AnswerInv
<1>3. TypeOK'
  BY <1>1, <1>2 DEF IInv, TypeOK, StartUpTypeOK, startVars
<1> QED BY <1>2, <1>3 DEF IInv

\* Reading a response takes the head from outbound.
LEMMA ReadInv ==
    ASSUME IInv, Read
    PROVE  /\ outbound' \in Seq(Types)
           /\ Len(outbound') <= ChanCap
           /\ Head(outbound) = outbound[1] /\ 1 \in 1 .. Len(outbound)
           /\ Head(outbound) \in Types
           /\ \A i \in 1 .. Len(outbound') :
                 outbound'[i] = outbound[i + 1] /\ i + 1 \in 2 .. Len(outbound)
           /\ \A i \in 1 .. Len(outbound') :
                 /\ outbound'[i] \in sent_versions
                 /\ \A j \in 1 .. Len(outbound') : outbound'[i] = outbound'[j] => i = j
                 /\ \E k \in 1 .. Len(outbound) : outbound'[i] = outbound[k]
                 /\ outbound'[i] # Head(outbound)
<1>1. /\ outbound \in Seq(Types) /\ outbound # <<>>
      /\ Len(outbound) <= ChanCap
      /\ outbound' = Tail(outbound)
  BY DEF IInv, TypeOK, Read
<1>2. /\ Len(outbound) \in Nat \ {0}
      /\ Head(outbound) = outbound[1] /\ outbound[1] \in Types
      /\ outbound' \in Seq(Types)
      /\ Len(outbound') = Len(outbound) - 1
      /\ \A i \in 1 .. Len(outbound') :
            outbound'[i] = outbound[i + 1] /\ i + 1 \in 2 .. Len(outbound)
  BY <1>1, QueueTail
<1>3. ASSUME NEW i \in 1 .. Len(outbound')
      PROVE  /\ outbound'[i] \in sent_versions
             /\ \A j \in 1 .. Len(outbound') : outbound'[i] = outbound'[j] => i = j
             /\ \E k \in 1 .. Len(outbound) : outbound'[i] = outbound[k]
             /\ outbound'[i] # Head(outbound)
  <2>1. outbound'[i] = outbound[i + 1] /\ i + 1 \in 2 .. Len(outbound)
    BY <1>2
  <2>2. 1 \in 1 .. Len(outbound) /\ i + 1 \in 1 .. Len(outbound) /\ i + 1 # 1
    BY <1>2, <2>1
  <2>3. ASSUME NEW j \in 1 .. Len(outbound'), outbound'[i] = outbound'[j] PROVE i = j
    <3>1. outbound'[j] = outbound[j + 1] /\ j + 1 \in 1 .. Len(outbound)
      BY <1>2
    <3>2. i + 1 = j + 1
      BY <2>1, <2>2, <2>3, <3>1 DEF IInv, AnswerInv
    <3> QED BY <1>2, <3>2
  <2> QED BY <1>2, <2>1, <2>2, <2>3 DEF IInv, AnswerInv
<1>4. Len(outbound') <= ChanCap
  BY <1>1, <1>2, HelloAssumption
<1> QED BY <1>2, <1>3, <1>4

LEMMA AcceptInv == ASSUME IInv, Accept, UNCHANGED startVars PROVE IInv'
<1> DEFINE t   == Head(outbound)
           req == [type |-> t, v1 |-> t \in running', nonce |-> TRUE, error |-> FALSE]
<1>1. Read /\ t \in Types
  BY ReadInv DEF Accept
<1>2. /\ inbound' = Append(inbound, req)
      /\ running' = running \cup {t}
      /\ answered' = answered \cup {t}
      /\ UNCHANGED <<up, pc, reply, sent_versions, streams, asked, resubscribes, refusals,
                     startVars>>
  BY DEF Accept, Read, Request, taskVars
<1>3. req \in Requests /\ ~req.error
  BY <1>1 DEF Requests
<1> HIDE DEF t, req
<1>4. inbound' \in Seq(Requests) /\ AnswerInv'
  BY <1>1, <1>2, <1>3, ReadInv, RequestInv
<1>5. TypeOK'
  BY <1>1, <1>2, <1>4, ReadInv DEF IInv, TypeOK, StartUpTypeOK, startVars
<1> QED BY <1>4, <1>5 DEF IInv

\* A response that is refused leaves outbound and comes back as a NACK.
LEMMA RejectInv == ASSUME IInv, Reject, UNCHANGED startVars PROVE IInv'
<1> DEFINE t   == Head(outbound)
           req == [type |-> t, v1 |-> t \in running, nonce |-> TRUE, error |-> TRUE]
<1>1. Read /\ t \in Types
  BY ReadInv DEF Reject
<1>2. /\ inbound' = Append(inbound, req) /\ inbound \in Seq(Requests)
      /\ answered' = answered \cup {t}
      /\ refusals' = refusals + 1
      /\ UNCHANGED <<up, pc, reply, sent_versions, streams, asked, resubscribes, running,
                     startVars>>
  BY DEF Reject, Read, Request, taskVars, IInv, TypeOK
<1>3. req \in Requests /\ req.type = t
  BY <1>1 DEF Requests
<1>4. /\ t \in sent_versions
      /\ \A i \in 1 .. Len(inbound) : inbound[i].error => inbound[i].type # t
      /\ pc = "send" => reply.type # t
  BY <1>1, ReadInv DEF IInv, AnswerInv
<1> HIDE DEF t, req
<1>5. /\ Len(inbound) \in Nat
      /\ inbound' \in Seq(Requests)
      /\ Len(inbound') = Len(inbound) + 1
      /\ inbound'[Len(inbound) + 1] = req
      /\ \A i \in 1 .. Len(inbound) : inbound'[i] = inbound[i]
  BY <1>2, <1>3, QueueAppend
<1>6. \A i \in 1 .. Len(inbound') : i \in 1 .. Len(inbound) \/ i = Len(inbound) + 1
  BY <1>5
<1>7. TypeOK'
  BY <1>1, <1>2, <1>5, ReadInv DEF IInv, TypeOK, StartUpTypeOK, startVars
<1>8. \A j \in 1 .. Len(outbound') :
         outbound'[j] # t /\ \E k \in 1 .. Len(outbound) : outbound'[j] = outbound[k]
  BY <1>1, ReadInv DEF t
<1>9. ASSUME NEW i \in 1 .. Len(inbound'), inbound'[i].error
      PROVE  /\ inbound'[i].type \in sent_versions'
             /\ \A j \in 1 .. Len(inbound') :
                   inbound'[j].error /\ inbound'[j].type = inbound'[i].type => i = j
             /\ \A j \in 1 .. Len(outbound') : outbound'[j] # inbound'[i].type
             /\ pc' = "send" => inbound'[i].type # reply'.type
  <2>1. CASE i \in 1 .. Len(inbound)
    BY <1>2, <1>3, <1>4, <1>5, <1>6, <1>8, <1>9, <2>1 DEF IInv, AnswerInv
  <2>2. CASE i = Len(inbound) + 1
    BY <1>2, <1>3, <1>4, <1>5, <1>6, <1>8, <1>9, <2>2
  <2> QED BY <1>6, <2>1, <2>2
<1>10. AnswerInv'
  BY <1>1, <1>2, <1>8, <1>9, ReadInv DEF IInv, AnswerInv
<1> QED BY <1>7, <1>10 DEF IInv

LEMMA ConnectInv == ASSUME IInv, Link PROVE IInv'
<1>1. TypeOK'
  BY DEF IInv, TypeOK, StartUpTypeOK, startVars, Link, Connect
<1>2. AnswerInv'
  BY DEF IInv, AnswerInv, Link, Connect
<1> QED BY <1>1, <1>2 DEF IInv

LEMMA DisconnectInv == ASSUME IInv, Disconnect, UNCHANGED startVars PROVE IInv'
<1>1. TypeOK'
  BY DEF IInv, TypeOK, StartUpTypeOK, startVars, Disconnect, taskVars, clientVars
<1>2. AnswerInv'
  BY DEF IInv, AnswerInv, Disconnect, taskVars, clientVars
<1> QED BY <1>1, <1>2 DEF IInv

-----------------------------------------------------------------------------
(* The theorems. *)

LEMMA NextIInv == IInv /\ [Next]_vars => IInv'
<1> SUFFICES ASSUME IInv, [Next]_vars PROVE IInv'
  OBVIOUS
<1>1. CASE Start
  BY <1>1, StartInv
<1>2. CASE Serve
  BY <1>2, TaskStepInv
<1>3. CASE Envoy
  BY <1>3, SubscribeInv, AcceptInv, RejectInv DEF Envoy, Client
<1>4. CASE Link
  BY <1>4, ConnectInv
<1>5. CASE (Disconnect \/ \E t \in Types : Resubscribe(t)) /\ UNCHANGED startVars
  BY <1>5, DisconnectInv, ResubscribeInv
<1>6. CASE UNCHANGED vars
  <2>1. TypeOK' /\ AnswerInv'
    BY <1>6 DEF IInv, TypeOK, StartUpTypeOK, AnswerInv, vars, startVars, streamVars,
                taskVars, clientVars
  <2> QED BY <2>1 DEF IInv
<1> QED BY <1>1, <1>2, <1>3, <1>4, <1>5, <1>6 DEF Next

\* The invariant holds in every state of chapter 1.
THEOREM Invariance == Spec => []IInv
BY InitIInv, NextIInv, PTL DEF Spec

\* Chapter 1's variables keep their types, and the channel its bound.
THEOREM TypeCorrect == Spec => []TypeOK
<1>1. IInv => TypeOK
  BY DEF IInv
<1> QED BY <1>1, Invariance, PTL

\* main.rs records what it sent "so we don't reply on every keepalive ACK": no
\* type is answered twice at a time, whatever NACKs, ACKs and updated
\* subscriptions cross the answers.
THEOREM AnsweredOnce == Spec => []OneAnswerInFlight
<1>1. IInv => OneAnswerInFlight
  BY DEF IInv, AnswerInv, OneAnswerInFlight
<1> QED BY <1>1, Invariance, PTL
===============================================================================
