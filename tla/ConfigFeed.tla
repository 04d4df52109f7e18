------------------------------ MODULE ConfigFeed ------------------------------
(***************************************************************************)
(* What a control plane promises, with no streams in sight.  What it has   *)
(* advertised is a log.  A consumer, one resource type of one Envoy, takes *)
(* entries of the log over while it listens: it may miss some, it never    *)
(* goes back, and in the end it has the last one.                          *)
(***************************************************************************)
EXTENDS Naturals, Sequences

CONSTANTS
    Consumers,
    Items,       \* what may be advertised
    Refusals     \* pairs <<c, x>>: consumer c does not take item x

VARIABLES
    log,         \* what has been advertised, in that order
    cursor,      \* cursor[c]: the entry of the log that c has, 0 when none
    listening    \* the consumers that are connected and want something

vars == <<log, cursor, listening>>

Init ==
    /\ Len(log) = 1 /\ log[1] \in Items
    /\ cursor = [c \in Consumers |-> 0]
    /\ listening = {}

\* The log grows by an entry.
Advertise ==
    /\ Len(log') = Len(log) + 1
    /\ log' = Append(log, log'[Len(log) + 1])
    /\ log'[Len(log) + 1] \in Items
    /\ UNCHANGED cursor

\* A consumer that listens moves on, by one entry or several.
Advance(c) ==
    /\ c \in listening
    /\ \E i \in cursor[c] + 1 .. Len(log) :
          /\ <<c, log[i]>> \notin Refusals
          /\ cursor' = [cursor EXCEPT ![c] = i]
    /\ UNCHANGED log

\* Whoever listens may change at any time.
Next ==
    /\ Advertise \/ (\E c \in Consumers : Advance(c)) \/ UNCHANGED <<log, cursor>>
    /\ listening' \in SUBSET Consumers

\* Nothing is owed to a consumer that does not listen, or that refuses the
\* newest entry; any other one gets there.
Settled(c) ==
    \/ c \notin listening
    \/ cursor[c] = Len(log)
    \/ <<c, log[Len(log)]>> \in Refusals

Safety == Init /\ [][Next]_vars
Delivery == \A c \in Consumers : []<>Settled(c)

===============================================================================
