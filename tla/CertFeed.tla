------------------------------- MODULE CertFeed -------------------------------
(***************************************************************************)
(* CertRotation with a history variable, the log of what it has advertised *)
(* over all its restarts, and the mapping under which it implements        *)
(* ConfigFeed.                                                             *)
(***************************************************************************)
EXTENDS CertRotation

VARIABLE log

feedVars == <<vars, log>>

FeedInit == Init /\ log = <<advertised>>

\* What the watch channel is given goes into the log.
Write == log' = IF changes' = changes THEN log ELSE Append(log, advertised')

FeedNext ==
    \/ \E a \in Admins :
          (Rotate(a) \/ RotateFails(a)) /\ UNCHANGED log
    \/ \E a \in Admins : Publish(a) /\ Write
    \/ Restart /\ log' = Append(log, advertised')
    \/ \E s \in Streams :
          (Task(s) \/ Envoy(s) \/ Link(s) \/ Drop(s)) /\ UNCHANGED log

FeedSpec == FeedInit /\ [][FeedNext]_feedVars
FairFeedSpec == FeedSpec /\ Fairness

-----------------------------------------------------------------------------
(* The refinement mapping. *)

Consumers == Envoys \X Types

\* Where in the log a snapshot is; nowhere when there is none.
Place ==
    [x \in Range(log) \cup {NoSnap} |->
        IF x = NoSnap THEN 0 ELSE CHOOSE i \in DOMAIN log : log[i] = x]

Listens(e, t) == t \in Wanted(e) \cap Served /\ \E s \in Streams : Owner[s] = e /\ up[s]

Feed == INSTANCE ConfigFeed WITH
    Items     <- Snapshot,
    Refusals  <- {<<e, "SDS">> : e \in Envoys} \X Refused,
    cursor    <- [c \in Consumers |-> Place[running[c[1]][c[2]]]],
    listening <- {c \in Consumers : Listens(c[1], c[2])}

\* README, chapter 3: a rotation is one more snapshot on a live stream.  Each
\* type of each Envoy goes through the certificates in the order in which they
\* were advertised, never back, be it over a reconnect, a restart of the control
\* plane or two rotations that raced each other to the watch channel ...
FeedSafety == Feed!Safety

\* ... and whoever stays connected ends at the newest one, unless Envoy
\* refuses that.
FeedDelivers == Feed!Delivery

\* README, chapter 3: "mint a fresh self-signed leaf, bump the version, push a
\* new snapshot."  Each certificate that was minted has been advertised, even
\* with no Envoy connected, or is about to be; only a restart drops one.
RotationLands ==
    \A c \in 1 .. minted :
        \/ \E a \in Admins : made[a] # NoSnap /\ made[a].body = c
        \/ \E x \in Range(log) : x.body = c \/ (x.version = 1 /\ x.body > c)

===============================================================================
