------------------------------- MODULE AdsStream -------------------------------
(***************************************************************************)
(* What the ADS streams of chapters 2 to 6 have in common: the watch       *)
(* channel that holds the advertised snapshot, the two directions of a     *)
(* gRPC stream, and one tokio task per stream that selects between the     *)
(* client's requests and a change of the watch channel, and then works     *)
(* through some resource types, sending into an mpsc channel of bounded    *)
(* capacity.  SotwStream and DeltaStream add what a protocol sends.        *)
(***************************************************************************)
EXTENDS Naturals, Sequences, Functions

CONSTANTS
    Streams,   \* gRPC streams; each is opened at most once
    Types,     \* resource types a client may ask for
    ChanCap,   \* capacity of the mpsc channel behind a stream
    NoSnap     \* a task that holds no snapshot

ASSUME ChannelAssumption == ChanCap \in Nat \ {0}

VARIABLES
    advertised,    \* the value in the watch channel
    changes,       \* how many values the watch channel has held
    up,            \* up[s]: the transport below stream s is intact
    inbound,       \* inbound[s]: requests sent by Envoy, not yet read
    outbound,      \* outbound[s]: responses sent, not yet read by Envoy
    pc,            \* pc[s]: where the task of s is
    held,          \* held[s]: the snapshot that task is working from
    todo,          \* todo[s]: types the current push loop still has to visit
    seen           \* seen[s]: the watch change the receiver of s has marked seen

watchVars == <<advertised, changes>>
wireVars  == <<up, inbound, outbound>>

-----------------------------------------------------------------------------
(* The watch channel.  Sender::send stores nothing when no receiver is     *)
(* left; main keeps the receiver _rx of watch::channel to its end, and     *)
(* every running stream task holds one.                                    *)

\* The receiver of watch::channel dropped at once.
Receivers_OnlyStreams == {s \in Streams : pc[s] \notin {"unused", "closed"}}

Receivers == {"main"} \cup {s \in Streams : pc[s] \notin {"unused", "closed"}}

WatchSend(snap) ==
    IF Receivers # {}
    THEN /\ advertised' = snap
         /\ changes' = changes + 1
    ELSE UNCHANGED watchVars

-----------------------------------------------------------------------------
(* The task. *)

\* Work through the given types, from snapshot snap.
Visit(s, types, snap) ==
    /\ pc' = [pc EXCEPT ![s] = IF types = {} THEN "select" ELSE "push"]
    /\ held' = [held EXCEPT ![s] = IF types = {} THEN NoSnap ELSE snap]
    /\ todo' = [todo EXCEPT ![s] = types]

\* A stream on which nothing is left to be read or sent.
Quiet(s) ==
    /\ up[s] /\ pc[s] = "select" /\ seen[s] = changes
    /\ inbound[s] = <<>> /\ outbound[s] = <<>>

===============================================================================
