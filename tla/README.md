# Verification of xds-control-plane-the-hard-way

TLA+ modules, TLC configurations and TLAPS proofs for the control planes in
`src/chapter-01` to `src/chapter-06`. Each chapter is a separate Rust program: a gRPC
server that feeds one or more Envoys their configuration over an aggregated discovery
(ADS) stream.

## 1. Inventory

### Components

| Component | Source | State | Operations | Status |
| --- | --- | --- | --- | --- |
| Watch channel, stream task | `main.rs` of chapters 2-6 | the advertised snapshot; per stream the watch receiver, the bounded `mpsc` channel, the loop over types | publish, `changed()`, push loop | `AdsStream` |
| SotW stream | chapter 2, the same code in 3 and 6 | `subscribed`, `sent_version` | SUB, ACK, NACK, `push_if_new`, stream end | `SotwStream` |
| Delta stream | chapter 4, with globs in 5 | `subs`, `sent` | subscribe, unsubscribe, legacy wildcard, `initial_resource_versions`, `send_delta`, stream end | `DeltaStream` |
| One snapshot | chapter 1 | `sent_versions` | request loop; a NACK is answered with the snapshot again | `HelloXds`, after `StartUp` |
| Push, NACK, rollback | chapter 2 `Control` | `advertised`, `last_good` (mutex), atomic `version` | `push_good`, `push_broken`, the NACK arm | `Rollback` |
| Certificate rotation | chapter 3 `Control` | `advertised`, `version` | `rotate`, also one that fails; restart | `CertRotation` |
| Route bumps | chapter 4 `Control` | `advertised`, `route_version`, the resolved address | `bump`, restart | `RouteBump` |
| xdstp names | chapter 5 | a fixed snapshot | glob and exact subscriptions | `XdstpStream` |
| ORCA to weights | chapter 6 `Control`, `run_orca_client` | `util` (mutex), `version`, `advertised` | `observe`, `recompute_and_push`, reconnect | `OrcaWeights` |
| ORCA reporter | chapter 6 `upstream` | the configured reading | report, restart | in `OrcaWeights` |
| Envoy | not in the repository | what it runs, what it asked for | subscribe, ACK, NACK, reconnect | external: `EnvoySotw`, `EnvoyDelta` |
| Echo servers | `upstream` of chapters 1-5 | none | HTTP echo | not modelled: no state |
| DNS at start-up | `resolve_with_retry`, `resolve_upstream`, `resolve_one` | attempt counter | ten attempts, 500 ms apart | `StartUp` |
| `xtls.rs` | chapter 3 | none | protobuf layout | not modelled: no behaviour |

### How they interact

* Admin requests, stream tasks and (chapter 6) ORCA tasks run on tokio's multi-threaded
  runtime. They share a `watch` channel that holds the advertised snapshot, an atomic
  counter and, in chapters 2 and 6, a mutex. No lock spans two of them.
* A stream task waits in a biased `select!` for a request of its Envoy or a change of
  the watch channel. It pushes through an `mpsc` channel of 16 responses, and waits
  in the middle of its loop over types when that is full.
* Envoy answers each response with an ACK or a NACK. In chapter 2 a NACK writes the watch
  channel, and so reaches *every* stream; in chapter 1 it is answered with the same snapshot;
  elsewhere it is logged.
* A backend of chapter 6 reports once a second to a client task of its own in the control plane.

### Hard behaviours, and what makes each component correct

* *Stream task.* A change of the watch channel arrives while the task is blocked, and
  a subscription is served from a value that is not marked as seen. Correct: no change
  is lost, at rest the client has the advertised version of every type.
* *Rollback.* Pushes and NACKs of several Envoys interleave; a rollback goes *back* in
  version. Correct: a broken snapshot is withdrawn, never re-advertised, NACKs die
  out, all Envoys converge, versions identify snapshots.
* *Rotation.* Concurrent rotations, no Envoy connected, reconnects, restarts. Correct: every
  certificate is advertised, Envoy goes through them in that order, never back, and ends at
  the last.
* *Delta.* `sent` claims delivery before the ACK; unsubscribe, NACK, reconnect and restart
  each may leave it out of step with the client. Correct: at rest the client has exactly
  what the snapshot has for it, and no resource is sent to a client that has it.
* *xdstp.* Globs and exact names overlap. Correct: as for delta, for members of both; what a client
  does not want is neither sent to it nor taken from it.
* *ORCA.* Readings race to be published; small moves are ignored; readings may be
  out of range. Correct: weights are valid and follow the last readings.
* *Request loop.* Refusals and updates of subscriptions cross answers. Correct: one answer
  at a time, and a refusal that passes leaves nothing missing.
* *Start-up.* The upstream may not be in DNS yet. Correct: a client is served unless all ten
  attempts fail, and then the process ends.

`PROJECT.json`, `hazards`, lists each of these at its line.

## 2. Plan

Done: all six control planes with their runs; the start-up; `ConfigFeed`, the abstract
specification, with chapter 3 as its implementation; proofs for all six of every safety property that a
run shows to hold.

Left: `ConfigFeed` for chapter 2, where a rollback is one more entry of the log. The mapping needs
to know which of several equal entries a client has, so the log has to number its entries.

## 3. Modules

| Module | What it is |
| --- | --- |
| `AdsStream` | the watch channel and what all stream tasks share; extended, never run alone |
| `SotwStream`, `DeltaStream` | the two protocols' stream tasks, on `AdsStream` |
| `EnvoySotw`, `EnvoyDelta` | the Envoy at the far end, external, and what it is owed |
| `Rollback`, `CertRotation`, `OrcaWeights` | chapters 2, 3 and 6: their `Control` and NACK arm, on `EnvoySotw` |
| `ConfigFeed` | what a control plane promises: a log of what was advertised, and consumers that move along it |
| `CertFeed` | `CertRotation` with that log as a history variable, and the mapping to `ConfigFeed` |
| `RouteBump`, `XdstpStream` | chapters 4 and 5, on `EnvoyDelta` |
| `StartUp` | the lookup of the upstream's address, the same in every chapter |
| `HelloXds` | chapter 1 on `StartUp`; on its own otherwise: its tasks share nothing that changes |
| `MC...` | instances for TLC |
| `HelloXdsProofs` | chapter 1's inductive invariant and theorems |
| `SotwStreamProofs` | the SotW stream's inductive invariant, one lemma per step; then what Envoy asked for, and how far what was sent has got |
| `RollbackProofs`, `CertFeedProofs`, `OrcaWeightsProofs` | inductive invariants and theorems of chapters 2, 3 and 6 |
| `DeltaStreamProofs` | the delta stream's inductive invariants (subscription, what clients hold, what is news to them), one lemma per step each |
| `RouteBumpProofs`, `XdstpProofs` | theorems of chapters 4 and 5, from these invariants |

### State and code

* A SotW snapshot is a record: `version` is the `n` of `"vn"`; `body` is what else matters:
  whether the Listener has the deliberate flaw (chapter 2), the number of the certificate, in the
  order of minting (chapter 3), the weights (chapter 6). In chapter 3 version and certificate part
  ways after a restart, which mints a new certificate under version 1.
* A delta snapshot maps types and names to entries `[version, body]` or `Absent`. In chapters 4 and 5
  the `body` of endpoints is the upstream's address, the one thing that can differ between two
  resources of one name and version: after a restart (an action in chapter 4; in chapter 5, whose
  control plane has no other state that a restart would change, `Leftover`).
* Names of chapter 4 are model values. Those of chapter 5 are sequences of pieces, so that
  one can be the beginning of another; `Covers` gives the names a pattern stands for, and
  `Expand` is `matches` and `names_with_prefix`.
* A reading of chapter 6 is an integer in units of 1/10000, or `NaN`. `WeightFromUtil` rounds
  as the code does for non-negative numbers. Sub-unit differences are not modelled.
* `changes` is the watch channel's own version; `seen[s]` is the one the receiver of `s`
  has marked. `borrow()` leaves `seen` alone, `borrow_and_update()` and `subscribe()` set it.
* `WatchSend` stores nothing when there is no receiver. There always is one: `main` keeps
  `_rx`. The mutant `Receivers_OnlyStreams` shows what depends on it.
* `pc[s]`: `select` in the `select!`, `push` inside the loop over `todo[s]` (a `HashSet` or
  `HashMap`, so in any order), `rollback` between the mutex and the send in chapter 2's
  NACK arm. `held[s]` is the snapshot the task works from.
* `inbound[s]` holds requests on their way as well as those that arrived. That is
  why the bias of the `select!` does not appear as a guard: the task may find nothing
  to read although a request is under way.
* `outbound[s]` is the `mpsc` channel and the wire together, bounded by `ChanCap`. When
  the channel is full the push step waits; `send_delta` updates `sent` just before it waits,
  which nothing can tell from doing so just after, as `sent` is the task's own.
* `push_good` is three steps (counter and build, `last_good`, watch), `push_broken`, `rotate`
  and `bump` two, a reading four (record, read all, counter and build, watch). Other
  threads can run between any of them.
* The delta nonces and `system_version_info` are left out: neither side acts on them.
* Each stream is opened at most once; a reconnect takes the next one of its Envoy. The
  pool bounds the number of reconnects.
* `RouteBump.Restart` and `CertRotation.Restart` end all streams and admin requests and start
  again at version 1; clients keep what they have, and over delta report it. `Leftover` is what a
  client may hold from a control plane before the first.
* `log` in `CertFeed` and `publisher` in `OrcaWeights` (whose task advertised last) are history
  variables: no step depends on them. `Place` finds a snapshot in the log; certificates are fresh, so
  each is there once.
* `StartUp`: `attempt` is the loop's counter; `pause` is the sleep after a failed lookup, which the
  code takes after the last one too. The address itself is in `RouteBump` (`upstream_ip`).
* When a task ends, and when Envoy loses a stream, what either knew of it is reset (`seen`,
  `requested`): nobody can tell, and it keeps equal states equal.
* Clients lose interest in resources at most `MaxDrops` times (`Unsubscribe`), and take it again
  when something they hold refers to them. What arrives of a resource after it was given up is not
  kept. `Refused` are versions they do not accept.

Names with a suffix (`UpToDate_Newer`, `ReceiveNack_Logs`, ...) are mutants: the definition they
precede with a plausible bug in it. They are used only to show that a property can
fail.

## 4. Runs

| Run | Question | Bounds |
| --- | --- | --- |
| `RollbackRaces` | Do Envoys at rest run what is advertised when two streams roll each other back? Do versions identify snapshots, are rollback targets good, under racing pushes? Yes. | two Envoys, two admin requests, two pushes, one type |
| `RollbackReconnect` | Are pushes lost? Is a broken snapshot withdrawn, do NACKs end, does Envoy converge? No; yes. | one Envoy, one reconnect, one push, LDS naming RDS |
| `CertRotation` | Does chapter 3 implement `ConfigFeed`, its promise of delivery included? Is every certificate advertised? Does an Envoy at rest run the newest, or refuse it? Is a refused one repeated? Yes, yes, yes, no. | one Envoy, one reconnect, two admin requests, three versions, four certificates with those of restarts, the second refused; one type |
| `OrcaTwoBackends` | Has the task that advertised last its own backend's weight right when it waits for a report again, and are weights in range? Yes. | two backends, one restart, a load and NaN |
| `OrcaDrift` | Does the weight follow small steps and loads out of range? Does a type the server lacks cost the client the others? Yes; no. | one backend, two restarts |
| `DeltaReconnect` | Does a client get every change once, over reconnect and restart? Yes, but for the address when a restart changes it. | two streams, one bump, one restart, two addresses, RDS and EDS |
| `DeltaFickle` | Is a refused version repeated, do later ones arrive, is a client that changes its mind ever out of date, even when two bumps are published in the wrong order? Does the server's idea of a subscription stay the client's? No, yes, no, yes. | one stream, two admin requests, two bumps, one drop |
| `XdstpCollections` | The same, but for refusals and bumps, for a collection and a member named as such, and for endpoints, with strays of two authorities and an old address. Is anything sent or removed that the client does not want? Yes, but for the address; no. | two streams, one drop, three names, CDS and EDS, two addresses |
| `HelloXds` | One answer at a time? Do failed lookups or refusals that pass leave anything missing? Yes; no, unless all ten lookups fail. | ten attempts as in the code, two streams, two refusals, two updates |

`ChanCap` is 1, where the code has 16, so that tasks do block. One push suffices for a
NACK and a rollback; two are needed for a good one after a broken one and for
two to race; rollbacks are not bounded. Two types are needed for a push loop that is half
done; all of the code treats types alike. `RollbackRaces` has one type for the sake of its
two Envoys and two requests. `CertRotation` has the secret alone, that of an Envoy that has its
Listener: with the Listener as well the run would be some fifteen times as long, and the proofs
cover any number of types. `MaxMinted` bounds rotations and restarts together. In `OrcaTwoBackends` a backend that reports NaN is taken to
have moved with every report, as in the code, until `MaxVersion`. Deadlock is not checked: when
pushes, streams and requests are used up the system rests.

### Disagreements with the repository's own words

These runs end in a counterexample:

| Run | What it shows |
| --- | --- |
| `StaleRollback` | A `push_good` between the NACK arm's read of `last_good` and its send is overwritten by the older snapshot (bug). |
| `RacingReports` | Of two backends that report at once one keeps the weight of an older reading, for good (bug). |
| `Resubscribed` | A client that gives a resource up and subscribes to it again on the same stream gets nothing (bug). |

`StaleRollback` has one admin request and shows the race of a push with a NACK, not that of two
pushes; the latter is in `RollbackRaces`, for what it may do to Envoys. The first leaves the Envoys
consistent with the watch channel: `QuietStreamRunsAdvertised`
and `Converges` hold regardless; what is lost is the operator's latest intent. In the
second, `LastPublisherFits` still holds, and with one backend so does `WeightsFollowLoad`. In the
third, `OnlyAddressesGoStale` still holds: the client has nothing rather than something old.

More that the models can show and no run checks:

* Two `push_good` calls may leave `last_good` at one snapshot and advertise the other; two
  `rotate` or two `bump` calls may advertise the older version last. The cause is the same each
  time: the counter (or `last_good`) and the watch channel are two steps. Streams and clients
  cope: they follow what is advertised, not the larger number (`FeedDelivers` and
  `OnlyAddressesGoStale` hold with racing requests, and fail when the code is made to compare
  versions by size).
* `last_good` (chapter 2) is set before any Envoy has accepted the snapshot; its comment says
  "the last snapshot Envoy accepted". A second bad push through `push_good` leaves nothing to
  roll back to.
* The nonce of chapter 2 is type and version, so that a version re-sent after a
  rollback carries the nonce it had; the comment in `build_response` says that pushes are
  distinguishable.
* A rotation (chapter 3) re-sends every subscribed type, Listener included; the README says that
  the Listener never sees it.
* After a restart (chapters 4 and 5) with another upstream address, endpoints are still at `v1`, and
  a client that reports `v1` keeps the old address. `OnlyAddressesGoStale` has a disjunct for it and says
  that it goes no further: without that disjunct it fails in `DeltaReconnect` and in `XdstpCollections`.
* `send_delta` records a response in `sent` before it is acknowledged, removals included. A client
  that refuses a response which also removes a resource keeps that resource for good:
  `OnlyAddressesGoStale` of chapter 4 has a disjunct for it, for a `Refused` version among those on offer. And
  when the next response goes back to the version the client never left (two racing bumps, a restart), it
  is sent once more, and `NothingResent` fails. Hence the hypotheses on `Refused` in section 5.
* `matches` (chapter 5) expands every name that ends in `*`; the comment speaks of `/*`.
* A client that never accepts the snapshot (chapter 1) and the server exchange it without end
  and without a pause.
* `resolve_one` (chapter 6), "Resolve a hostname to a literal IPv4", takes any address when there
  is no IPv4 one.

### Fairness

`FairSpec` assumes that a task that can move is polled again (tokio does), that an admin
request that has begun finishes (`push_good`, `rotate` and `bump` never wait), that a lookup and the
pause after it come to an end, that a backend
reports and can be reached again after a restart, and that Envoy answers, follows references and
reconnects, which is an assumption about Envoy. `FairFeedSpec` is the same with the log. Fairness is weak and per task: the
alternatives of one task have no fairness of their own. Nothing is assumed of the
operator's next push, of a change of mind, or of a connection's or a process's breaking. A
lookup may fail every time.

### The refinement

`ConfigFeed` knows no streams: `Advertise` adds an entry to the log, `Advance` moves a consumer on by
one entry or several, `listening` comes and goes. Under the mapping of `CertFeed` a consumer is
a type of an Envoy, its `cursor` the place in the log of the snapshot it runs (0 for none), and it
listens while a stream of its Envoy is up and Envoy wants the type. `Publish` and `Restart` are
`Advertise`, `Accept` is `Advance`, all else stutters. `FeedSafety` says that it is so: it rules out going
back, whatever two rotations, a reconnect, a restart or responses still on the wire do.
`FeedDelivers` is the abstract liveness property `Delivery`: again and again each consumer is at the
end of the log, does not listen, or refuses what is there. `ConfigFeed` states it directly and not
as `WF(Advance)`, since TLC does not evaluate the `ENABLED` of a mapped action.

## 5. Proofs

For any sets of streams, Envoys, types, admin requests and backends, any channel capacity and any
bound on versions:

* Chapter 1 (`HelloXdsProofs`): `TypeCorrect`; `AnsweredOnce`: `OneAnswerInFlight`, over NACKs, updated
  subscriptions and new streams.
* Chapter 2 (`RollbackProofs`): `TypeCorrect`; `PushesNotLost`: a task back in its `select!` with
  no unseen change has sent the advertised version of every type its client subscribed to;
  `RollbackIsGood`: `last_good` and rollbacks in progress are never broken; `VersionsIdentify`: equal
  versions mean equal snapshots, over all copies in the system; `QuietStreamsCurrent`:
  `QuietStreamRunsAdvertised`, over racing pushes, NACKs, rollbacks and reconnects.
* Chapter 3 (`CertFeedProofs`): `TypeCorrect`; `CertificatesLand`: `RotationLands`; `FeedImplemented`: the
  safety part of the refinement; `PushesNotLost`, as in chapter 2; `QuietStreamsNewest`:
  `QuietStreamRunsNewest`, over racing rotations, refusals, reconnects and restarts.
* Chapter 4 (`RouteBumpProofs`): `TypeCorrect`; `SubscriptionsAgree`: `SubscriptionAgrees`;
  `OnlyOldAddresses`: `OnlyAddressesGoStale`, both over changes of mind, bumps, refusals, reconnects and restarts;
  `NothingUnwantedSent`: `NothingUnwanted`; `NothingSentTwice`: `NothingResent`, if no version on offer is refused.
* Chapter 5 (`XdstpProofs`): `TypeCorrect`; `SubscriptionsAgree`; `NothingUnwantedSent`; and, if the snapshot's one
  version is not refused, `OnlyOldAddresses` and `NothingSentTwice`; whatever collections the names stand for,
  and whatever clients hold from before at whatever version, endpoints at other addresses included.
* Chapter 6 (`OrcaWeightsProofs`): `TypeCorrect`, which includes that weights are in 1 to 1000
  whatever is reported; `LastPublisherIsRight`: `LastPublisherFits`, for the task that `publisher` names; `WeightsAccepted`: no response on
  its way holds a weight that Envoy refuses; `PushesNotLost`; `VersionsIdentify`: equal versions mean equal
  weights; `QuietStreamsCurrent`: `QuietStreamRunsAdvertised`.

The only assumptions on the constants are those the modules name (the shapes of the constants,
`ChanCap > 0`, `MaxVersion > 0`, some backend, that "no snapshot" is not a snapshot, that `*` is
no other pattern's name, that what clients come with to chapters 4 and 5 has its types, with addresses in
endpoints only, and in chapter 4 no endpoints) and, in the three theorems that say so, `AllAccepted`: the client refuses none of the
versions that the control plane offers. It stands in the theorem, and without it the statements
are false (section 4). The runs of chapters 4 and 5 that check the same properties have `Refused = {}`.

*Chapter 1.* An answer of a type is about to be sent, on its way, or coming back as a NACK, which
will be answered with it once more. `AnswerInv`: no type is in two of these places, or in one of them
twice; and while it is in any, a request for it that is not a NACK finds it in `sent_versions`.
`OneAnswerInFlight` speaks of one of the places only, and says nothing of that set.

*The stream.* `StreamInv` (in `SotwStreamProofs`) says of each task that what is left of its loop is
subscribed, that replies name subscribed types, and that *if no change is unseen, then the
snapshot it is pushing is the advertised one, and every subscribed type not left in its loop
has been sent*. `NoLostPush` alone is not inductive: it says nothing of a task in the middle
of a push. A late ACK or NACK adds its type to `subscribed`, and only the clause on replies
shows that it was there before.

*Chapter 2.* `CallInv` follows a snapshot from the admin request that built it;
`RollbackTargetIsGood` needs it for the step that stores `last_good`. `VersionInv` adds to
uniqueness that no copy is younger than the counter, so that the next version is new to all
of them; every other step only copies (`CopiesOnly`).

That a quiet stream's Envoy runs what is advertised rests on `QuietInv`, on top of that. Its part
`SentInv` says of every version the task has sent last that it is in the last response of its type on
the way, or else is what Envoy runs, or was refused. The order of the wire cannot be spoken of, as in
chapter 3, since a rollback breaks it; only the last response can. A refused version is `Buried`, that
is, nobody will advertise it any more; and while it is still advertised, a NACK is on its way
or a rollback in progress. Burying needs `RollbackTargetIsGood` and unique versions. `AskedInv` and
`LinkInvariant` (in `SotwStreamProofs`, for all three SotW chapters) and `FreshInv` carry the rest: what Envoy asked for is seen or on its way, a stream that
is up has a task, and an Envoy has one such stream.

*Chapter 3.* That `Accept` never goes back needs the order of everything that may still reach an
Envoy. `LogInv`: certificates in the log are distinct, and its last entry is the advertised one. `MadeInv`:
what an admin request is about to send is in no log and with no other request. `OrderInv`: the
responses on a stream are in the order of the log, and what the task is pushing is not before any of
them. `BehindInv`: what Envoy runs is not after anything its stream still has for it. `WantedInv`: only
types that Envoy wants are on the way, so that whoever accepts listens. A task works from
`borrow()`, so `held` is the end of the log when it is taken and `Publish` and `Restart` only
lengthen the log (`OrderKept`); a restart takes all streams, and with them the older responses. `FeedSafety` itself
says nothing of the wire, and no part of this is inductive without the others.

`QuietStreamRunsNewest` is about versions, which the stream compares, and those repeat over restarts. So
`NewestInv` speaks of `Current`, the snapshots advertised since the last restart: the first of them has
version 1 and the youngest certificate of that version. Among them, and what admin requests are about to send, a
version names one snapshot (`VersionInv`), and nothing else is held by a task or on its way
(`CopyInv`), since a restart takes the streams. `GotInv`: the version sent last of a type is that of the last
response on its way, or of a snapshot of `Current` that Envoy runs or has refused. Chapter 2 needed more,
because there a refused snapshot leaves again.

*The delta stream, chapters 4 and 5.* `SubscriptionAgrees` speaks of a quiet stream. `DeltaInv` (in
`DeltaStreamProofs`) says the same of any stream that is up, for each pattern: the last request on its
way that mentions the pattern, or if there is none the server's record, says what the client asked
for (`Agrees`). A request without names is the difficulty: it is a wildcard when it is the first of its
type and nothing otherwise, and an ACK has no names. So `OnlyFirstEmpty`: as long as the server does not
know a type, only the first request for it may be empty, and it is no NACK; and `TaskInv`: only
types the server knows are ever answered, so that an ACK never comes first. The lemmas are for any
snapshots, so that bumps and restarts add little; and `Covers` is any function, so that
chapter 5 adds nothing.

*What clients hold, chapters 4 and 5.* All the server knows of a client is `sent`, written before the
client has anything. `HoldInv` ties the two together, for each stream that is up, type and name.
`SettledInv`: the version in `sent` is where the last response on its way that names the resource leaves the
client, or if there is none then it is the version the client has (`HeldBy`), unless it gave the
resource up or may have refused that version. `ReportInv`: the first request of a type on its way
carries in `initial_resource_versions` what the client has, and will still have when it is read, as until then nothing
comes for that type. `ServedInv`: if no change is unseen, every subscribed resource of a type not left
in the loop is in `sent` as it is advertised. `WantedInv`, `DropInv`, `ClearInv` and `NewInv` say that
only what is wanted comes (`NothingUnwanted`), that only what was given up is unsubscribed from, that no
response both brings and removes a name, and that a type without a request has no record. On a quiet stream these
meet: advertised is `sent`, and `sent` is what the client has; but all this is about versions only.

That equal versions are equal resources is `EntriesIn`: what is offered, held by a task or on its way is among
`OfferedEntries`, what clients have among `HeldEntries`. In chapter 4 the two agree for each version but for
the address of endpoints after a restart, which is the exception that `OnlyAddressesGoStale` makes. In
chapter 5 there is one version on offer, and what clients have is that or something left over
(`Offered`, `Held`); two entries of that version differ in the address of endpoints alone.

`NothingResent` needs the wire again: `News` says that of two consecutive responses that name a resource
the later one has another version, and that the first has another than the client. With `SettledInv`,
`send_delta` keeps it: it sends only what differs from `sent`, which is where the last one leaves the client.
Refusing breaks it, because the client then stays where it was.

*Chapter 6.* `CarryInv` follows a reading through `recompute_and_push`: the weights, and then the
snapshot, that a task carries fit its own backend. They do because only the task itself
changes that backend's reading, and it does so only when it is not busy. So what is
advertised fits the backend of `publisher`, until that backend's task is busy again.

`QuietStreamRunsAdvertised` takes `VersionInv`, as in chapter 2, and of the stream only `ServedInv`: the last
version sent of a type is that of the last response on its way, or of what Envoy runs. Refusals do not
come into it, because `WeightsAccepted` and the type invariant rule them out.

Only model-checked: the liveness properties (`RollbackHappens`, `Converges`, `NackStormEnds`, `FeedDelivers`,
`WeightsFollowLoad`, `ClientsCatchUp`, `ClientIsServed`), which are outside the prover's reach; and the three
counterexamples.

## 6. Not modelled

Bytes of resources, HTTP and gRPC framing, logging, `GET /status` (it reads two places without
changing either), failing builds of a snapshot (encoding into a vector does not fail), which of
several addresses a lookup takes, signals and shutdown (a restart covers them in chapters 3 and 4), and the components
marked so above. Keepalive and flow control of HTTP/2 are in `outbound`'s bound and `Cut`.
In chapter 6 an attempt to reach a backend that fails is not a step: it changes nothing. Loss of
streams in chapter 6 is modelled, reconnects of its Envoy are left out of its runs.
