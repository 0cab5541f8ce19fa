# A TLA+ model of overlay-bridge

overlay-bridge connects an overlay engine to a content plane. It receives
objects and block headers on *lanes*, submits the objects to the engine, serves
the engine the block headers it verifies against, accepts clients' submissions
on a *facade*, and publishes what the engine admitted through the *up-tunnel* to
the plane's ingress.

This directory models its concurrent core in TLA+, checks it with TLC on small
instances, and proves the central results with TLAPS for every instance.

## The system: parts, state, interaction

| part (source) | state it keeps | operations | what is hard |
|---|---|---|---|
| up-tunnel client (`uptunnel/uptunnel.go`) | the connection and its byte offsets, records unconfirmed and waiting for a resend, address index, fail-back clock | `Send`, `Poll`, `Close`, the reader `watch` | a write is no delivery: peer closes, resets, late acknowledgements, failover in mid-operation, resend budget |
| publish queue (`uptunnel/queue.go`) | channel, byte counter, room signal | `Publish`, `Run` | lock-free reservation, rollback, lost wakeups, shutdown |
| header store (`headers/chain.go`, `tracker.go`, `warm.go`) | headers by hash and height, canonical map, tip, window floor, fallback cache, tracker height | `Observe`, `RootAt`, `HeaderForHeight`, `Warm`, `Learn` | mutex released around the anchor's answers, forks, gaps, pruning, stale cache |
| read API (`headers/api.go`), its client (`headers/chainclient`) | none | `Known`, `HeaderByHash`, `Tip`, roots: HTTP routes over the store's reads | two reads make one answer; a 404 that stands for a failure |
| loop guard (`guard/`) | two generations of seen objects | `Mark`, `Lookup` | check and mark are far apart |
| feed (`feed/feed.go`, `submit.go`, `verify.go`) | bounded engine queue, byte counter, started flag | `Handle`, `Start`, `take`, `submitOne` | shedding, retries, drain at stop |
| shadow, other targets (`feed/shadow.go`, `also.go`, `route.go`) | bounded queues | `Offer`, `Start` | offers that must never block, abandoned queues |
| facade (`facade/`) | none beyond counters | `submit` | several topics in one request, partial failure, retries |
| SPV (`pkg/spv`, `feed/verify.go`) | counters | `Verify`: merkle paths, structure, maturity, amounts, scripts; the marker | each question to the chain tracker is answered of another chain; the deadline; what a failure must not be mistaken for |
| supervision (`cmd/overlay-bridge/main.go`, `group.go`, `anchor.go`) | the flags, tasks and their contexts | `validate`, the startup, the task group, the stop | failures and signals between two steps; shutdown order |
| reconcile (`topics/`, `reconcile.go`) | none | one comparison at startup, which warns and goes on | a broker that does not answer |
| metrics (`collector.go`) | none | scrape | - |

How they interact: a lane calls `headerHandler`, which calls `Store.Observe` and
then `Tracker.Learn`; another lane calls `Feed.Handle`, which marks the guard and
queues the object for workers that verify it with `spv.Verify`, over a chain
tracker, and submit it to the engine, with a marker if it passed. The engine
reads roots back through the read API (`Store.RootAt`), and may verify by itself
with the same package over `chainclient`. A client's `POST /submit` runs
through `Facade.submit`: guard lookup, engine, `Queue.Publish`; `Queue.Run`
hands records to `Client.Send` and polls the client; the client's confirmation
callback marks the guard. The store asks an external anchor service for headers
and roots it lacks.

What makes each part correct:

- *client*: an accepted record is settled exactly once, as confirmed or lost;
  it is confirmed only if the ingress host acknowledged it; it is written a
  bounded number of times; it does not wait for ever.
- *queue*: the byte counter is exact, the bound holds, an accepted record is
  always somewhere and is settled in the end, no publisher sleeps next to room.
- *store*: heights are right, the index and the window agree, what is served is
  on the best chain, what is booked to the lane came from the lane.
- *feed*: the byte counter and the bound hold; a delivery that was accepted is
  settled topic by topic, each counted and offered once; a stop ends.
- *facade, guard*: what the plane already has is not published again, and only
  that is withheld; the other targets get what clients were told 200 for.
- *other targets, shadow*: the bytes held keep to the bound; each offer is
  counted once; the comparison says what it means.
- *SPV*: each transaction of an object that passed is good, though the chain
  moved meanwhile; an object refused has a fault of its own, and neither a
  failing tracker, a header still to come nor the deadline counts as one; a
  marker vouches only for scripts that are right; a verification ends.
- *supervision*: what the flags let start hangs together; a dead task brings the process down; the exit blames the cause
  and leaves no record with the client unsettled.

## Modules

| module | what it is |
|---|---|
| `RecordDelivery` | abstract contract of `Client.Send`: taken or refused, settled once, confirmed only after arrival |
| `UpTunnel` | the client, its reader goroutine, the TCP peer and the clock |
| `PublishQueue` | `Publish` and `Run` over `RecordDelivery` |
| `HeaderStore` | lanes, reads, warm-up and tracker over the store; the anchor service |
| `Feed` | `Handle`, the engine queue, the workers with verification and retries, the drain |
| `Also` | one other local target: offers, queue bounded by bytes in hand, retries, stop |
| `Shadow` | the shadow engine: offers, queue, comparison, counters |
| `Targets` | the second target of a route: `Also` or `Shadow`, both instantiated |
| `Facade` | `submit` over its topics with the guard, the publish queue's contract and the feed's marks |
| `Spv` | one verification against a chain that moves and fails, and what the feed does with the verdict |
| `Startup` | the configurations: what `validate` accepts, what `run` wires, the topics' comparison |
| `Shutdown` | the process from its flags to its exit: startup, task group, the facade's server, the queue's drain, the client's `Close` |
| `UpTunnelProofs`, `PublishQueueProofs`, `HeaderStoreProofs`, `FeedProofs`, `FacadeProofs`, `ShutdownProofs`, `SpvProofs` | the inductive invariant of the component and the theorems about it; `FeedProofs` also those about `Targets` |
| `SetSums` | lemmas about sums over finite sets, and induction on naturals and on finite sets, for the proofs |
| `MC...` | instances for TLC, where values need more than a `.cfg` |

`PublishQueue`, `Facade` and `Shutdown` compose components through contracts:
the queue runs over `RecordDelivery` (instantiated), the facade over what the
queue promises (accepted or refused, later sent or lost), the shutdown over
both. `UpTunnel` is shown to implement `RecordDelivery`.

### UpTunnel

The fields of `Client`, `stream` and `pending` are one record `c`. Each
`...Locked` method is an operator from client state to client state
(`RetireLocked`, `RequeueLocked`, `PollLocked`, ...), and the actions compose
them in the order of the code. `Client.mu` is the variable `op`: an operation
holds it from its first step to its return and is cut at the calls that wait on
the network. `Send`/`Poll` run to the start of `sendLocked`; `DialOK`,
`DialFail`, `FlushOK`, `FlushFail`, `WriteOK`, `WriteFail` are the turns of its
loop (two attempts); `SendReturn` and `PollReturn` end it, with the second poll
and the charge for a failed flush. `WatchRead` and `WatchStore` are the two
atomic stores of the reader. The peer (`PeerAck`, `PeerRead`, `PeerClose`,
`PeerReset`) and `Tick` are the environment.

Abstractions: a record is one unit of the stream, so offsets count records;
`unconfirmed` and `resend` are sets ordered by the time of their last write;
instants are kept as elapsed ticks, capped at the value they are compared with.
`hist` records what the peer saw and appears only in properties. A peer sends a
FIN only when it has read all it acknowledged, which is TCP's behaviour (a close
with unread bytes resets); this is what the package doc relies on.

### PublishQueue

A publisher is one call of `Publish`. The atomic byte counter, the channel and
the mutex around the room signal are separate objects in the code, so `offer` is
three steps (`ReserveOK`/`ReserveFail`, `PutOK`/`PutFail`, `Rollback`), and
`taken` is two (`Release`, `WakeWaiters`). A reservation is one step because the
compare-and-swap loop takes effect at its successful swap or at the load that
refuses it. The client behind `Run` is `RecordDelivery`, instantiated:
`UpTunnel` is shown to implement it.

### HeaderStore

A header stands for its hash and its root. `Observe` is cut where it releases
`Store.mu`: `Reject`, `Redeliver`, `ParentKnown`, `ParentUnknown` are the first
critical section, `LookupOK` the re-check after the anchor's answer,
`LookupFail` the orphan, `Chain` the last section. The loop of `recanonLocked`
is one step per turn (`RecanonStep`), ending with the pruning (`RecanonEnd`);
the mutex is held throughout, which `LockFree` expresses in the guards of all
others. `Learn` is the tracker call of `headerHandler`, outside the mutex. Reads
(`ReadHeld`, `ReadCached`, `ReadAnchor`, `FallbackOK`, `FallbackFail`, `Book`)
cover `RootAt` and `HeaderForHeight`; `ReadByHash` and `ReadTip` are the other
routes of the read API. A route that answers with `known` reads it in a second
critical section (`ReadKnown`), so that `known: true` may stand beside a root
that came from the anchor. `WarmOne` and `WarmEnd` run before the
lanes open. Proof of work keeps its three tests (malformed, floor, own target)
on numbers; the compact encoding is left out. Heights are unsigned: the one
subtraction that could wrap (`HeightBelow`) is modulo `HeightWrap`. The anchor
service is truthful about heights, may fail at any call, and may move to any
higher chain, also one that leaves the old below the anchor.

`LaneAnswers` is about roots, by the source they are booked to, and about the
header routes, where `known` is of the header served. `AnswerHeights` is about
every route and the cache; it does not say that a cached root is of today's
chain, which nothing in the code keeps so.

### Feed

A delivery is one call of `Handle`. The started flag, the byte counter and the
channel are three objects, so the call is cut between them (`Deliver`,
`CheckStarted`, `Reserve`, `Put`/`PutFull`, `Undo`). A worker goes through
`Receive`, `Take` (the bytes leave the counter), `VerifyPass`/`VerifyRefuse`,
and for each topic `SubmitOK`, `SubmitRefused` or `SubmitFail` with
`BackoffEnd`/`BackoffCut`; a reply is a status with a body in either engine's
form, and `Decodes`, `Accepted` and `Refused` are `submit.go`'s reading of it; `EnterDrain`, `DrainEnd`, `DrainTimer` and
`StartReturn` are the stop. `booked`, `shadowed` and `also` record the counts
and the offers made for each topic. Workers are used as deployed; the
synchronous mode (`Workers = 0`) is left out. A verifier's refusal is counted
once for the object in the code and is here a booking of each of its topics.

### Also and Shadow

Both are queues in front of a target that may be down, filled without blocking
by the feed and the facade; a stop drains neither. `Also` holds an object's bytes
until the target has answered, so a worker's end is two steps, the count and the
release. `Shadow` asks once and compares: `Classify`, `Sets` and `Canon` are the
functions of the code, with the sorted sequence for the string that spells it.
The marker handed on to the shadow is data no property tells apart. The two
share no state: `Targets` has one or the other in each behaviour. `MCFeed` checks
them and the feed's own queue in one run, of which one moves in each behaviour
(`part`): an `Offer` that never blocks is all that passes between them.

The documentation compares answers as sets, the code as sorted lists.
`VerdictsRight` is stated with sets: a match is always one of sets, and the
same sets are a match if neither answer names a member twice.

### Facade

A request goes through its topics: `Lookup` (the guard's word is taken before
the engine is asked and used after), `EngineOK`/`EngineFail`, the offer to the
shadow of what the engine answered (`OfferShadow`), then `Settle`
withholds or encodes the record and `PublishOK`/`PublishFail` ends the topic.
The answer is given after the last topic or at the first failure. A trusted
source skips the engine and the other targets. `Sent` and `Lost` are the queue's
callback; `MarkDelivered` and `EndDelivery` are the feed's side of the guard. The
guard is the external registry's two generations; `Rotate` is its clock, bounded
by `MaxRotations`. Parsing of headers and body is one refusal (`Malformed`).

### Spv

An object is the map of transactions the parser hands over. `Verify` asks the
tracker three kinds of questions: a root (`ProveRoot`), the tip behind a root
that did not match (`AskTip`), and the tip for maturity and finality
(`ChainTip`). Each is a step, and between two of them the chain may grow, move to
another branch (`Extend`), be told to the tracker (`Learn`) or the deadline may
pass (`Expire`). The tracker is the bridge's own, whose height is what
`headerHandler` told it, or the read API's client, which may fail. The two walks
(`proveMined`, `checkTx`) keep their work lists as sets: the order decides only
which of several faults is met first. `Classify` turns the failed check into a
verdict, and `Settle` and `EngineAnswers` are the feed's use of it: dropped,
submitted, submitted with a marker, compared. A merkle path is a root and a
height, a script's outcome is data, a marker is the pair it authenticates.

The bridge's tracker asks the store in process, which holds or has cached roots
of every chain it has followed (`TrackerRoots`: a stale canonical root, finding
2, and a fallback root that a reorganisation left in the cache are among them).
`hist.branches` is the set of these chains, and `Init` may start with several.
The read API's client answers from them too, at any height, and may fail
(`RootAnswers`); it is the tracker of another caller of the package, which has no
feed behind it (`Conf`). A script may be one that runs longer than the deadline:
then only the deadline ends it (`ScriptCut`).

The verdicts are held against rules stated without the walk. `GoodTx` says of one
transaction what a pass promises: its path is on a chain the tracker follows, or it
has none, keeps the rules (`Valid`) and its scripts pass (`ScriptsRight`).
`EveryTransactionVerified` asks it of every transaction of the object, as the
documentation does, and is violated (finding 4). `OKVerified` and `TrustEarned`
ask it of all but the ancestors of a transaction that the chain itself holds
(`Buried`); these the network has accepted before. A refusal must be justified at
the tip the verification saw, and at every height if it asked for none, by a
fault that the walk can meet (`Faulty`). The bridge has no exception. The client
has one, `hist.absent`: the read API answers 404 for a root it failed to read, and
the client takes it for a root that differs.

### Startup and Shutdown

A flag is its value as the code tells values apart, and those refused for their
form alone are one. `Validate`, `Reconcile`, `BuildStore`, `WarmStore`, `Wire`,
`NewGroup`, `StartTask` and `Started` are the steps of `run`, each of which can
fail where the code returns; a signal may come between any two of them, and a
task may fail while others are still to be started. A signal before
`NotifyContext` ends the process at once and is left out, as are sizes, timeouts
and addresses. A list flag is two things, as in the code: whether its text is
set, which `validate` tests, and the list `splitList` makes of it, which is empty
for `","`. After the startup the configuration is forgotten: nothing reads
it any more.

A task's return, the test of the context, the record of its failure and the
cancellation are four steps, because other goroutines run between them. The
group takes any error that is `context.Canceled` for the stop's own, so a task
that returned one before the cancellation would end unseen (`group.go:51`); the
model assumes that none does, because the group's is the only context a task has.
The facade's server closes its listener, waits for requests in flight up to its
timeout and returns; requests run on goroutines nobody else waits for. `Run`
ends at the cancellation with what is in the channel. `wait` waits for the
context and for every task, the deferred `Close` settles the client, and
nothing runs after it.

## Runs

| run | instance | shows |
|---|---|---|
| `tunnel` | 2 records, 2 addresses, 1 resend, window of 1 | `TypeOK`, `Conservation`, `ConfirmedWasAcked`, `ResendBudget`, `AwayClock`, `CleanCloseKeepsAcked`, `EveryRecordSettles`, `ImplementsDelivery` |
| `queue` | records of 1, 2 and 4 bytes, bound 3, depth 1 | `BytesAccounted`, `AcceptedAccounted`, `NoLostWakeup`, `WaitersGetRoom`, `AcceptedSettles` |
| `queue_lost_wakeup` | the same | violation of `WaitersWoken`: a rollback wakes nobody |
| `headers_lanes` | 2 lanes, 7 headers from the first on, window 1, re-anchoring | `TrueHeights`, `IndexSound`, `TipReported`, `CanonServed`, `HigherChainReplaces` |
| `headers_reads` | 2 lanes, 2 readers, cache of 2, warm-up, a fork below the anchor | `LaneAnswers`, `AnswerHeights` |
| `headers_gap` | 1 lane, window 2, re-anchoring | violation of `CanonServedAcrossGap`: stale headers below a gap |
| `feed` | `Feed`: 3 deliveries, 2 workers, bound 2 bytes, depth 1; `Also`: 3 offers, 2 workers, bound 3 bytes, depth 1; `Shadow`: 2 offers, 2 workers, depth 1, 3 answers and none | `BytesAccounted`, `DeliveryAccounted`, `AcceptedSettles`; `TargetBytesAccounted`, `EveryOfferCounted`, `VerdictsRight`, `TargetsLetGo` |
| `facade` | 3 requests, 1 delivery, 2 topics, 1 trusted source | `TypeOK`, `NoRepublish`, `DropJustified`, `OtherTargetsServed` |
| `shutdown` | 694 configurations; 1 task beside facade and queue, 2 requests, depth 1 | `WiringSound`, `CauseReported`, `SettledAtExit`, `DeadTaskEndsAll` |
| `spv` | 43 objects of up to 4 transactions, 7 configurations, 2 branches of 5 heights | `OKVerified`, `RefusedJustified`, `WorkReported`, `TrustEarned`, `VerificationEnds` |
| `spv_refusal` | the same objects, the bridge's own tracker, 1 branch | violation of `RefusedOnMerits`: a mature reward refused |
| `spv_below` | the same | violation of `EveryTransactionVerified`: a fault below a proven transaction passes |

In `PublishQueue`, `HeaderStore`, `Feed`, `Also`, `Shadow` and `Shutdown` the type
invariant is a conjunct of an invariant about the state, and so are the byte
bounds of the queues.

Why the bounds are enough to be interesting. Two records already allow every
order of two records on one connection, one confirmed and the other resent, and
a confirmation window of one puts the client past `maxUnconfirmed`; one resend is
spent by a break or by a failed poll, and the next loses the record; two
addresses allow a failover inside one operation to come full circle. Three
publishers are needed for the lost wakeup (one holds the channel, one rolls back,
one waits); the sizes cover a record that fits, one that does not fit twice, and
one larger than the bound. `PublishQueue` keeps one history variable, `missed`,
for the waiters a rollback passed over: `NoLostWakeup` and `WaitersGetRoom` say
that there is no other way to be left asleep. The header network has a main chain
of two, a fork that ties with it or overtakes it, a header below the floor, and
in the runs on gaps and reads a header below the anchor, from which in the reads a
chain forks that overtakes the anchor's: enough for a tie, a reorganisation, also
across the anchor, a gap and pruning. `headers_lanes` starts at height zero, where
the unsigned cutoff of the pruning could wrap; `HeightWrap` only has to be above
every height. In `headers_reads` a second reader is at work only when both read
roots and at most one lane is busy (the constraint `Crew`): two root reads are
what it takes for a cache to be filled and emptied between a miss and its
insertion, and two lanes beside one reader for a header that one lane re-anchors
while the other delivers it. Three deliveries or offers of
mixed sizes fill a queue, overrun its bytes and leave one more to meet it while
another is being undone; two topics of one delivery separate a count per topic
from a count per object. Three requests are needed for a duplicate of a record
that is not confirmed yet beside one that is withheld. The answers compared are
absent, empty and reordered; the theorem has all others too, repeated and
different ones. The facade, the queue's drain
and one more task let one fail in the stop that another caused. `MCShutdown`
takes every flag with those it is checked against (the engine's, the edge's, the
verifier's, the subscription's), the others as in a bridge that runs all its
parts. The objects of `spv` are a good one with two tips that share an unproven
parent, and that one with a single defect: in a path (wrong root, other branch,
above the tip, broken), a coin (immature reward, confiscated, too much), a spend
(each structural rule, each kind of lock, each kind of script, one that runs for
ever among them), below a proven transaction, or its form. The
tracker's chain starts at height 2 of 4, so that a path may be above the tip and
a reward may mature during the verification; maturities of 2 and 3 fall on either
side of it. Lanes are
interchangeable, and symmetric in `headers_lanes`, which checks only safety.

Deadlock checking is on for `UpTunnel` and `HeaderStore`. The other models have
a finite set of calls and a stop: they really end.

### Fairness

`tunnel` assumes that `Poll` is called again and again (`Queue.Run`'s ticker),
that an operation under way goes on (dials and writes have deadlines), that the
reader is scheduled, that while bytes are outstanding TCP acknowledges them or
fails the connection (`TCP_USER_TIMEOUT`), and that time passes. It does not assume
that a dial succeeds, that the peer stays up, or that an idle connection ever
fails: what was acknowledged has to be confirmed by `pollLocked`. `queue` assumes that a call that is not
asleep goes on, that `Run` goes on until it is stopped, and that the client
settles what it took, which is what `tunnel` shows. Timers and contexts are left
free, so no wakeup is owed to a timeout. `feed` assumes that
calls and workers go on (the HTTP clients have timeouts) and that `Start` returns
once its workers have; nothing says that an engine or target ever answers, and
nothing says that a stop comes. The fairness of a queue that does not move in a
behaviour asks for nothing. `spv` assumes that a worker goes on with the
verification it has and that the deadline comes (`context.WithTimeout`), which is
what ends a script that does not; not that the tracker ever answers well or that the chain
moves. `shutdown` assumes that each startup step ends
(the broker, the anchor's tip and the warm-up each have a timeout), that goroutines go on, that a
send returns, that a task minds its context, and, strongly fair, that `Run`'s
select does not pass the context over for ever: Go picks among ready cases at
random.

## Findings

1. *Lost wakeup* (`queue_lost_wakeup`). `offer` returns the bytes of a record
   the channel refused without closing the room signal. A publisher that failed
   on those bytes sleeps to its timer in front of an empty queue, and is shed.
2. *Stale headers below a gap* (`headers_gap`). After a re-anchored
   reorganisation the canonical map keeps the abandoned chain's headers below
   the re-anchored one, and `RootAt` serves them. It may stay so even when the
   missing header arrives later: putting it does not walk again.
3. *A good object refused* (`spv_refusal`). Maturity and finality are judged by
   the tracker's height, which is zero until the first header arrives on the
   lane, though the store is anchored at the network's tip. Until then the spend
   of a mature reward is refused as a fault of structure, and `enforce` drops it.
4. *Not every transaction is verified* (`spv_below`). Both walks turn back at a
   transaction with a path, so one that only proven transactions spend is never
   looked at, and the object passes and is marked whatever is wrong with it.
   `spv.go:17-20` and `docs/spv.md:20-23` say that every unproven transaction is
   checked, so that an engine may skip the scripts of any. Ancestors of a mined
   transaction are the only ones missed: that is `OKVerified`.

Met while modelling, visible in the actions, and not runs of their own:

- `pollLocked` measures the grace from the write, the documentation from the
  acknowledgement; a record acknowledged late is confirmed at once.
- `Handle` reads `started` and puts the object on the channel in two steps; the
  workers may drain and exit in between, and the delivery is acknowledged and
  never submitted. `AcceptedSettles` shows that, short of the
  drain's deadline, this is the only way.
- At a stop the publish queue's drain ends at once while requests in flight
  still publish into it and are answered 200; those records are never sent.
- `submit` counts and skips a record it cannot encode and answers 200; and the
  guard is marked by the confirmation, so a second submission that begins after
  the first was answered is published too until then.
- `RootAt` caches fallback answers above the anchor too, and no reorganisation
  drops them: a cached root may be of an abandoned chain. The comment on the cache
  has it that roots below the anchor never change; that on `historyTop` admits a
  reorganisation across it. With such a root, or a stale one of finding 2, a
  verification can refuse a path that is on the chain of today and pass one that
  is not; `Faulty` and `GoodTx` therefore speak of the chains the tracker answers
  from.
- On `/v1/tip` and `/v1/root` the API reads `Known` of the height after the hash
  or the root, so that `known: true` may stand beside a root the anchor supplied
  (`api.go:64-68`, `76-86`). `docs/contracts.md:117-118`,
  `docs/header-feeder.md:89-91` and the comment on `Known` (`chain.go:495`) say it
  is for a header received on the lane. `LaneAnswers` holds of the header routes.
- The read API answers 404 when the store's own read failed; a verifier over
  `chainclient` takes it for a wrong root and refuses, where `docs/spv.md:79`
  has an error. The bridge itself does not use the client.
- `check.go:31-33` says of a lock time "at or below tip+1"; the code compares with
  the tip. `Valid` has the code's rule. An unproven transaction that two tips share
  is run twice and counted twice.
- `-edge-ingress ","` passes for an ingress (`main.go:509`) and gives a facade whose
  client has no address, and `-topics ","` for topics (`main.go:448`) and gives
  none. `WiringSound` claims the facade's queue, and not that it has an address.
- What the guard withholds on the facade is not offered to the other targets
  (`docs/also.md:28-29`); if the feed's delivery of it was shed or refused by the
  verifier, nobody hands it on.
- An engine's 200 with the body `null` is read as an answer and counted as
  submitted, under the outcome of an error.
- `Also.Offer` adds before it tests, so an offer that does not fit can make
  another, which does, shed. `canon` keeps repetitions, so an output listed
  twice is a disagreement, although `docs/shadow.md:93-95` and `shadow.go:278-279`
  speak of sets.

## Proofs

Every theorem is about the specification that TLC runs and holds for every value
of the constants that its assumption admits. Each proof is by an inductive
invariant `IInv`, of which the property is a consequence or a part, with one step
per action. What several actions do alike is stated once, as a relation between
two states, and the actions are proved from it.

### UpTunnelProofs

For any set of records, any number of addresses, any resend budget, grace and
fail-back time (`UpTunnelAssumption`): `TypeCorrect`, `ConservationHolds`,
`ConfirmedWasAckedHolds`, `ResendBudgetHolds`, `AwayClockHolds`,
`CleanCloseKeepsAckedHolds` and, where the send queue can be read (`OutqKnown`),
`ImplementsDeliveryHolds`.

The invariant adds what ties the parts together: unconfirmed records belong to
the open connection and lie within what was written on it (`ClientOK`); a record
of the open connection below the peer's acknowledgements is at the host; the
records the client answers for are exactly the accepted ones
(`Placed(c) = Accepted`); and a record's number of writes is at most its spent
resends, plus one while it is on a connection. The `...Locked` operators are
composed in the actions, so what each does is stated as a transitive relation,
`Settles(k, k2, q)`; there is one lemma per operator, one for a settling step, one
for a writing step, and then one step per action.

A second layer over it follows the connection and the clock: `Turns(k, k2)` is
what the operators do to both, and `Watched` says what the reader's stores mean.
`AwayClock` is inductive with it, and `CleanCloseKeepsAcked` follows step by step.
The refinement needs a third fact, that what a connection carried was accepted
(`CarriedTaken`). Every step is then one of the three that a caller can tell apart
(a record taken, one refused, some settled), and each of these is a step of
`RecordDelivery` or a stutter. Without `OutqKnown` the client confirms on a
grace alone, and the contract's "confirmed only after arrival" is false: this is
why the theorem assumes it, and the run checks it so.

### PublishQueueProofs

For any calls, sizes, depth and bound (`QueueAssumption`): `BytesAccountedHolds`,
`AcceptedAccountedHolds`, `NoLostWakeupHolds`. `Placed` puts each accepted record
in one place; `Counted` says that the counter is the sum over the records in the
channel, under reservation and just received, and passes the bound only when it
stands for one record; `Wakeful` says behind what a waiting call, or one that is
about to wait after its rollback, waits. The counter changes by one record's size
where the set changes by that record, which is a lemma of `SetSums`.

### FeedProofs

For any deliveries, topics, workers, retries and bounds (`FeedAssumption`):
`BytesAccountedHolds`, `DeliveryAccountedHolds`. `Placed` puts each delivery in the
queue or with one worker; `Topics` says how far each topic is (`Untouched`,
`Pending`, `Settled`) by where its delivery is. The counter also stands for
reservations that will be given back, so the bound on the queue is carried by the
deliveries whose room is theirs (`Admitted`), which the test admitted one by one.

Of the other targets, for any offers, sizes, workers, bounds and retries
(`AlsoAssumption`, `ShadowAssumption`): `AlsoBytesAccounted`,
`TargetOffersCounted`, `ShadowVerdictsRight`. The invariant is one of each target,
`AlsoInv` and `ShadowInv`, and the other target's step leaves it alone. `AlsoPlaced`
and `AlsoCounted` are as for the feed, with a counter that holds an object until its
answer; `AlsoAnswered` says that the results, summed, are the offers that are over,
where a count and its release are two steps; `ShadowCounted` says the same of the
kinds, the submits apart. `ShadowJudged` keeps of each comparison the two answers
it was about. That the verdicts are right then needs that `Canon` of two lists is
equal exactly when each member is as often in one as in the other: an ordered list
with the same members as often exists (`SortedExists`) and there is only one
(`SortedUnique`), both by induction on the length. Equal bags have equal sets, and
lists without repetition that have equal sets have equal bags (`BagsAndSets`). The answers are assumed to be
lists of naturals, which is what the engine's JSON is decoded to.

### HeaderStoreProofs

For any network of headers, window, warm-up depth, cache size, lanes and readers
(`HeaderStoreAssumption`): `TrueHeightsHolds`, `IndexSoundHolds`,
`TipReportedHolds`, `CanonServedHolds`, `LaneAnswersHolds`, `AnswerHeightsHolds`
and the action property `HigherChainReplacesHolds`.

The invariant has four layers, each inductive on those before it: `Core` (types,
true heights, the index, and that what a lane carries across a released mutex is
still known when it comes back), `Tips` (nothing held is higher than the tip but
the parent of a header on its way; a tip the tracker has not heard of is on its
way to it), `Walks` (the loop of `recanonLocked` goes down the tip's chain, and
what it has not reached is of one older chain) and `Reads` (what a read has in hand
is of its height and was booked to its source). `CanonServed` rests on the last
part of `Walks`, which needs that nothing was re-anchored; finding 2 is what
happens otherwise. `AnswerHeights` and `LaneAnswers` are consequences of `Reads`,
which holds for a reorganisation across the anchor too: that the cache keeps its
bound needs only that an insertion empties a full one first. The facts about chains (`ChainOf`'s recursion defines a function;
of two headers of a chain the lower is on the other's own) are proved by
induction on the heights.

### FacadeProofs

For any requests, deliveries, objects, topics, trusted sources and any number of
rotations (`FacadeAssumption`): `TypeCorrect`, `NoRepublishHolds`,
`DropJustifiedHolds`, `OtherTargetsServedHolds`.

`DropJustified` speaks of a record dropped long after the guard was asked, so the
invariant carries the chain from the guard to the drop: what either generation
knows is on the plane (`GuardSound`), a request that holds the guard's word holds
a true one (`WordKept`), and what was seen before a request began is on the plane
(`SeenOnPlane`). `NoRepublish` needs the converse: within one rotation the guard
knows all that is on the plane (`GuardComplete`), and a record whose topic has
not been settled is untried (`Untried`). What any step does to the plane and the
guard is `Grows`: the plane only grows, a mark goes with it, and a rotation drops
only the older generation. `OtherTargetsServed` is a second layer: a record gets a
fate other than the guard's only after its offer (`OfferedFirst`), and a client
told 200 has a fate for every topic (`Tried`), was offered to the shadow before it
had one, and was offered to the others unless the guard withheld it; a topic that
was withheld is on the plane by `DropJustified`, and whatever put it there was
offered, delivered or trusted.

### ShutdownProofs

For any configurations, tasks, requests and queue depth (`ShutdownAssumption`):
`CauseReportedHolds`, `SettledAtExitHolds`, `WiringSoundHolds`. `Blamed` says that
until the context is cancelled whatever has returned failed early, so that the
first failure recorded is of such a task; `Outcome` ties what `run` returns to
where it is; `Handing` says that only the queue's task hands records to the client,
so that none is handed on after the wait; `Wired` keeps what `validate` and the
broker's answer established up to the point where everything is built.

### SpvProofs

For any objects, branches, heights, maturities and configurations
(`SpvAssumption`): `OKVerifiedHolds`, `RefusedJustifiedHolds`, `TrustEarnedHolds`, `WorkReportedHolds`.
The assumption says of the data what Go's types say of it: sequences of inputs and
outputs, amounts and lock times that are naturals, paths within the chain's
heights (`Shape`); and that an object has finitely many transactions, none its own
ancestor (`Ordered`, said from both ends), because an id is a hash of what names
its sources by theirs.

The code walks, and what its walks reach is `Judged`, the smallest closed set. The invariant says of the first walk that what
it is through with is proven or has its sources reached (`Proving`), and of the
second that it has passed and so (`Checking`, `AtTx`): when a work list is empty,
what was seen is closed, and so holds all that is judged. A transaction that was
sound once stays sound while the chain grows (`Sound` is monotone in the tip and in
the branches followed), which is why tips tried earlier need no second look
(`Walking`). What no walk reaches is below a proven transaction (`Covered`): take, of
what is neither judged nor below a judged proven one, one that no other of these
spends (`LastOne`); it is a tip, or a source of a transaction that is judged or
below a proven one, and so one of both itself. A judged proven transaction of an
object that passed is on a chain, so what is below it is buried (`PassCovers`).
`AskOK` and `Found` carry the fault from the check that failed to the
verdict; for the bridge's tracker a root that differed is a root of one of the
chains it answers from (`StoreKnows`). `OutTotal` adds with a cap at each turn, as `addSats` does; that this is
the plain sum whenever the sum is within the cap, and fails otherwise, is proved by
induction over the outputs.

`WorkReported` has two parts. `Depth` is a recursive function over the graph of the
object, and that there is one is to be shown: it is built on the largest set of
transactions on which the recursion has a solution, which `Ordered` shows to be all
of them. A chain of parents is then no longer than the depth of its first
transaction, and one of that length exists, both by induction on the length
(`ChainBound`, `ChainReached`). The scripts are counted by `WorkInv`, on top of
`IInv`: at each moment the counter is the scripts of the tips that are through,
of what the walk below the present tip has checked, and of the transaction under
way up to its present input (`Counting`).

### What stays with TLC

- Liveness (`EveryRecordSettles`, `WaitersGetRoom`, `AcceptedSettles`,
  `TargetsLetGo`, `DeadTaskEndsAll`, `VerificationEnds`): fairness and `ENABLED` are
  beyond the prover.
- The four violations, which are about one instance by their nature.

Every other property of a run, the invariants, the action properties and the safety
part of the refinement, is a theorem.

The library's induction theorems have an operator for a parameter, which no
installed prover instantiates. `SetSums` therefore states induction with a set
(`NaturalSetInduction`, `SubsetInduction`), from the existence of
minimal elements; it is all the induction that the proofs use.

## Not modelled

- Encoding and parsing of records, headers, routes, requests and flags: outcomes
  of the data here, because no interleaving and no failure tells them apart.
- The BUMP guard: a bounded walk over the bytes of one object that changes no
  state; a model would be a parser again. So with the compact target of a header,
  a number here, and the choice of a route by its glob.
- Hashes, signatures and script execution.
- The feed's synchronous mode (`-engine-workers 0`; the default is 4).
- Metrics, load counters, logging and profiling: they are read and never decide
  anything.

## What is left

Three hazards have no property, because what happens is what the code does: the
grace that runs from the write (`uptunnel.go`, `pollLocked`), the records
published after the queue's drain has ended (`queue.go`, `Run`), and the second
publication of an object that is submitted again before its confirmation
(`facade.go:261-266` leaves it to the fabric). They are described
under Findings, and the properties next to them say what still holds. A next step
would be a property for each once the code decides what it promises there, and
the feed's synchronous mode as a second configuration of `Feed`.
