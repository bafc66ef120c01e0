# A formal model of rustrade

TLA+ specifications of the parts of rustrade that are hardest to test: what the trading engine
believes about its orders when requests time out and connections break, where the fills of hedged
orders go when they arrive early or late, how fills missed during an outage are read back, how a
system stops without losing what it is owed, how many market-data streams share one socket, and the
lock-free clock. TLC checks them on small instances; TLAPS proves, for every size, the safety of the
order manager alone and in the composed system, that no missed fill is lost in silence, that a drain
delivers what is owed, that a shared socket serves what its registrations hold and routes each frame to
them, and that the clock implements its abstract specification. Paths below are
relative to the repository.

## The system

rustrade is a trading framework in six crates: the engine (`rustrade`), the clients of execution
venues (`rustrade-execution`), market data (`rustrade-data`), instruments (`rustrade-instrument`),
sockets and channels (`rustrade-integration`) and macros.

| Part | State | Operations | Talks to |
|---|---|---|---|
| Engine loop (`rustrade/src/engine/mod.rs`) | sequence, draining | process one event: command, trading state, account or market event, shutdown, drain | takes one merged FIFO feed; sends requests to execution managers; emits audits |
| Engine state (`engine/state/*`) | per instrument: orders, positions, resync record; per asset: balances; connectivity, trading state | update from account and market events | called by the engine only |
| Order manager (`engine/state/order/mod.rs`) | active orders by client id; window of recently retired ids | snapshot, fill, cancel response, record in flight, remove, clear | called by the instrument state |
| In-flight watch (`engine/in_flight.rs`) | send instants, earliest deadline | record sends, scan | reads orders, emits alerts |
| Clock (`engine/clock.rs`, `engine/clock/seqlock.rs`) | latest instant under a sequence lock | load, advance | shared by threads |
| ExecutionManager (`execution/manager.rs`) | futures in flight: opens, cancels, lookups; account stream | forward answers, time out, look up, re-initialise the stream, drain | requests from the engine; client; feed |
| Fill recovery (`execution/backfill.rs`, `rustrade-execution/src/client/{dedup,venue_clock}.rs`) | watermark, venue clock sample, seen fills | place a read, read in pages, deliver, deduplicate | client, account stream |
| Venue clients (`rustrade-execution/src/client/*`) | sockets, known live orders, dedup caches | open, cancel, look up, snapshot, stream, read fills | venues |
| Mock venue and simulation (`exchange/mock/*`, `execution/sim/*`) | books, accounts, simulated time | match, step | engine under test |
| Shared market-data socket (`rustrade-data/src/subscriber/shared/*`) | registrations (live, held, lost), subscribed slots | attach, re-attach, detach, release, reconnect | many streams on one socket |
| Order books (`rustrade-data/src/books/*`, venue sequencers) | levels, sequence | snapshot, update, validate | market streams |
| Audit replica (`engine/audit/*`) | a copy of the engine state | apply audited events in sequence | the engine's audit channel |
| System (`system/*`, `execution/builder.rs`) | tasks and channels | start, shut down | everything |

What makes it hard:

- *Two connections.* The answer to an order request and the account stream's reports of the same
  order are not ordered; either overtakes the other.
- *Unknown outcomes.* A request that times out may be lost, on its way, or carried out.
- *Outages.* The account stream ends, is re-initialised with retries, and begins with a snapshot
  that was read at one moment and is applied at another. What was on the wire is lost.
- *Clocks.* Three of them: the venue's stamps, the host's wall clock, which may step, and the
  monotonic clock. The span of a read of missed fills is computed from all three.
- *Bounded memories.* The retired window (64 ids) and the dedup cache (10,000 fills) forget.
- *Weak memory.* The historical clock is two relaxed atomics under a version.

For each part, correct means: the order manager never revives an order nor lets its fill regress;
once nothing is owed the engine's orders are the venue's; nothing stays in flight for ever; a fill
is delivered, once, or its loss is reported; the clock only moves forward and is never torn; a
shared socket loses no stream's frames and keeps no subscription nobody wants; a book applies every
update exactly once; the replica equals the engine; a drain forwards everything that is owed.

## The modules

| Module | Models | Checked by |
|---|---|---|
| `Orders` | the order manager: one action per operation, with any argument | `MCOrders`; proved in `OrdersProofs` |
| `OrderLifecycle` (extends `Orders`) | engine, manager, network, venue and account stream around the same operations | `MCOrderLifecycle`; proved in `OrderLifecycleProofs`, `OrderLifecycleQuietProofs` |
| `MonotonicInstant` | abstract: one instant that only moves forward | `KeepsItsPromise` of `SeqLock` |
| `SeqLock` | the sequence lock, one action per atomic access | `MCSeqLock`; proved in `SeqLockProofs` |
| `FillRecovery` | watermark, reads of missed fills, deduplication | `MCFillRecovery`; proved in `FillRecoveryProofs` |
| `FillRouting` | routing tables and pending fills of hedged orders | `MCFillRouting`; proved in `FillRoutingProofs` |
| `Shutdown` | the ways a system stops: callers, forwarders, engine, managers, venues | `MCShutdown`; proved in `ShutdownProofs` |
| `SharedSocket` | the task, the registry and the callers of a shared market-data socket | `MCSharedSocket`; proved in `SharedSocketProofs` |

Definitions marked *Mutant* are not used by any specification: each is a plausible bug, and shows
that the property named beside it in `PROJECT.json` can fail.

Modules with several kinds of venue or of configuration keep the one of a run in a variable,
`setting`, chosen by `Init` from the constant `Settings` and never changed: one run then explores
each configuration under bounds of its own, and a property that needs a certain kind says so
(`Unlimiting` in `FillRecovery`, `ConfirmsRelease` in `SharedSocket`).

### Orders

`tracked` is the map `Orders.0` and `retired` the window `Orders.1`. `ActiveOrderState` is one
record: the status, what the venue last said (`open`, which is `open_meta()`) and the send time of
the request in flight. The three kinds of inactive state the code treats specially (duplicate
client id, never placed, outcome unknown) are apart; all others are "Ended". `UpdateFromOrderSnapshot`
is a disjunction over the arms of the code's match, and each arm's early returns are its
alternatives. A venue's id of an order may be absent (`ClientAssigned`), and then neither
contradicts nor equals another. Decimals are integers in units of the smallest step.

### OrderLifecycle

The operations of `Orders` are called with the arguments that a system produces: `SendOpen` and
`SendCancel` by the strategy, `Take...` by the engine for the head of its feed. A request is on the
wire, then delivered, lost, or answered; `TimeoutOpen` may come first, and starts a lookup.
`stream` is FIFO, and lost from some point on by `DropLink`; `Subscribe`, `ReadListing` and
`FailReinit` are the steps of re-initialisation, in the code's order: subscribe, read the
snapshot, deliver it first. `ApplyAccountSnapshot` puts the parts of the snapshot at the front of
the feed, and until they are done neither the strategy nor another event acts: the engine handles
the snapshot as one event.

The venue is external: it accepts, refuses, fills and ends orders, and emits a report of each.
Two fields of the setting say how a venue reports: `fillReports` (executions or order snapshots)
and `completesAsOpen` (a complete fill is reported as `Open` with nothing remaining). `LookUp` carries
one assumption of the code, `UnknownOutcomeLookup::grace`: while a request may still reach the
venue, the venue not knowing the order concludes nothing.

Quantities of time are left out here: every stamp is the same, which makes `is_superseded_by`
decide on the fill alone, the case in which stamps do not help. `Orders` has different stamps.

### SeqLock

Memory is a view machine: each location is the list of its stores, and a thread may read any store
at or after its own view. Acquire and release, on accesses and as fences, are modelled as the
language defines them, so relaxed loads of `secs` and `nanos` do return stale stores. A failed
`compare_exchange_weak` may be spurious. `KeepsItsPromise` is the refinement of `MonotonicInstant`,
whose instant is the one the last completed advance left.

### FillRecovery

`now` is the venue's clock and the monotonic one, `offset` the host's lead over it. An attempt to
open the stream subscribes, reads `[ReadFrom, ReadTo]` in calls that may fail, stop short, come back
no further, or meet the page limit, fetches the snapshot, and only then delivers: missed fills, gaps,
snapshot, stream. `Deliver` deduplicates and moves the watermark. `FailOpen` retries the whole
attempt with nothing delivered. A venue either keeps every fill or forgets fills of a certain age
(`retention`); as in the clients of the repository, the reads of a venue that forgets are not paged.

### FillRouting

`state` is `InstrumentState` under `OmsMode::Hedging`: the tracked orders, the three routing maps
(`position_ids`, `exchange_id_to_cid`, `retired_routing`), the pending fills and the signed size of each
position. `AfterTrade`, `AfterReport` and `AfterCancelResponse` are the whole handlers, replay of pending
fills and `cleanup_routing_tables` included. The venue executes an order a unit at a time; fills,
reports and cancel answers reach the engine in any order. A fill either carries its order's cumulative
or does not (`totals`), as venues differ. `Split` is a reverse split whose ratio exceeds every
quantity: every position is floored away and `Unmap` drops the mappings of the orders resting on it.
The order of a hash map's keys, which the code iterates over, is a parameter (`hash`). The fields below
*History* in `InstrumentState` are read by the properties only.

The properties speak of a fill whose order was *settled*: its first report out of `OpenInFlight` tied the
client id to the venue's id. What the code does for the others is its documented fallback, a position
under the raw order id. Seen while modelling, and in no property: an order answered `Cancelled` or
`Expired` straight away carries an id but does not settle, and its pending fills wait for the next cancel
answer; a cancel sent before the acknowledgement keeps fills from waiting, and the acknowledgement then
does not settle; a cancel refused before the acknowledgement drops the mapping; an order retired before a
split routes through `retired_routing` to the floored position, and reopens it.

And seen while proving: the retired routing is consulted before the buffer because "a fill buffered for an
already-retired order would never be replayed and never dropped"
(`rustrade/src/engine/state/instrument/mod.rs:2433-2434`), but when that routing is gone, evicted or dropped
by a split, the buffer is reached all the same. While any other open is in flight the late fill then waits
for a report that cannot come, and a cancel's answer may discard it, where the documentation promises a
position under the raw order id (`mod.rs:1316-1317`). TLC finds it in ten steps: two opens are sent, one
fills twice and is reported filled, its first fill is booked, a split floors the position, and the second
fill waits behind the other open.

### Shutdown

The caller of `shutdown`, `abort` or `shutdown_after_backtest`; the two forwarders that feed the engine;
the engine; and per exchange a manager over a venue that emits an order's account event before its
answer, as the mock venue does. `TakeEvent` is one turn of the engine's loop. A manager that drains
stops only when it owes nothing (`OwesNothing`), and then forwards what is readable on its account
stream without waiting (`StopDrained`). `Sever` is the abort of the account forwarder, which
`shutdown_after_backtest` does when its deadline passes; the properties except exactly that. One account
event stands for all that an order emits. A stream that breaks yields its notice, `Reconnecting`, and is
then pending until `ReopenStream`; `missed` is what a broken stream has not delivered, what it held and
what the venue emits meanwhile. How much of it a re-initialisation reads back, and in what order, is left
open here: `FillRecovery` says.

Seen while modelling: the drain of a manager stops at a stream that is being re-initialised, so what the
venue has emitted since the break is left behind although its answers were forwarded, where the comment
has every such event "sitting in the account channel, ready" (`rustrade/src/execution/manager.rs:806-810`).
`DrainDeliversEvents` therefore asks of an event either that the engine has it, or that a broken stream has
not delivered it and the engine has the notice of that break: nothing is cut off in silence.

Seen while modelling: a strategy may send from `on_disconnect` while the engine drains
(`rustrade/src/engine/mod.rs:490`), and a manager that has read `Drain` reads no further request, so such
a request is never sent and never answered, against the comment of `rustrade/src/shutdown.rs:50-52`.
The properties speak of the requests sent before the drain (`engine.owed`).

### SharedSocket

`current` is the handshake the task is in, `queue` its commands, and `socket` both ends of the connection:
what the task believes it is subscribed to, what the provider streams, and the frames on the way.
The provider decides as the message is sent, and its answer is read later, perhaps after the
handshake timed out; while a handshake waits, data is routed and commands queue. The three protocols
differ in whether a refusal is atomic, whether a release is confirmed, and whether pings detect a
silent route (`RefusalIsAtomic`, `ConfirmsRelease`, `HasKeepalive`). A route may be dropped without a close
whoever the provider (`GoSilent`). The keepalive finds it out, but only one of the three providers has one;
for the others nothing in the code ends such a socket, an attach times out on it again and again, and only
the network can give up on it (`GiveUp`), at any time. A registration is live, held (its
socket was lost, the new one holds frames for it) or lost; an id that nothing names stands for a fresh
one, since ids are only compared for equality. Callers may stop waiting for their answer at any time.

Seen while modelling: for the provider that does not tell its answers apart (LSE), a refusal that comes
after its handshake timed out is taken by the next attach, which fails in its place.

## What the runs show

| Run | Bounds | Shows |
|---|---|---|
| `orders` | 3 client ids, 2 venue ids, fills 0..1 of quantities 1 and 2, 2 stamps, window of 2 | every sequence of operations: well-formed orders; a fill never regresses; a report of a foreign order is refused; only an answer ends a request in flight, and resending does not restart its time; the window is bounded and holds an id once; an id is never tracked and retired; only a new open request brings a retired id back |
| `lifecycle` | 1 order of 2 units, 2 cancels, 2 breaks, failing lookups; or 2 orders of 1 unit, 1 break, partial snapshots, completion as `Open` | an order remembered as ended has ended; once nothing is owed, a live order is tracked as open, an ended one is not, and one still in flight is explained; an order with nothing left is untracked |
| `lifecycle_liveness` | 1 order, fills as snapshots, 1 break | the tracked fill is the venue's once nothing is owed; every open request resolves |
| `seqlock` | 2 threads, 2 calls each, 3 instants | refinement of `MonotonicInstant`; stores only by the holder; every call returns |
| `fill_recovery` | 4 ticks, 2 failures, cache of 1; 2 fills and a host clock ±1; or 3 fills, 2 pages, span 3, reads that fail | with reads that succeed every fill is delivered; otherwise a fill is delivered or its loss reported; one the cache remembers is not delivered twice |
| `fill_routing` | 3 orders of 2, 1 and 1 units on 2 positions, 1 retired order's routing, a cancel or a split | a fill of an acknowledged order reaches its position, once, before or after the order's end; no fill is forgotten or repeated; a floored position stays closed; the maps stay bounded |
| `shutdown` | 2 managers, an open and a cancel, 1 market event, 1 stream that breaks and is re-initialised | a drain that is not cut short answers every request, and loses no account event the venue's answer implied but those a broken stream has not delivered, of which the engine has the notice; every call returns |
| `shared_socket` | 2 streams sharing 1 of 2 slots, 1 fault (a loss or a silent route), each protocol; 2 frames; 1 early timeout or 2 commands | the socket serves its registrations; frames reach their stream once and in order; nothing streams unwanted; no detach takes another's place; grace is not extended; every stream attaches; an unwanted socket closes |

Bounds and why they are enough. The operations of `Orders` touch one id at a time, and ids meet only
in the window: three ids and a window of two give eviction, re-use and removal
from the middle; `OrdersProofs` removes the bounds. A fill of
nothing, of a part and of the whole need quantities 1 and 2 and cumulative fills 0 and 1 (0 to 2 in the
lifecycle). Two cancels give a cancel resent while one is
in flight, and one sent after a refusal; two breaks give a failed re-initialisation and a second
outage while events of the first are still on the feed. The stream and the feed hold two events
(`MaxBacklog`): enough for each to be overtaken. Three orders let one retire after
another with room for the routing of one, and a position be closed by an order other than the one that
opened it. Two streams share a slot and one has another, so a release must keep one slot and give up the
other; six ids are more than registrations, attachments and commands can name at once, so a fresh one is
always at hand. Two frames are enough for one to overtake the other; in the setting that has them one of the streams
stays once it has joined (`leavers`), since what matters there is a loss and a re-attach, not who leaves.
Where a stream may break, in `Shutdown`, no market event is sent. In `FillRecovery` one tick is the unit of the
overlap, the skew and the delay, so each comparison is met at, above and below its boundary.

Assumptions of the fill recovery runs, each a setting's stated purpose: an event is delivered within
the overlap of being made (`MaxDelay <= Overlap`), a first open takes no longer than the overlap
(`MaxOpening <= Overlap`), and the host's clock is within the allowed skew (`offsets` within
`MaxSkew`).

Deadlock is checked in every run but those of `Shutdown` and `FillRouting`, which really end: there
`StopReturns` and `EveryFillAccounted` say what must be done by then. Elsewhere a state in which nothing
more need happen has a stuttering step of its own (`Rest`, `Done`), guarded by nothing being owed, and any
other stop is an error; the time of a shared socket does not stop.

### Fairness

`FairLifecycleSpec`: the engine takes the events of its feed (its loop blocks on nothing else), the
manager forwards answers and stream events, times out every request and looks it up (tokio polls a
ready future and fires a timer), a broken stream is re-initialised (it is retried without limit), and
a request on the wire is delivered or lost. Nothing is asked of the strategy, of the venue's fills
or of cancels. `SeqLock!FairSpec`: a thread that can step does; it does not read an overwritten
version for ever (stores become visible in finite time) nor fail a swap it could make for ever.

`Shutdown!FairSpec`: every task that can run is run, and every request and lookup ends, by its timeout if
not by an answer. Nothing is asked of the venue, nor of the deadline of `shutdown_after_backtest`.
`SharedSocket!FairSpec`: the task handles commands and reads frames; `select!` picks among what is
ready at random, so a timer is not passed over for ever (strong fairness of `Expire` and `Keepalive`);
a stream that lost its attachment asks again, without limit. Faults are bounded, which is the assumption
under which a stream can be expected to attach. Where there is no keepalive the network is trusted to give
up on a silent socket (strong fairness of `GiveUp`), but only one into which handshakes keep being sent,
whose data goes unacknowledged: a silent socket on which nobody asks for anything may stay for ever. Where
there is a keepalive the network is trusted with nothing.

### Where the code and its comments differ

Four runs expect a violation, each of a sentence of the repository.

- `cancel_complete`: "an order cannot be retained as active once it has nothing left to fill"
  (`rustrade/src/engine/state/order/mod.rs:50-51`). The arm for an order with a cancel in flight
  stores a completing `Open` report without the check, and the order stays tracked.
- `answer_settles`: of an order in flight when a snapshot is applied, "its request is still being
  answered, and the answer settles it" (`rustrade/src/engine/state/instrument/mod.rs:1034-1035`). A
  cancel in flight on an order that ended during the outage is refused; the refusal makes the order
  `Open`, and nothing removes it until the next outage.
- `fill_recovery_opening`: the moment a first open began is the watermark "so a fill made while the
  snapshot is fetched is inside the span of the next read" (`rustrade/src/execution/manager.rs:342-343`).
  The snapshot's own delivery moves the watermark; if fetching it took longer than the margins and
  the stream broke meanwhile, the fill is in no read, and no gap reports it.
- `fill_routing_late`: "Beyond that bound, or where a corporate action deliberately dropped the order's
  `PositionId` mapping, a fill opens a position under" the raw order id
  (`rustrade/src/engine/state/instrument/mod.rs:1316-1318`). There is a third way: an order reported
  filled while its open is in flight keeps its mapping until the next retirement demotes it, but a fill
  of another order that closes the position first prunes that mapping, and the late fill goes to the raw
  id with nothing evicted.

## What is proved

The theorems of `OrdersProofs` hold for every finite set of ids, every set of amounts, quantities
and stamps, and every `MaxRetired > 0`; those of `SeqLockProofs` for any set of threads and of instants and any number of calls. Assumed are only the
named assumptions of `Orders` and `SeqLock`: ids are finitely many, amounts and stamps are natural
numbers, quantities positive ones, the window has room for one, an instant is a pair of natural numbers,
and the null values are none of the values they stand beside.

Those of `FillRecoveryProofs` hold for every set of settings, any number of fills, breaks and failed
attempts, and every overlap, skew, span, page limit and cache size, under the named `Margins`, which is
what the configuration's margins are for: an event is delivered, and an attempt to open the stream made,
within the overlap, and the host's clock stays within the skew of the venue's.

Those of `OrderLifecycleProofs` and `OrderLifecycleQuietProofs` hold for every set of settings, any number of orders, cancels and breaks,
and any backlog; assumed besides the assumptions of `Orders` are that the venue gives different orders
different ids (`NameAssumption`), that a cumulative fill is an amount and the one stamp a stamp
(`ScaleAssumption`), and again the null values. Four of them are about venues of which the table says more;
each setting of the runs that check those properties is such a venue. Those of `ShutdownProofs` hold for any exchanges,
requests, market events and breaks.

Those of `SharedSocketProofs` hold for any streams, ids, grace and settings, and any number of frames,
faults, timeouts and queued commands. Assumed are that the provider's slots are finitely many and each
stream asks for at least one (no subscriptions are an error, `rustrade-data/src/streams/consumer.rs:78`), that the
grace is positive, that the settings are settings, and the null values (`NullAssumption`).

Those of `FillRoutingProofs` hold for any orders, quantities, positions, bound of at least one and settings,
and any number of fills, reports, cancels and replays. Assumed are that the venue gives different orders
different ids, none of them a position the strategy names, that quantities are positive
(`RequestAssumption`), and that a hash map yields each of its keys, in any order (`SettingAssumption`).

| Theorem | Property |
|---|---|
| `TypeCorrect` | `TypeOK` |
| `WindowBounded` | `RetiredWindow` |
| `NeverLiveAndRetired` | `TrackedNotRetired` |
| `NoResurrection` | `RetiredStayRetired` |
| `FillsOnlyGrow` | `FillNeverRegresses` |
| `NoForeignReport` | `ForeignOrderRefused` |
| `OnlyAnAnswerEndsARequest` | `InFlightUntilAnswered` |
| `SeqLockProofs!TypeCorrect` | `SeqLockTypeOK`, which includes `WriterExclusive` |
| `Implements` | `KeepsItsPromise`: the refinement of `MonotonicInstant` |
| `FillRecoveryProofs!TypeCorrect` | `RecoveryTypeOK` |
| `NothingLostInSilence` | `NoSilentLoss` |
| `DeliveredOnce` | `NoFillTwice` |
| `AllAreDelivered` | `EveryFillDelivered` |
| `ShutdownTyping` | `ShutdownTypeOK` |
| `DrainAnswers` | `DrainAnswersAll` |
| `DrainDelivers` | `DrainDeliversEvents` |
| `SocketTyping` | `SocketTypeOK` |
| `SocketServesItsRegistry` | `SocketServesRegistry` |
| `EveryFrameReachesItsStream` | `FramesReachTheirStream` |
| `UnwantedIsReclaimed` | `NothingStreamsUnwanted` |
| `WhatIsConfirmedIsStreamed` | `ConfirmedIsStreamed` |
| `PlacesAreKeptAlways` | `PlacesAreKept` |
| `GraceRunsFromTheLossAlways` | `GraceRunsFromTheLoss` |
| `RoutingTyped` | `RoutingTypeOK` |
| `FillsRouted` | `FillsReachTheirPosition` |
| `FillsAccounted` | `EveryFillAccounted` |
| `LiveMapsStayBounded` | `LiveMapsBounded` |
| `FlooredPositionStaysClosed` | `FlooredStaysClosed` |
| `LifecycleTyping` | `LifecycleTypeOK` |
| `CallsOrders` | `OrderLifecycle` implements `Orders`: whatever the system does, the order manager is called as `Orders` allows |
| `OrdersKeepTheirPromises` | so the invariants and action properties of `Orders` hold in the system |
| `RetiredForGood` | `RetiredIsOver` |
| `NothingLeftUntracked` | `NothingLeftIsUntracked`, where no venue reports completion as `Open`, or no order is cancelled |
| `LiveOrdersStayTracked` | `LiveOrdersTracked`, where lookups conclude or account snapshots are complete |
| `FlightsEnd` | `InFlightIsExplained`, on the same terms |
| `EndedOrdersAreDropped` | `EndedOrdersUntracked`, where the window has room for every order of a run, and completion is not reported as `Open` of an order that may be cancelled |
| `FilledIsTracked` | `FilledAgrees`, where partial fills are reported as snapshots and account snapshots are complete |

The inductive invariant of the first seven, `OrdersInv`, is the conjunction of `TypeOK`, `RetiredWindow`
and `TrackedNotRetired`, each of which a run checks. The two about the window need each other: `Clear`
appends every tracked id to the window, which stays without repetitions only because no tracked id is
in it; and a new open request forgets one occurrence of its id, which leaves the id out of the window
only because it was there once. The proof has one step per operation, and under the snapshot one per
arm; lemmas state what remembering, forgetting and draining do to a window. `NoResurrection`,
`FillsOnlyGrow`, `NoForeignReport` and `OnlyAnAnswerEndsARequest` are action properties: each step, from
a state of the invariant, makes of every entry only what `StepsWell` and `RequestsKept` allow.

That of the sequence lock, `SeqLockInv`, says what a version *publishes*: as many instants as its view has
stores to each field (`PublishesWhole`). A store to a field carries the odd version it was made under, by
the writer's release fence, and every later even version publishes it (`TagsFields`). So a reader that
took an even version has seen what it publishes (`ReaderOK`), and if it then read a later store to either
field, its acquire fence makes it see that store's odd version, and the second read of the version
differs. Equal versions therefore mean that the two fields are the last instant the version publishes.
A writer takes the version only when it is even and the last, acquiring it, so it has seen every store
(`WriterOK`) and compares its time with the instant really held. The refinement maps the second store of
an advance to `Advance`, and the return of a call to `Learn`; `SeqLockInv` itself was checked by TLC on
the bounds of `seqlock` before it was proved.

That of the fill recovery, `RecoveryInv`, follows each fill from the venue to where it is safe: delivered,
or in a span reported as not read. While the stream is open a fill that is not safe waits among what was
read, is on the wire, or was lost by a break later than all that is still on the wire (`StreamCovers`).
While an attempt opens it, a fill that is not safe is read, reported or still ahead of the read, or came
after the attempt began (`AttemptCovers`). What links the two is `Reachable`: whatever is not safe nor
waiting was made no more than the overlap before the watermark's instant. A delivery keeps it because an
event moves the watermark only when it is not overdue and the stream delivers in order; and a read starts
at least the overlap before that instant and ends no earlier than now (`ReadSpansTheOverlap`), whichever
way the clocks stepped, because each estimate of the venue's clock only widens it. `DeliveryOK` says that
the deduper holds the latest fills delivered, in order, hence `DeliveredOnce`. Where reads are not limited (`Unlimiting`),
`WholeReads` adds that nothing is ever reported as not read: the watermark's time is within the skew of its
instant, so a read from it spans at most the time of the run, the overlap and four skews, which is what
`Unlimiting` allows a read to span. TLC checked `RecoveryInv`
on the settings of `fill_recovery`, with `MaxTime` 3, before it was proved.

That of the shutdown, `ShutdownInv`, says where a request sent before the drain can be: in the manager's
channel, in flight, looked up, on the feed, or answered; and that a task ends only when those of its
places are empty, unless it is cut short. The order of the channels does the rest: `Drain` is behind every
request on a manager's channel, the forwarder ends behind everything the managers sent, and `Shutdown` is
behind everything the forwarder sent, so when the engine takes it nothing is left. An account event is
followed the same way, from the venue's stream to the engine; and where it is missed instead, the notice of
the break is (`NoticesAreKept`), since an exchange that has missed anything once had its notice on the stream.

That of the lifecycle, `LifecycleInv`, says that every message is true when it is made, and of what it
says nothing can become false: an order that is over stays over, a fill only grows, and an order never
placed is not placed later, because a lookup concludes that only when the request can no longer reach the
venue. So whatever overtakes what, `Retire` is called for an order that ended. The one argument from
silence, that an order a complete listing leaves out has ended, needs more: what was on the stream before
the listing was read is ahead of it (`FeedSettles`, `StreamSettles`), and only orders recorded as open
when the stream broke are removed. TLC checked the invariant on a failing, a partially listing and a
combined setting before it was proved. The hypothesis of `NothingLeftUntracked` is needed:
`cancel_complete` violates the property without it.

`LifecycleInv` says that no message is false; `QuietInv` says that none is missing. Whatever the engine
does not know of an order is due: its request is pending, or a report is on its way, or the stream that
lost the report is down and will be listed again. A live order the engine does not hold is due twice, from
the answer to its request and from the stream, so losing one source is not losing the order; a cancel in
flight has its answer pending or on the feed; an order that is over is remembered, or its end is reported,
or a removal heads the feed, or nothing will ever open it. `OrderTaken` lists what the engine must make of
an event, and `TakenIsNotMissed` shows that this suffices; the rest of the proof is that each operation does
it, and that `update_from_order_snapshot` ignores a report only when it tells nothing (`ReportArms`). When
nothing is owed, nothing is due, so nothing is unknown. Every term of the hypotheses is used: without room,
an answer that comes after its order was forgotten tracks it again, and no report of its end follows;
lookups that run out lose the one source, snapshots that leave orders out the other; and an execution says
nothing to an order in flight (`update_from_fill` takes it only when `Open`). TLC checked `QuietInv` on the
settings of the runs before it was proved.

That of the shared socket, `SocketInv`, has two halves. On the callers' side (`Callers`) an id names one
attachment whoever holds it: a stream, a queued detach, the handshake under way. So whatever commands
overtake each other, a detach is of an attachment nobody has, and a caller that stopped waiting leaves a
detach of its own; this is what `PlacesAreKept` needs. On the task's side (`RegistryOK`, stated of any
registrations, index, socket and handshake, so that the intermediate values inside a handler can be judged
by it) the index is what the registrations ask for, `LinkAll`, and three accounts of the connection differ
by what the handshake under way will settle: what the task is subscribed to (`SubscribedOK`), what the
provider streams (`WantedOK`), and the answers on the wire (`AnswersOK`). While every release was confirmed
in time, a subscribe has one answer on the wire, its own, and the answer to a release is the last, and none
ahead of it can be taken for it because each still names a slot being released (`ReleaseIsAnswered`).
`Releasable` and `Subscribable` are what an operation may be entered with; `Released` and `SubscribeKeeps`
show that every way a release or a subscribe can end then restores the invariant, and each command, timeout
and refusal is shown to enter them so. TLC checked `SocketInv` on the settings of `shared_socket` before it
was proved.

That of the fill routing, `RoutingInv`, is stated of any instrument state, because a handler makes several:
a report demotes, prunes, ties the ids, and replays what waited, and each intermediate state is judged by
the same parts. An order is *tied* once a report has linked its ids. `OrdersOK` says that a tied order
carries its id while it is tracked and is not tracked again, so an order in flight is not tied and its fills
can only wait. `Routed` says where a settled order's position is found: in the live maps, in the retired
routing, or nowhere because it was given up (`Lost`); each place is what one arm of `Route` reads, and
`RouteFacts` is that reading. `Accounted` puts every fill in one place, except those of a set outside the
engine: for a step of the system those on their way or not yet made, and inside a replay also those of the
queue that are still to be replayed (`ReplayKeeps`). `OneLeft` names the one order that is over and still in
the live maps, the one that the last report or fill retired. `Shuns` is `FlooredStaysClosed` for a handler.
What a recursive function computes along a queue is proved by `Induction`, from the well-foundedness of
the naturals. The proof found an earlier form of `EveryFillAccounted` too strong, on four orders where the
run has three: the fill of an order whose position closed before the order's own demotion may wait behind
another open and be discarded; hence the third disjunct. TLC checked
`RoutingInv`, part by part, on the settings of `fill_routing` and on those of `fill_routing_late`.

Only model-checked: liveness, which rests on fairness.

## What is not modelled

The arithmetic of positions, margin and statistics, which is decimal and unit-tested; the wire formats
and REST calls of the venues; indexing and instrument descriptions, which are fixed at start;
and the traits a user implements. In the parts that are modelled: logging, waits between retries, the
allowance for clock drift, fills stamped by the host, several instruments in one read. A fill that
two calls of one read return is one fill of the model, as deduplication makes it.

- `FillRouting`: the reduce-only book, forced and settlement fills, `OmsMode::Netting`, fees, positions
  that flip, fills of unassigned venue ids, the resync of an account snapshot, splits that leave a
  position open, and the eviction and stamps of the retired window (`Orders` has those).
- `Shutdown`: the attempts to re-initialise a stream that fail, the lookups of requests that were never
  placed, commands to the engine, the draining of the mock exchange itself, and send errors the engine
  does not recover from.
- `SharedSocket`: the check that streams of one endpoint share a socket, what the provider's session
  and its handshake check, the replay window of LSE, and the end of the task when its last sender is
  dropped.

Of the parts in `PROJECT.json` that are not modelled, the in-flight watch, connectivity, the audit
replica, the venue clients' record of live orders and the sequencing of order books are next (below); the
rest is arithmetic, data types, or transport.

## Plan

Done: `Orders`, `SeqLock`, `FillRecovery`, `OrderLifecycle`, `Shutdown`, `FillRouting` and
`SharedSocket`, each with its proofs. To come, most important first:

1. `InFlightWatch` (`rustrade/src/engine/in_flight.rs`): each overdue request is flagged once, under
   stamps that repeat and clocks that step; checked against the definition "in flight longer than its
   deadline".
2. `KnownLiveOrders` (`rustrade-execution/src/client/order_recovery.rs`): what a client believes live,
   and has not checked, against what the venue holds, through cancels, fills and lookups.
3. `Connectivity` and `AuditReplica`: the replica equals the engine at every audited sequence number,
   but for a client id reused within the window.
4. `BookSequencer`: a local book equals the venue's at its sequence number, for both Binance rules.
5. Positions under `OmsMode::Netting`, with `FillRouting` as the hedged half.
