# BizScout Monitor: verification project

BizScout is a small monitoring system. An Express API probes an HTTP target once
per five-minute slot, stores every probe in Postgres and pushes it over
server-sent events to a React dashboard, which merges these live pings into a
history it pages through over REST. This directory holds TLA+ models of it, the
TLC runs that check them, and TLAPS proofs. Paths are relative to the
repository (`src/` here).

## 1. Inventory

| Component | Code | State | Operations | Interacts with |
|---|---|---|---|---|
| Ping pipeline | `apps/api/src/monitoring/ping-service.ts` | `inFlightSlots` | `runSlot`, `runManual`, `execute` | store, prober, bus; called by scheduler, cron route, demo route |
| Slot scheduler | `monitoring/scheduler.ts`, `slots.ts` | `timer`, `running`, `lastScheduledSlot`, `nextRunAt`, `inFlight` | `start`, `stop`, `scheduleNext`, `fire` | the pipeline (ping), the repository (retention) |
| Probe | `monitoring/httpbin-client.ts` | none | `send` | the target |
| Ping repository | `monitoring/ping-repository.ts`, `db/schema.ts` | table `ping_results`, its identity sequence and unique index | `insert`, `existsForSlot`, `list`, `listAfter`, `findById`, `stats`, `series`, `deleteOlderThan` | Postgres |
| Event bus, SSE hub | `events/event-bus.ts`, `realtime/*.ts` | handlers; `clients`, heartbeat | `publish`; `add`, `broadcast`, `stop` | pipeline, stream route |
| Stream route | `http/routes/stream.routes.ts` | none | register, replay | hub, `listAfter` |
| REST routes, middleware | `http/**` | none | the routes, token check, error handler | repository, pipeline |
| Shutdown | `server.ts`, `container.ts`, `http/close-gracefully.ts` | `shuttingDown`; pool, server | `shutdown`, `closeGracefully`, `stop` | everything in the API process |
| Retention | `container.ts:62-75` | none | the sweep | scheduler, repository |
| Live stream hook | `apps/web/src/features/realtime/*` | source, `hasOpened`, backoff, timer; connection status | `connect`, `onopen`, `onerror`, cleanup | EventSource, query cache |
| Dashboard cache | `features/pings/{cache,hooks,api}.ts` | the queries: pages of the infinite lists, stats, series, details | `insertPing`, `applyPingToCache`, refetch, Load older, interval | hook, REST, panels |
| API and query client | `lib/api-client.ts`, `app/query-client.ts` | none | `apiGet`, `retry` | REST routes |
| Dashboard panels | `app/DashboardPage.tsx`, `PingTable.tsx`, `StatsCards.tsx`, `ResponseTimeChart.tsx`, `PingDetailDrawer.tsx` | chosen window, filter and ping | choose, open, close, retry | the queries |
| Shared contracts, mapper | `packages/shared`, `ping-mapper.ts` | none | schemas, conversions | API and web |
| Payload generator, configuration, logging | | | | not modelled, section 8 |

The behaviours that are hard here:

- three triggers (scheduler, external cron, manual) and several processes work on
  the same slot, with a probe of seconds between the check and the insert;
- a query can be given up by its client and commit all the same, and a process
  can die between commit and publication;
- the setTimeout chain lives only by the `finally` of its own run, and
  `stop()`/`start()` can happen while a run is in flight;
- ids are drawn in one order, rows become visible in another and events are
  published in a third, while replay, pages and merges all go by id;
- the list is written by fetches, by "Load older" and by live pings, all
  asynchronous;
- a panel's query is asked for by mounting, live pings, reconnects, an interval and
  clicks, each of which may find a fetch under way, failed, or answered too early;
- the wall clock the scheduler aligns to can be set, and timeouts do not follow it;
- streams break, retry, fail for good, and unmount with a timer pending;
- shutdown has to drain runs that use the pool it is about to end, while clients
  keep asking and reconnecting.

What makes each component correct is stated by the properties in section 4;
`PROJECT.json` lists each hazard at its line with the properties that cover it.

## 2. Modules

| Module | Models | State and actions against the code |
|---|---|---|
| `PingLedger` | abstract specification | recorded pings and announcements, `Record` and `Announce`: a slot at most once, only recorded pings, each once |
| `PingService` | `PingService` and Postgres, several processes | `inFlight[p]` is `inFlightSlots`; `pc[r]` is how far a call is between two awaits; `stmt[r]` how far its INSERT is in Postgres, apart from what the client knows. One action per stretch of code between two awaits: `RunSlot`/`SkipInFlight`/`RunManual` up to the first await, `CheckHit`/`CheckMiss`/`CheckFails` at the return of `existsForSlot`, `ProbeSettles`, `InsertReturnsRow` (which publishes), `InsertReturnsNull`, `InsertRejects`. `DrawId`, `Commit`, `Conflict`, `LoseStatement` are the database's; `Crash`, `Restart` the process's |
| `SlotScheduler` | `SlotScheduler` | the fields under their names, plus the timeouts the event loop holds with the time they have left. `Start`, `StopCall`/`StopReturns`, `TimeoutFires`, `JobSettles` (with its `finally`); `Tick` for time that passes, `ClockIsSet` for a wall clock that is set |
| `Schedule` | abstract specification | a clock, the slots recorded, the slots owed: each at most once, none before it begins, what is owed is recorded |
| `Monitor` | `container.ts:52-60`, the cron route, one API process | composes `SlotScheduler` (by EXTENDS) and `PingService` (`Pipe`, by INSTANCE): `Boot` and `BoundaryFires` are a step of both, because `fire()` calls `runSlot` at once; `CronTicks` is `/internal/tick`; `JobReturns` is the resumed await in `fire()`; `Crash` wipes the memory of both |
| `LiveStream` | one dashboard's live path | server (`hub`, `replay`), network (`wire`), EventSource (`es`, `lastEventId`), hook (`hasOpened`, `reconnectTimer`, `status`), and the list query as the set of ids it returned; its fetch may fail, be given up (`AttemptFails`), be cancelled by "Load older" and be asked for again |
| `DashboardCache` | one filter's infinite list | `pages` as in the cache entry; `fetch` is the fetch under way with the pages it started from, so its answer can be older than what it replaces |
| `Shutdown` | signal to exit | `stage` is the await `container.stop()` is at; jobs, requests, connections and streams around it |
| `PingHistory` | repository as a reader meets it | rows with id, `requestedAt` and `ok`; a walk over the pages of `list` against inserts, commits and sweeps |
| `RestCall` | a REST call end to end | `Respond` is middleware, route and error handler; the rest is `apiGet` and the retry policy |
| `DashboardQuery` | a panel of the dashboard and its queries | extends `RestCall`: every fetch is such a call, and the route says which panel it is. `entry` is the query cache, `Parts` what the panel shows; live pings, reconnects, the interval and the user (choosing, closing, retrying, "Load older") act on both. Callers of the other routes go their own way |
| `Probe` | `send` and the insert of its result | head, body, timeout and network failure in any order |
| `MCPingService`, `MCShutdown` | | model values and sets for TLC |
| `PingServiceProofs`, `MonitorProofs`, `ProbeProofs`, `LiveStreamProofs`, `PingHistoryProofs`, `DashboardCacheProofs`, `DashboardQueryProofs`, `ShutdownProofs` | | the theorems about the module each is named for, section 6; `MonitorProofs` has those of `SlotScheduler` too, which `Monitor` extends |

How the modules meet. `PingService` implements `PingLedger` (refinement mapping
`recorded <- rows`, `announced <- ` the ids its processes published). `Monitor`
implements `Schedule` (`clock <- now`, `recorded <- rows`). `DashboardQuery` is
`RestCall` with a page around it, so its run checks both. `LiveStream`,
`DashboardCache` and `DashboardQuery` take from the pipeline only what the ledger
and the database leave open. Of one ping, `LiveStream` has the way to the page with
every order of draw, commit, publication and replay; `DashboardCache` the pages of a
list it is merged into; `DashboardQuery` everything that may fetch or mark a query,
with a list as the set of its rows. They are not composed: `LiveStream` alone has
662 thousand states, and the only thing that passes between them is an event or a
reconnect, which both others allow at any time.

Definitions marked "Seeded bug" are mutations of the definition below them:
each is a plausible mistake, and `PROJECT.json` names the property it violates.
No specification uses them.

What stands for code outside the repository, modelled from how the code uses it
and marked so in the modules: Postgres (READ COMMITTED statements, identity
column, ON CONFLICT, jsonb), node-postgres (query timeout, pool end), Node's
timers and http server, EventSource, TanStack Query.

## 3. Properties and the seeded bugs

Besides one type invariant per module (several of which also tie variables
together: the hub holds exactly the open streams, `response` is there exactly
while a body is read), the properties are:

| Property | Module | Says |
|---|---|---|
| `SlotKeys` | PingService | a slot is in `inFlightSlots` exactly while one run of the process works on it |
| `ReprobeOnlyAfterFailure` | PingService | a process probes a slot again only after its earlier run failed |
| `OutcomeTold` | PingService | "recorded" and "already_recorded" are true, events stem from recorded runs, none twice |
| `ProbeBudget` | PingService | probes of a slot are at most one per process plus one per fault |
| `ImplementsLedger` | PingService | refinement of `PingLedger` |
| `EveryRunSettles` | PingService | every call settles, and a slot asked for is recorded unless a fault hits it |
| `ChainAlive`, `KeepsFiring` | SlotScheduler | one chain with one timeout and no overlap, never broken, that keeps firing |
| `SlotsAdvance`, `NextBoundaryArmed` | SlotScheduler | no slot twice and slots go up, whatever the clock is set to, none early while nobody sets it; none skipped unless the clock was set or the run of an earlier life crossed the chain |
| `StopDrains` | SlotScheduler | stop waits for all and leaves no timeout |
| `ImplementsSchedule` | Monitor | refinement of `Schedule`: one ping per slot whoever triggers it, across crashes, none before its time |
| `OwedSlotsAreRecorded` | Monitor | what is owed is recorded (liveness) |
| `NothingLostWhileRegistered`, `ReplayBringsWhatIsAbove`, `RefetchClosesTheGap` | LiveStream | what a registered stream, a replay and a refetch guarantee |
| `OwedIsTold`, `StreamComesBack` | LiveStream | liveness of pings and of the stream |
| `NewestFirst`, `ListIsWhole` | DashboardCache | order, no duplicates; nothing missing and nothing too much at any moment, but for an event yet to arrive, a ping merged above its page or an event missed |
| `OnlyFaultsAreFinal` | DashboardQuery | a call is given up early only if its request is wrong; nothing is sent after a 4xx |
| `NeverBackwards` | DashboardQuery | data on the screen stays through failures and refetches, and never goes back to an older reading |
| `CurrentOrFlagged` | DashboardQuery | an idle panel is up to date or says that it may not be |
| `CatchUp` | DashboardQuery | the stats come right whatever was lost (liveness) |
| `DrainedBeforePoolEnds`, `DrainedRunsAreBroadcast`, `CleanExitIsClean`, `ShutdownFinishes` | Shutdown | the drain, its broadcasts, the exit code, termination |
| `WalkIsStable`, `RecentPingsAreKept` | PingHistory | keyset pagination and retention |
| `RecordedAsItWas` | Probe | the classification of a probe |

## 4. Runs

Passing runs: one for each detailed module, with all its properties. "States"
are distinct states.

| Run | Bounds | States | Shows |
|---|---|---|---|
| `MCPingService` | 2 processes, 3 calls, 1 slot (or none: manual), 1 fault | 281 thousand | idempotency, the refinement, liveness |
| `SlotScheduler` | interval 3, 8 ticks, 2 starts, timeouts up to 1 early, clock set once | 149 thousand | the chain across stop and start and clock steps |
| `Monitor` | interval 2, 3 ticks, 2 starts, 5 calls, 2 of them cron, 1 fault | 356 thousand | one ping per slot from all triggers, through a crash |
| `LiveStream` | 2 pings, 3 requests, 2 faults, failed list attempts among them | 662 thousand | what stream, replay and refetch guarantee, and that they come back |
| `DashboardCache` | 5 pings visible in any order, pages of 2, 2 events under way, losses, replays | 2.4 million | the list under any order of fetches and events |
| `MCShutdown` | 2 connections, 2 runs, 1 sweep, 1 request | 34 thousand | the shutdown, and that it finishes |
| `PingHistory` | 4 pings, 2 ticks, pages of 2 | 1.3 million | pagination, retention |
| `DashboardQuery` | all routes, 3 attempts, 2 keys, 2 pings, 5 disturbances | 2.7 million | errors and retries; what a panel shows, and that stats catch up |
| `Probe` | 4 statuses, 5 bodies | 480 | classification |

Why the bounds are enough. Every hazard of the pipeline is between two calls of
one slot, or two processes; the third call is there for a slot that was given
up, and one fault is what gives it up. (With two slots and two faults the safety
properties of `PingService` were checked under symmetry as well, and section 6
proves them for every number; the run's bounds matter for liveness.) The scheduler repeats itself from boundary to boundary: eight ticks
have two boundaries and a timeout for a third, and the second start is what a run
of the first can outlive; one step of the clock puts it anywhere. `Monitor` has a
catch-up run, a boundary and two cron calls on two slots, and a crash followed by
a second start; a bound of four ticks with one cron call was checked as well. Its
timeouts are never early (`SlotScheduler` has that). In `DashboardQuery` a fetch
that fails for good takes three of the five disturbances; the other two are for
what happens before and after it. Of its two lists one lets through only every
other ping, the other has more than one page, so that there is a "Load older"; with
two such lists it was checked as well. Two pings are enough for every inversion of draw,
commit and publication, two faults for a reconnect that fails or whose replay
or refetch does. Each request of a stream but the first follows a fault, so three requests
are all there are. The replay limit is never reached in the run: to the refetch a
replay cut short is like one that failed (the proofs are for every limit). Five pings on pages of two are three pages, the
first of which grows. In `PingHistory` pages of two out of four rows have a full
page, a last one, and a cursor on a page boundary.

Violation runs. Each checks one sentence of a document or comment that the code
does not keep; the trace is a concrete schedule.

| Run | Property | Sentence | What happens |
|---|---|---|---|
| `LiveStreamReconnect` | `ReconnectMissesNothing` | `use-live-stream.ts:21-22` "after any reconnect we also refetch every ping query as a safety net" | the first request failed before it was answered: `hasOpened` is still false when the next one opens |
| `DashboardCacheFirstLoad` | `ChannelsConverge` | ADR-0005:8 "Both must converge on one consistent view" | a ping arrives during the first load, after the fetch has read the table: `cache.ts:21` has no list to merge it into, the fetch's older answer stands, and nothing reads the list again |
| `ProbePersist` | `CanAlwaysPersist` | `httpbin-client.ts:24-25` "the caller can always persist what happened" | a body with U+0000, which jsonb refuses |

Conditions the passing properties carry because the code, or the way it is used,
needs them. They were found by running the unconditional property:

- `ChainAlive` and `NextBoundaryArmed` count within a life of the
  scheduler that no run of an earlier life has crossed. `container.ts` starts it
  once. After a stop and start while a scheduled run is in flight the new
  life's run may go on beside the old one, whose `finally` then re-arms the
  chain one boundary further.
- `SlotsAdvance` is checked with an interval `setTimeout` can hold (`TimerMax`). An
  interval above 2^31 - 1 ms, which `env.ts:19` does not exclude, fires at once.
  That no slot begins early holds only while nobody sets the clock: a timeout
  counts down and does not follow it. After the clock was set back the
  chain waits for the slot after the last one it armed.
- `OwedSlotsAreRecorded`: a slot that begins is owed if the scheduler has caught up
  with the clock (`CaughtUp`). A timeout late by more than a slot, or a run that
  lasts longer than one, makes the chain go on with the next boundary; the slots
  between stay empty unless the cron asks for them. A fault gives up the slot of
  the run it hits, for the caller that was turned away with `in_flight` as well,
  and a crash everything that was owed (the catch-up run then owes the current
  slot anew).
- `OutcomeTold` relates events to recorded runs, not rows to events: a row whose
  client gave up on the INSERT, or died behind its commit, is never broadcast.
- `ProbeBudget` counts faults: a failed insert releases its slot, so ADR-0004's "at
  most twice" is for two processes without failures.
- `ReplayBringsWhatIsAbove` says nothing of ids below `Last-Event-ID`: a ping
  published late is not replayed, and the refetch brings it.
- `OwedIsTold` starts once the stream has opened on a loaded page: between the
  first fetch and the first registration a ping can fall through. It ends with a page
  that went away, or whose stream is up while the refetch was given up after its
  third failure or cancelled by "Load older" (`Unrepaired`): the next reconnect or
  the user's retry reads the list again, but nothing makes them come.
  `RefetchClosesTheGap` is for a refetch that was applied.
- `NewestFirst`, and of `ListIsWhole` that nothing below the last cursor is shown,
  except a ping merged above its page; that nothing is missing, except a
  missed event; both until a full refetch. The former is the one case in
  which `cache.ts:17-18` ("no duplicates") does not hold: a ping that was late by
  more than a page is put into the first page (`cache.ts:24`), and "Load older"
  brings it a second time.
- `CurrentOrFlagged` leaves out a panel whose stream lost an event and has not
  reopened (the live indicator tells), and four ways in which a query loses a ping,
  each of which was found necessary (`excused`):
  - a live ping or a reconnect during the first load joins the fetch although
    the answer on its way is older (for the list, the `DashboardCacheFirstLoad` run);
  - a live ping merged into a list whose refetch has read the table, or whose "Load
    older" has begun, is overwritten by its answer;
  - a live ping merged into a list that was marked by a reconnect while hidden, or
    whose refetch failed: `setQueryData` clears the mark, so the list passes for
    fresh and is not read again when shown;
  - "Load older" on a list whose refetch is under way or has failed:
    `fetchNextPage` (`PingTable.tsx:154`) cancels the former and its success clears
    mark and notice without reading the first page again. No race is needed: behind
    "Couldn't refresh", a "Load older" that succeeds leaves a list without the ping
    and without the notice.
- `CurrentOrFlagged` for the series needs a window that fits the 5,000 points of
  `ping-repository.ts:177` (`SeriesLimitAssumption`). At 288 pings a day it does;
  at the intervals below about two minutes that `env.ts:19` allows, the seven-day
  chart ends with the oldest 5,000 points.
- `CatchUp` is for the stats only: nothing but they has an interval.

## 5. Fairness

`Spec` has none; the runs with liveness properties use `FairSpec`, which is weak fairness of

- `PingService`: each step of a call and of the database. A probe has a timeout,
  every query has one (`db/client.ts:27-29`), so an await returns or rejects. No
  fairness for calls being made, crashes, restarts or lost statements.
- `SlotScheduler`: time, due timeouts, and jobs that settle (they are made of
  the same awaits). Not of starts, stops or the clock being set.
- `Monitor`: the same, and the start of a process that is up, and its restart
  (the host's supervisor). Not of cron calls or faults.
- `DashboardQuery`: the steps of a fetch (`fetch` settles or is aborted, the retry
  delay ends) and the stats' interval, which TanStack Query's timer runs while the
  page is visible. Not of live pings, reconnects or clicks, "Load older" among them.
- `LiveStream`: handlers that resume, the network that delivers, the browser's
  retries, the hook's timer, the list fetch. Not of pings being made, faults,
  the unmount, "Load older", or a fetch that was given up being asked for again.
- `Shutdown`: each job and the sequence of `stop()`; neither the forced exit nor
  a client's leaving is relied on.

All fair actions are handlers that the event loop, the database or the network
runs without another condition, so weak fairness is enough.

## 6. Proofs

Every safety property of the passing runs is a theorem, for all values of the
constants. The theorems use the assumptions of
the modules (each of which TLC evaluates) and, where said, the one hypothesis
`DelaysHeld`. An inductive invariant is a conjunction of named parts; the lemma
that a step keeps a part has one step per action.

`PingServiceProofs`:

- `TypeCorrect`. Type correctness, one step per action.
- `SlotKeysInvariant`. `SlotKeys` is inductive with the types: every action that
  adds or deletes a key moves exactly one call of that process into or out of the
  active stages.
- `ReprobeOnlyAfterFailureInvariant`. Needs that a slot whose earlier run ended
  well has a row (`StageStatementInvariant` relates each call's stage to its
  statement, `TableInvariant` relates statements to rows), so that `CheckMiss`
  cannot find the slot free.
- `OutcomeToldInvariant`. Same lemmas, with the ids: each row was drawn by one
  call, so an id is published by one call only.
- `ProbeBudgetInvariant`. The calls that probed a slot are those a fault hit and the
  others. `FaultsPaid`: of the former there are no more than faults, because by
  `SlotKeys` a crash takes at most one call of a slot with it. Of the latter, by
  `ReprobeOnlyAfterFailure`, each process has at most one. The number of processes
  is finite (`ProcessAssumption`) or a budget would mean nothing.
- `LedgerImplemented`: `Spec => ImplementsLedger`. `Commit` is a `Record`,
  `InsertReturnsRow` an `Announce`, all else stutters.

`MonitorProofs`, first part: `SlotScheduler`, for every interval, number of starts
and setting of the clock (`Monitor` extends it and shares its names):

- `TypeCorrect`; `StopDrainsInvariant` by `Draining` (what `stop()` waits for is all
  that runs: `inFlight` loses a call only when it has settled).
- `ChainAliveInvariant` and `SlotsGoUpInvariant` by `Chain`: there is one timeout and
  it is the one the fields tell of (`OneTimer`), what a life fired lies before it
  (`SlotsBelow`), and a running scheduler has it or a scheduled run whose `finally`
  will arm it (`OneLink`). An overlapping run of an earlier life does not break the
  chain; that it is the only link is for a life that none has crossed.
- `SlotsAdvanceInvariant` and `NextBoundaryArmedInvariant` by `Punctual`: while nobody
  sets the clock no timeout is due before its slot (`OnTime`), and the slot that is
  armed is at most one interval ahead for each start, because each start leaves one
  chain at most (`ChainPerStart`); `BoundariesFired` adds that none lies between.
  This needs `DelaysHeld`: `(MaxStarts + 2) * Interval <= TimerMax`, so that
  `setTimeout` can hold every delay. With the default of five minutes that allows
  some seven thousand starts in one process, which starts its scheduler once.
  It is a hypothesis and not an assumption because `env.ts:19` does not
  enforce it; section 4 says what happens without it.

`MonitorProofs`, second part: `ScheduleImplemented`, the composition of scheduler and pipeline
implements `Schedule` (under `DelaysHeld`). Its invariant joins the scheduler's
(`Punctually`, which a crash resets), that only slots of the model are asked for
(`InBounds`), and of the pipeline that each call is for a slot that has begun, or is
about to by less than `Early`, and that rows are those of committed statements
(`Recording`). A commit is a `Record`, a tick an `Advance`, a call that asks for a
slot an `Undertake`, a fault at most a `GiveUp`; the rest stutters. `MonitorTypeCorrect` adds that each
call of `fire()` has its run and that no scheduler outlives its process.

`MonitorProofs`, third part, also under `DelaysHeld`:

- `PipelineComposed`: the composition is a behaviour of `PingService`, whose theorems
  therefore hold in it. Each step is one of `Pipe!Next` or a stutter of its
  variables; that a caller asks for a slot of the model is `CalledInTime`.
- `OwedInHandInvariant`: an owed slot has a row, or its key is in `inFlightSlots`, or
  the timeout armed is for it. This is the safety part of `OwedSlotsAreRecorded`: no
  race of scheduler, cron, catch-up, faults and restarts drops a slot. `RunHolds`: a
  key is given back only when its slot has a row or is given up. `BegunIsArmed`, from
  `NextBoundaryArmed`: the slot that just began is the one the timeout is for. That
  needs a scheduler no earlier life crosses, which `Linked` carries through crashes:
  the runs of an earlier life died with their process.

`ProbeProofs`: `TypeCorrect`, `RecordedAsItWasInvariant`, by what each phase says of
what has arrived (`Arrived`), for every status and body.

`LiveStreamProofs`, for every number of pings, requests and faults and every replay
limit. `Attached`: a page that reads a response is registered at the hub, because
`hub.add` comes before the handler's first await. With it
`NothingLostWhileRegistered` is inductive. `Refetching`: the fetch an `onopen` asked
for reads the table after the registration, so it has what was published before it
(`RefetchClosesTheGapInvariant`). `Replaying`: so has the replay if the backlog fits,
since `listAfter` then returns all of it (`ListAfterReturns`; that the ranks of n
ids are 1 to n is `RankOnto`, by counting); `ReplayBringsWhatIsAboveInvariant`.
The safety parts of its two liveness properties follow. `OwedOnItsWayInvariant`: a
ping that is owed is told, on the wire, in the refetch under way, or the next
`onopen` will refetch it, or the page is one of those `OwedIsTold` leaves out (the
last is why: a fetch that gives up or is cancelled while the stream is up takes the
ping with it; while the stream is down it does not). `StreamIsDrivenInvariant`: the
reconnect timer is armed exactly while the source has failed for good, and the
model's bound on requests is never what keeps a stream down, since each request
after the first follows a fault.

`PingHistoryProofs`, for every page size, delay and retention. `CutoffIsPast`: a
sweep's cutoff stays behind now, however long the DELETE takes
(`RecentPingsAreKeptInvariant`). `Walk`: what was shown lies above the cursor and is
all there is above it of the rows that were there throughout; `ListReturns` says
what a page holds, `PageBehind` that it goes behind those before
(`WalkIsStableInvariant`).

`DashboardCacheProofs`, for every page size and number of pings. The inductive invariant
`Sound` says the same three things of the list and of what the fetch has read so
far (`Coming`), since at its end that becomes the list: the rows are in order
(`InOrder`), each was read from the table and stands above the last cursor
(`Drawn`), and nothing above it is left out but what is yet to arrive or, for
`Coming`, came while the fetch was under way (`NothingLeftOut`: that is why `raced`
becomes `stale`). `ListReturns` says what a page holds and where its cursor is,
`PageAdded` that it goes behind the pages before, `InsertPingReturns` that a live
ping above the first page's cursor leaves the pages in order. The sort is given by the
place each entry takes, and that the places of n entries are 1 to n is counted
(`PlaceOnto`), so nothing needs induction over a list. `NewestFirstInvariant` and
`ListIsWholeInvariant` follow; so a ping above its page and a missed event, the two
exceptions of section 4, are all there are.

`DashboardQueryProofs`, for every number of keys, pings and disturbances, all kinds
of panel at once:

- `OnlyFaultsAreFinalInvariant`, of every fetch of every panel: `Blameless` says that a
  call under way has had no 4xx, and that the answer being read is one only if the
  request is at fault (`AnswerBlames`, by the middleware, the routes and the error
  handler).
- `QueryTypeCorrect`; `NeverBackwardsProperty`, an action property, by `Known`: what a
  query holds was recorded, belongs to it and, but for a list, is no newer than the
  last answer read, so the next answer cannot have less.
- `CurrentOrFlaggedInvariant`. `Covered`: each loaded query has all that was delivered
  to it, is marked, or lacks it for a reason (`gap`, `excused`). It is kept by a
  fetch only because of `Underway` (an answer older than an event has its excuse
  before it is applied) and, when that fetch is a "Load older", of `Extending` (it
  began on a list that had all, or has its excuse; so its success, and the notice of
  its failure, which speaks of older pages only, hide nothing else). It gives the
  property only with `Resting` (a panel at rest has data or an error, and one that
  is marked an error) and `Known`. So the four ways that section 4 lists are all
  there are in the model, with the abstractions of section 7.

`ShutdownProofs`: the inductive invariant `SInv` adds to the properties which
stage excludes which kind of work. `Awaited`: behind the await of a scheduler none
of its calls is active, because no timeout of a stopped scheduler fires.
`PoolStage`: the pool follows the stages, and once it has ended no query is out.
`WatchersHeard`: until `hub.stop()` a stream leaves the hub only by closing. From
it `DrainedBeforePoolEndsInvariant`, `CleanExitIsCleanInvariant` and the action
property `DrainedRunsAreBroadcastTheorem`; `TypeCorrect` holds by itself. The kinds
of job are disjoint and no job is named like a connection state.

Only model-checked: all liveness (`EveryRunSettles`, `KeepsFiring`,
`OwedSlotsAreRecorded`, `OwedIsTold`, `StreamComesBack`, `CatchUp`,
`ShutdownFinishes`): fairness and ENABLED are out of the prover's reach. Of four
the safety part is proved, what must hold for the fair steps to be there:
`ChainAlive` for `KeepsFiring`, `OwedInHand` for `OwedSlotsAreRecorded`,
`OwedOnItsWay` for `OwedIsTold`, `StreamIsDriven` for `StreamComesBack`.

## 7. Abstractions to know of

- Time: discrete in `SlotScheduler`, `Monitor` and `PingHistory`, with `Early` and
  `MaxDelay` for the two slacks that matter; absent elsewhere, a timeout is a step
  that may happen. Only `SlotScheduler` sets the clock.
- A ping is its id (and slot, or `requestedAt` and `ok`, where something depends
  on it). Payloads, headers and durations are left out.
- The bus has the one subscriber `container.ts` gives it, and `publish` reaches it
  before the next await, so publish and broadcast are one step.
- `LiveStream` follows one dashboard; the hub treats each alone.
- `DashboardCache` follows one filter; the loop in `applyPingToCache` treats each
  alone. TanStack Query's cancel-on-refetch is modelled where the code relies on it.
- The list of `LiveStream` stays on the screen; what its "Load older" appends is older
  than the pings modelled, and an attempt that fails is followed by another or is
  the last (`RestCall` counts them).
- `DashboardQuery` takes one kind of query at a time; `applyPingToCache` and
  `invalidateQueries` treat each by itself. From TanStack Query it takes: a fetch
  with data behind it restarts when asked for again, one without is joined;
  success and `setQueryData` clear the mark and the error, an error sets both and
  leaves the data; a stale query is fetched when it is shown; leaving it cancels
  its fetch (`queryFn` takes the signal); a hidden one may be collected. `fetchNextPage`
  is a fetch that appends to the pages there were when it began, and cancels the one
  under way. Of a list the pings recorded since the page mounted are modelled, all in
  its first page (`LongLists` says which has more pages, of older rows), so it is
  one answer, the windows of stats and series do not move, a detail has no
  contents but being there, and pings become visible in the order of their ids.
- `Shutdown` has each call once; a probe and a query are `job` stages.

## 8. Not modelled

Payload generator (random data), configuration (read once, validated at start),
logging, migrations (drizzle's, before anything else runs), the mapper and the
remaining schemas (field by field), the aggregates of `stats`, CORS and security
headers, build, deployment and end-to-end test code. Of the
dashboard's components: layout, formatting, the geometry of the chart, keyboard
focus, `ErrorBoundary`, and the highlighting of fresh rows (`use-fresh-ids.ts`), which
reads the list and changes nothing. The movement of the stats window is left out:
a number on the screen ages between two answers, which is what the interval is for.
Heartbeats of the hub change no state. None of these decides anything the
properties speak of.

## 9. Plan

Done: pipeline and ledger, scheduler (with clock steps), schedule and monitor, live
stream, cache, panels and queries over REST calls, shutdown, history, probe; the
safety properties of all of them proved.

Left: the liveness properties beyond their safety parts (section 6), which no
installed prover can reach.

## 10. Running

    tlc -config MCPingService.cfg MCPingService
    tlapm PingServiceProofs.tla

Each configuration is named after its run; `PROJECT.json` maps runs to modules,
and definitions to source lines.
