# Verification of Option-Chain-OS

TLA+ models of the parts of this repository where a mistake costs money or
takes the live market feed down: the automatic trading engine ("algo") with its
order path, the market feed with its login, its recovery and its way to a row,
the configuration that steers the engine, the streams to the browser, and the
backtest runner. TLC checks the models on small instances, TLAPS proves the main
safety properties for every value of the constants.

Source paths below are relative to `src/backend/app/` unless they start with
`src/`.

| file | what it is |
|---|---|
| `OrderOutcome.tla` | the contract of one live order, as a caller may rely on it |
| `Execution.tla` | the order client that implements the contract |
| `Orchestrator.tla` | the life of a trade: passes, entries, exits, admin actions, ledger, restart |
| `UmpEngine.tla` | the Ultra Master Pro engine: entry kinds, trails, exits, entry cycles |
| `ConfigControl.tla` | the versioned configuration with its cache, its editors and the kill switch |
| `MarketSession.tla` | the login policy of the market-data session |
| `FeedRecovery.tla` | who brings the XTS feed back: steward, supervisor, factory, login endpoint |
| `TrueDataRecovery.tla` | who brings the TrueData feed back, from a vendor that admits one session |
| `TdSubscriptions.tla` | the TrueData slot allocator, its three reconciling tasks and the wire |
| `SymbolSwitch.tla` | which symbol the feed streams: controller, drift watch, connect, swap |
| `TickStore.tla` | from a tick to a row and a frame: queue, buckets, flushes, pollers |
| `GapFill.tla` | bringing back missed minutes: the scheduler, the puller, its ledger |
| `TdRelay.tla` | TrueData ticks on their way to a follower |
| `OiStream.tla` | the dashboard's stream to one client |
| `AlgoStream.tla` | the algo page's live strip |
| `BacktestQueue.tla` | the one slot of the backtest runner and the requests for it |
| `BacktestRun.tla` | one backtest run, day by day, with its stops and resumes |
| `*Proofs.tla` | the theorems; section 4 says which module is proved about where |
| `MC*.tla`, `*.cfg` | the instances TLC checks |
| `PROJECT.json` | components, runs, mutants, source map, findings, hazards, theorems |

To repeat a check: `tlc -config MCEdges.cfg MCEdges`; to repeat a proof: `tlapm
ExecutionProofs.tla`.


## 1. Inventory

One FastAPI process (`main.py`) runs everything: HTTP handlers, websocket
hubs, the market feed and the supervised background tasks, as coroutines of one
asyncio loop. There is no parallelism inside the process, except blocking work
sent to threads; every `await` is a place where another coroutine may run.
PostgreSQL/TimescaleDB and two brokers (XTS, TrueData) are outside. A second
actor, the host's sentinel script, restarts the process when it looks dead.

### 1.1 Trading ("algo")

**Trade lifecycle** (`algo/orchestrator.py`, `ZoneOrchestrator`).
State: `position` (one at most), the hunting engines, `paused_reason`, the exit
latch, `_pass_lock`, the Resume checkpoint. Operations: the per-minute pass
`evaluate_minute` (recount the risk, manage the open position, else filter,
hunt and enter), `manual_test_entry`, `manual_square_off`, `kill_square_off`,
`resume_today`, `adopt_open_trade` at boot. It calls the execution module, the
ledger, the config store, the series queries and the alerts.
Hard: each operation awaits the broker and the database many times; five kinds
of caller interleave; the position lives in memory, its record in the ledger
and its lot at the broker, and any one write can fail alone; a restart keeps
only the last two. Correct when: never two lots; no lot nobody knows of; the
ledger shows the managed position; a refused exit is retried and an assumed one
is not; pauses and kill switches hold.

**Trade ledger** (`algo/trade_store.py`). State: table `algo_trades`, one row
per trade with a ledger (paper/live) and, in shadow mode, a paper twin of each
live row. Operations: insert, close, today's closed trades, newest open trade,
paper reset. Hard: an INSERT whose commit succeeds and whose answer is lost.
Correct when: the open rows are what adoption must find.

**Order execution** (`algo/broker/execution.py`) and **XTS interactive client**
(`algo/broker/xts_interactive.py`). State: the client's token and cached
instrument; nothing of an order survives a call. Operations: `execute_entry`,
`execute_exit` over `resolve_option`, `place_market_order`, `await_fill`, all through
`_authed`, which logs in, and re-logs in once per request. Hard: a request may
be lost before or after it took effect; four results (filled, assumed, refused,
unknown) ask for four treatments. Correct when: one order per call, and each
result means what the caller concludes from it.

**Configuration** (`algo/config_store.py`, `algo/config_models.py`,
`api/algo_config.py`). State: versioned document rows, a 30 s cache, the
frontend's draft. Operations: read live, save, restore a version. Hard: cache
filled after an await; `base_version` compared outside the transaction of the
save. Correct when: no save is lost silently, and a saved kill switch reaches
the engine.

**Trading endpoints** (`api/algo_trades.py`): square-off, test entry, Resume,
paper reset, reports. They enter the orchestrator from HTTP handlers.

**Decision engines** (`algo/engines/*`, `algo/combine.py`, `algo/paper.py`,
`algo/fees.py`, `algo/drawdown.py`, `algo/series.py`). Almost pure: price
series in, a direction, candidates or a signal out. Correct when they compute
what the rule book says; the state that matters is the UMP engine's entry and
exit latch and the trend memory of the structure engine.

**Algo authentication** (`algo/auth.py`, `api/algo_auth.py`). State: users,
sessions, failure counters with a lockout. Correct when: locked stays locked,
a changed password ends the sessions, an admin always remains.

**Backtests** (`algo/backtest/*`, `api/algo_backtest.py`). State: run rows
(queued, running, done, error, cancelled) and ONE slot in the process.
Operations: create, cancel, resume, list (which also marks dead runs), and the
hand-over to the next queued run. Hard: each of them reads the slot and acts on
it awaits later. Correct when: one run at a time, no queued run left while the
slot is idle, no live run marked as interrupted.

**Alerts, audit, decisions, summary** (`algo/alerts.py`, `algo/audit.py`,
`algo/decisions.py`, `algo/daily_summary.py`, `core/notify.py`): write-only from the
engine's point of view, but for the audit log, which holds the Resume
checkpoint.

### 1.2 Market data

**Market-data session** (`auth/market_session.py`). State: the token in memory,
the time of the last login, the recent logins, the rotations since the feed was
healthy, a circuit with its last probe, the table `auth_sessions`. Operations:
`login`, `try_restore_session_from_db` at boot, `mark_feed_healthy`,
`park_rotations`. The broker keeps one session per key, so each login kills the
one before. Hard: many independent callers want a login at the same time (steward,
watchdog, startup, dashboard), a restart loses the memory, and a mint is counted
only after an INSERT. Correct when: no automatic login kills a young session,
the budget binds all callers together, a storm is parked.

**Session steward** (`ingest/session_steward.py`) and **feed factory**
(`ingest/feed_factory.py`, `runtime.py`). State: the escalation step, the pending
verification, `rt.feed_client`. Operations: one check per cycle (warn,
resubscribe, reconnect, rotate and verify, park or leave the process), rebuild
and ensure ingestion. Hard: `rt.feed_client` is `None` across awaits;
the baseline of a verification is taken after the login. Correct when: one feed at
a time, a rotation is counted good only on rows of its own session.

**Tick aggregator** (`ingest/aggregator.py`). State: open one-minute buckets, a
backlog of buckets that must be flushed. Operations: add a tick, flush closed
buckets, flush at shutdown. Hard: late ticks, failing flushes, a bounded
backlog. Correct when: each bucket is written with the values of all its ticks.

**Streaming and polling clients** (`ingest/ws_client.py`,
`ingest/td_failover_poller.py`, `ingest/universe_poller.py`). State: the socket,
its supervisor, the subscription groups; a poller's gate. Operations: connect,
subscribe, heartbeat, swap; one sweep per cycle while the socket is dead. Hard: a
gateway that cycles the socket every 67 s and may stay open without sending.
Correct when: a dead or mute socket is noticed and a live tick is not displaced by
a poller's later.

**Gap fill** (`ingest/gapfill.py`, `src/scripts/truedata_backfill.py`,
`services/data_health.py`). State: the ledger of pulled units, the day index, the
deferred run. Operations: the boot's run, the in-session catch-up, the post-close
run, the puller as a child process. Hard: the minute that is still forming, a
puller that dies between its write and its mark, a ledger that calls a day done
before it is. Correct when: a day called done is whole, and past days are whole in
the end.

**TrueData session, feed and relay** (`auth/td_session.py`,
`ingest/truedata_feed.py`, `ws/td_relay.py`). One login per user, with a
cool-down: the opposite of XTS, where a new login always wins. Correct when: at most one
holder, and a cool-down is waited for.

**Subscriptions** (`ingest/symbol_controller.py`, `ingest/subscription_budget.py`,
`ingest/atm_drift_watch.py`, `ingest/market_session_watch.py`). Slots shared by
three classes of instruments. Correct when: the budget is never exceeded and the
pinned instruments keep their slots.

**Lifespan** (`main.py`, `core/tasks.py`). Boot order, supervised tasks,
shutdown. The boot restores the session before anything logs in, and adopts the
open trade before the first pass.

### 1.3 The rest

Dashboard hub (`ws/hub.py`), algo stream hub (`ws/algo_hub.py`), OI, chain and
IV services (`services/`), replay and health, instrument master (`market/`),
read-only REST handlers, core utilities, the React frontend (`src/frontend`),
deployment scripts (`src/docker`, `src/scripts`). The hubs have bounded queues with
drop-oldest; the others query, format and render.

`PROJECT.json` lists every component with its status, and 40 hazards at the
lines where they bite, each with the properties that cover it, or the reason
why none does.


## 2. How the modules fit together

```
  trading                          market data                      edges
  OrderOutcome <--impl-- Execution MarketSession  TrueDataRecovery  TdRelay
       ^                           FeedRecovery   TdSubscriptions   OiStream
       | INSTANCE                  SymbolSwitch                     AlgoStream
  Orchestrator   UmpEngine         TickStore  GapFill
  ConfigControl                                   BacktestQueue  BacktestRun
```

The orchestrator never sees the gateway: it sees four results. `OrderOutcome`
states what these results promise. `Execution` models the client in detail and
is shown to implement the contract (by TLC and by proof); `Orchestrator` then
uses the contract in place of the client, so that its properties are about
orders that can fill late, be assumed, or be lost, without the polling.

The other modules meet in the same way, at what one promises and another relies on.
`FeedRecovery` sees the session as a login that mints, reuses, fails or is
parked; how it decides that is `MarketSession`. `GapFill` sees a feed that stops
and comes back. `OiStream` sees a flush that reaches the hub, the newest first,
which is `NewestIsPublished` of `TickStore`. `ConfigControl` has the exit of a kill
switch and the minute pass in a few steps; their insides are `Orchestrator`.

### 2.1 OrderOutcome

One call at a time (`phase`), its order's `fate` (`open`, `executed`, `void`),
the broker's `holding` in lots, and `late`, the orders of earlier calls that are
still open. `Begin` and `Return` are the call; `Execute`, `Void`, `ExecuteLate`,
`VoidLate` are the broker, at any time; `Abandon` is the death of the
process. `Return` holds the contract: *filled* implies executed; a *refused*
BUY never executes; *unknown* exists for a BUY only; a *refused* SELL and an
*assumed* order promise nothing.

### 2.2 Execution

`execute_entry` and `execute_exit` as one call with a program counter and a
current request (`order`, `book`, `status`):

| action | code |
|---|---|
| `Resolve` | `resolve_option`, and the early returns before anything is sent |
| `NeedsLogin`, `Login`, `TokenRejected` | `_authed`: login without a token, one re-login on a token error |
| `PlaceOrder` | `place_market_order`: answer with id, without id, or lost |
| `LookUpOrder` | the recovery by the order's unique tag in the order book |
| `PollStatus` | `await_fill`: one status read, up to `_ORDER_POLL_ATTEMPTS` |
| `RequestLost`, `RequestRefused` | `XtsTransportError`, `XtsInteractiveError` out of any request |
| `Crash` | the process restarts: call and token are gone, the order is not |

`OnError` and `OnTransport` are the `except` clauses of the two functions. The
broker (external) fills or rejects at any time, kills tokens at any time, and
rejects a sell of what is not held, which the comment in `execute_exit` relies
on. A rejected token is assumed not to have executed the request.

Left out: prices, quantities, the instrument cache, wording of errors.

### 2.3 Orchestrator

`pc` is where the holder of `_pass_lock` stands, `run` its local variables (the
config it read, whether a risk limit blocks). An operation is split at the
awaits where something else may happen:

| actions | code |
|---|---|
| `StartPass`, `CountRisk`, `NoEntry`, `Enter` | `evaluate_minute`, `_risk_counters`, `_risk_gate`, `_feed_hunt` |
| `BuyReturns`, `InsertTrade`, `InsertTwin` | the four results of an entry; `insert_trade`; the shadow twin |
| `ManageMinute`, `MinuteUnread` | `_manage_position` up to the order: latch, timed exits, kill backstop |
| `SellReturns`, `ReadBalance`, `CloseTrade`, `CloseTwin` | the rest of `_manage_position` |
| `TestEntry`, `SquareOff`, `KillSquareOff`, `Resume` | the admin's operations, all under the lock |
| `SaveConfig`, `PaperReset` | what happens WITHOUT the lock |
| `Restart`, `Boot`, `AdoptRead`, `AdoptBind` | the process dies; `adopt_open_trade` |
| `HumanSells` | external: what the critical page asks the operator to do |
| `BrokerActs` | external: `OrderOutcome`'s broker |

What the filters, zones, hunts and sizing decide is one choice: a pass that may
enter either enters or not. Rupee limits are the choice `blocked`. Rows keep their ledger,
whether they are a twin, and win or loss: what adoption and the loss streak read.

Three variables are history, read by properties only (and by the guards that say what a
human does): `unknown`, `streak`, and `ledgerPaged`, set when the engine pages
a human to patch the ledger by hand; what the human then writes is outside the
model, so the properties excuse what happens afterwards.

`Faults` names what can go wrong besides the broker. The runs and theorems about
safety allow failing statements (`db`) and restarts between operations (`restart`).
Every other fault is a behaviour of the code under which at least one property
does not hold, and is kept as a switch so that the assumption is visible:

| fault | what it lets happen | what stops holding |
|---|---|---|
| `balance` | the balance read after an exit fails | `NoSecondSell` (3.3) |
| `forget` | a restart while an UNKNOWN order pauses the engine | `UnknownStopsEngine` (3.3) |
| `midcrash` | the process dies inside an operation | `NoOrphan`, `OneExposure`: between the fill and `insert_trade` nothing records the lot |
| `adoption` | the query of `adopt_open_trade` fails | `OneExposure`: it is tried once, then the engine starts flat |
| `bootrace` | a test entry during adoption | `LedgerMatches`: `AdoptBind` overwrites the position |
| `unfilled` | an order assumed filled is rejected, or takes minutes | `NoOrphan` |
| `operator` | Resume or a test entry without checking the broker | the properties about exposure |
| `reset` | a paper reset that races, or follows a Resume | `LedgerMatches` |

### 2.4 MarketSession

`login()` holds `_login_lock` from the checks to the INSERT, and is split at its
two awaits:

| action | code |
|---|---|
| `SeedFloor`, `RestoreSession` | `_seed_floor_from_db_once`, `try_restore_session_from_db` |
| `Attempt`, `AttemptManual` | the floor, the circuit with its probe, the budget; a manual call skips them |
| `Mint`, `MintFails` | the request to the broker |
| `Persist`, `PersistFails` | `_persist`, then the counting that follows it |
| `MarkFeedHealthy`, `ParkRotations` | the steward's two calls, at any time |
| `Restart`, `SecondClient`, `Tick` | the process dies; another client with our key (external); time |

A session is its index in `mints`, the history of everything the broker minted
for us. `token`, `lastLogin`, `logins`, `rotations`, `circuit` and `probe` are the
memory of the process, `rows` is what `auth_sessions` holds. Calls that the floor or the
circuit turns away change nothing and have no action. Properties are stated over `mints`,
not over the code's own counters: what the broker saw is what counts.

One clock stands for the monotonic and the wall clock of the process. The `broker_rejected` flag does not gate
`login` and is left out.

### 2.5 BacktestQueue

`status` is the table `algo_backtest_runs`. `tasks` and `job` are `_jobs` of the
runner: an entry stays when its task has ended (`Ended`), which `cancel_run`
and `delete_run` see. `client` holds the requests under way, each with what it saw
before its last await. `died` is history: the runs whose task the process died with.

| actions | code |
|---|---|
| `Create`, `Insert`, `Start` | `create_run`: the look at the slot, the INSERT, the audit entry and `start_run` |
| `Cancel`, `CancelJob`, `FlipCancelled` | `cancel_run`: the row, the job, the row of a run without one |
| `Resume`, `ResumeFree`, `Requeue`, `Start` | `resume_run` |
| `Delete`, `DeleteFree`, `Drop` | `delete_run` |
| `List`, `FindOrphans`, `MarkOrphan` | `list_runs` with `fail_orphaned_runs`, one mark per row |
| `Begin`, `EndRun` | `_run_inner`: the row says running; the days end, fail, or see a cancel |
| `FindNext`, `HandOver` | `_start_next_queued` in the `finally` of `_run` |
| `Restart` | the process is killed, or cancels its tasks and then stops |

A task ends in the step that starts the next one, so two places for tasks
(`Tasks`) hold every state, and `SingleFlight` says that the second is not needed.
A 409 that depends on the row or the slot alone changes nothing and has no action, unless
the request has awaited since. What the days compute, the checkpoint from
which a resume continues and failing statements inside the runner are left out.

### 2.6 FeedRecovery

Time counts the steward's check intervals, and `age` is how long no rows of a
socket came. `pc` is where the steward stands, `st` what it remembers of the episode, `rot`
the rotation under way; `feed` holds every client object there is, `rt` says which
of them is published as `runtime.feed_client`.

| actions | code |
|---|---|
| `Tick`, `Woken`, `Check`, `Judged`, `Escalate` | `SessionSteward.run`: verdict, request, warm-up, the next rung, the exit |
| `Universe`, `Rotated`, `LoginMints`, `LoginReuses`, `LoginFails`, `LoginRefused`, `Parked` | `_escalate` and `_rotate`; what `login()` may answer |
| `Verified`, `VerifyOk`, `VerifyExtends`, `VerifyEnds` | `_verify_rotation`, with the rows of the new session |
| `Connect`, `Handshake`, `Subscribe`, `Delivers`, `Drops` and their failures | the supervisor of a client (`ws_client.py`) |
| `Rebuild`, `Start`, `StartFeed` | `rebuild_feed_client`, `start_feed` (`feed_factory.py`) |
| `ForceLogin`, `Bootstrap`, `BootstrapStart` | the login endpoint (`api/auth.py`), which may start a client of its own |
| `Steal`, `GatewayCycle`, `Ages`, `Outage`, `SupervisorDies`, `PhaseStep` | external |

`tried` is history: what this episode has replaced or rotated before it may end in an exit.

### 2.7 TickStore

One contract. A tick is its origin, its second and whether it carries a price.

| actions | code |
|---|---|
| `Emit`, `SweepStarts`, `SweepAnswers`, `SweepFails`, `SegmentSweep` | socket frames and the two pollers into the runtime's queue |
| `Turn` | `MinuteAggregator._run`: one tick absorbed, or the flush due |
| `Flush` | `_flush_closed`: the upsert, and what is popped when it went through |
| `Stop`, `Drain`, `FinalFlush` | shutdown |
| `Take`, `Publish` | `_publish_worker`: one flush at a time, the newest waiting |

`heard` is history: the newest socket tick that was absorbed for a bucket, forgotten
when the cap on open buckets drops it.

### 2.8 TrueDataRecovery

`vendor` is who holds the one seat: `ours`, a `leak` (a socket of ours nothing refers
to), `locked` or `free`. There is no clock: an interval is over when its action is taken.

| actions | code |
|---|---|
| `Dial`, `Opens`, `Accepted`, `Refused`, `LoginTimesOut`, `Subscribes`, `GoesSilent`, `ReaderEnds`, `Teardown` | the supervisor of the client (`truedata_feed.py`) |
| `MarkConnecting`, `MarkLive`, `MarkRejected`, `MarkDisconnected`, `CooldownEnds`, `Cools` | `TrueDataSession` (`td_session.py`) |
| `Tick`, `Escalate`, `LogoutAnswers`, `Rebuilds` | the steward: verdict, nudge, logout, rebuild, exit |
| `Crash`, `Deploy`, `BootCut`, `Boot` | the ways a process ends, and the logout and cool-down of the boot (`main.py`) |
| `Probe`, `LineFails`, `LineBack`, `VendorForgets`, `MarketOpens` | the proxy's probe; external |

### 2.9 TdSubscriptions

A slot is a chain's reference or a contract; `desired` is the plan, `live` what
the budget believes subscribed, `subs` what the vendor has, `wire` and `acks` what is on
its way.

| actions | code |
|---|---|
| `Plans`, `Innermost`, `Wish` | `SubscriptionBudget.plan`, `_allocate`, `_slots_for` |
| `Provided`, `Switches`, `Watches`, `Refresh` | replay after a login, the symbol switch, `_pinned_watch` |
| `Reconcile`, `SendsAdditions` | `_reconcile_locked`, split at the sending of its removals |
| `Connects`, `Drops`, `Teardown`, `Parse` | login with its ceiling, teardown, `_on_symbollist` |
| `Serve`, `SpotMoves` | external: the vendor with its limit, the market |

### 2.10 SymbolSwitch

A price, a universe and an instrument are the symbol they belong to. `rt` is the
runtime, `feed` the client, `prov` the locals of its connect, `body` the switch that
holds `_switch_lock`, `wait` who is inside `switch_active_symbol`.

| actions | code |
|---|---|
| `Ask`, `WatchDecides`, `Acquire`, `SpotAnswers`, `UniverseAnswers` | the endpoint, the drift watch, `_switch_active_symbol_locked` |
| `Unsubscribed`, `Subscribed` | `swap_subscription` |
| `Connect`, `InitialSpot`, `Resolved`, `EmptyUniverse`, `Handshake`, `Subscribe`, `Drop` | `_connect_once` with its provider |
| `Stop`, `Build` | `rebuild_feed_client`, which holds no lock |
| `IndexTick`, `Refresh` | `_handle_touchline`, the spot refresher |

### 2.11 GapFill

One symbol with one chain. A minute has a row in the live table or not and a bar in the
archive or not; a unit of the ledger is a day or the chain.

| actions | code |
|---|---|
| `Starts`, `Boot`, `Wake` | `run_gapfill_loop`: what is due |
| `Scan`, `Promote` | `session_catchup` and the promotion of restored minutes |
| `HistoryScan`, `Reset`, `HistoryEnds` | `run_gapfill_once`: missing days, the ledger re-opened, the puller started |
| `Fetch`, `Write`, `Mark`, `PullerDies` | the child process: a window, its rows, its mark |
| `HealthRefresh` | the day index both are judged by |
| `TimePasses`, `FeedFails`, `FeedRecovers`, `Crash` | external |

### 2.12 ConfigControl

A document is four switches. `db` holds the versions, `cache` the cached one and its age,
`pc` where each request and the minute pass stand and what they have read. A cache hit
does not suspend; every other await is a step. The actions are the handlers' stages:
`Save`, `Restore`, `Enforce`, `Check`, `Refused`, `Previous`, `Insert`, `Ack`, `Exit` of a
save; `Reset`, `Delete`, `Stamp` of a paper reset; `TestEntry`, `Test`, `Order`, `Fill`,
`Row` of a test entry; `Minute`, `Pass` of the engine, which may close a position and go on
to an entry in the same minute, as in the code; `Ask` and `Filled` of `get_live`.

### 2.13 TdRelay, OiStream, AlgoStream

`TdRelay` has the owner's tee and bounded queue (`Vendor`, `Sends`, `Pings`) and the
follower's supervisor and watchdog (`Opens`, `Receives`, `Watches`, `Closes`, `Wakes`,
`Nudge`); the line may refuse, close, or fall mute.

`OiStream` has one pass of the hub over its subscribers (`Publish`, `HubGoesOn`), the
route's first snapshot and its answers to `set:` (`RouteGoesOn`, `Set`), and the sender.
A call takes its arguments at once and its rows when it has the engine's lock; that
gap is what the property is about.

`AlgoStream` has the producer's loop, the route, and the refresh of the readings in a
task of its own (`Claims`, `Lands`), around the cache of each scope. What a frame shows is
told by the configuration it stems from.

### 2.14 UmpEngine

One variable, the engine. `MinuteComes` is `process_minute`: the deferred close of a candle
whose last minute never came (`Deferred`), the bar joining the candle (`Joined`) and the
tick, whose stages are `Triggered`, `TestEntered`, `RetestEntered` and `Managed` (peak,
trail, System B, exit by priority). `StartEntryCycle` and `LockCandle` are what the
orchestrator calls. Zones are integers, with `Half` and `Stop` in points instead
of percent.

### 2.15 BacktestRun

What lasts is in the tables (`status`, `days`, `trades`); `task` is what dies with the
process. `Plan`, `Seed`, `NextDay`, `Minutes`, `Insert`, `Book`, `Mark`, `Finish` are
`_run_inner`, one action per transaction; `Stop` and `Cancel` come between any two, and
`Backfill` fills in data while the run is stopped. What the market can do in a day
is a script. The in-memory ledger is a list in the order of `seq`; here it is the set of its
trades, each with its `seq`, and the balance is a sum over that set.


## 3. What TLC checks

Each run asks about one part of the system, or about two or three parts that do not
interact: then a variable that never changes (`edge`, `view`, `side`) says which of
them a behaviour is about, and the others stay where they start, *parked* at a place
from which none of their fair actions is enabled when their fairness is asked for too.
A property of a passing run has a mutant in
`PROJECT.json`: a change of a mapped definition, such as a bug would make, under
which the same run finds the property violated. The mutated forms are operators
that precede the definition they change, and nothing else uses them.

### 3.1 Passing runs

**`edges`** (`MCEdges`): `Execution`, `TdRelay`, `OiStream`, `AlgoStream`.
- `RefusedBuyIsFlat`: a refused BUY did not and will not execute. The engine buys again
  on the strength of it.
- `OneOrderPerCall`: no re-login, recovery or lost answer makes a call send two orders.
- `MeetsContract`: the client implements `OrderOutcome`. The mapping is in
  `Contract`: an order not yet sent counts as *open*, and as *void* once the
  call ended without sending it.
- `CallReturns`: a call ends, however often the broker kills the token.
- `NewestSurvives`: ticks reach the follower in order, and a full queue never drops the
  newest one.
- `FollowerReturns`: the follower comes back on its own from every fault its watchdog can
  see. It cannot see a socket that was not connected when it fell silent
  (`stranded`); that exception is in the property.
- `PanelSettles`: both panels of a dashboard end up with what was asked last, from the
  newest bucket and the spot of their own symbol.
- `StripSettles`: the strip ends up with the scope asked for last, its strike, readings
  and rule all of the live configuration.

**`orchestrator`** (`MCOrchestrator`; views *restarts*, *twins*, *engine*). Failing
statements with restarts, or with the shadow twin; and the UMP engine in one zone.
- `OneExposure`: the lots held and the lots open BUYs may still add are never more than one.
- `NoOrphan`: between operations each lot is managed, being sold by an order that
  is about to fill, paged as UNKNOWN, or paged as a ledger failure.
- `LedgerMatches`: between operations the open rows, twins aside, are exactly the
  managed position, so that a restart adopts the right thing.
- `NoSecondSell`: no SELL follows a SELL reported executed or assumed so.
- `UnknownStopsEngine`: after an UNKNOWN BUY no entry until a human resumed.
- `LossStreakStopsEngine`: after the allowed losses in a row no entry on that ledger,
  counted by the history variable `streak`, not by the code's own recount.
- `ExitEndsCandle`: the candle in which a trade ended takes no other one, whoever ended it.
- `TrailIsHonest`: the trail is a rung that a price after the entry earned, and once a
  price after the raise is at or under it the trade is over.
- `NoCloseIsLost`: a candle that closed below base ends a trade that had not climbed above
  base, also when its last minute never came.

**`orchestrator_live`** (`MCOrchestratorLive`; shadow mode off and on). No faults.
- `ExitGoesThrough`: a latched exit is retried until the lot is gone, with the kill switch on
  and off, and with the twin that shadow mode opens and closes beside a live trade.

**`market_session`** (`MCMarketSession`; views *stolen*, *lossy*, *unread*, *ticks*).
- `FloorHolds`: no automatic login kills a usable session younger than the
  floor, whichever process minted it.
- `BurstHolds`: before an automatic login the process has minted fewer than
  `BurstMax` sessions in the window.
- `StormIsParked`: once more than `StormLimit` sessions were minted without
  a healthy feed, automatic logins are asked for at least a probe interval apart.
- `NothingLost`: a socket's tick that was absorbed is in its open bucket or in its row, or
  a later one is, however many flushes fail, unless the cap dropped it.
- `NewestIsPublished`: coalescing flushes never drops the newest.

**`backtest_queue`** (`MCBacktestQueue`; views *queue*, *run*). Two requests at once, of any
kind and any number in turn, two rows, restarts; and one run, day by day.
- `SingleFlight`: two runner tasks are never alive at once, although each request
  looked at the slot awaits before it starts a run.
- `RunningHasTask`: a row says *running* only while a task works on it or when the
  process died with that task; `list_runs` and `cancel_run` conclude that from it.
- `QueueMoves`: a run queued behind one that is working leaves the queue, whatever
  else is created, cancelled, resumed or deleted, unless the process dies. A restart
  leaves queued rows as they are and nothing starts them: the excuse `died` is
  needed.
- `ResumedIsUninterrupted`: a backtest run that is stopped and cancelled between any two
  transactions, and resumed, ends with the trades and the equity of one that never
  stopped. What that is, `Unstopped` computes day by day.

**`feed_recovery`** (`MCFeedRecovery`). Any two faults at any point of a pre-open, a
session and the next days.
- `ExitAfterLadder`: the process is left only after the episode has tried a rotation,
  or has replaced a dead supervisor.
- `DeadFeedEndsInExit`: in the session, rows that stay away end in an exit, unless the
  circuit stays open.
- `Recovers`: once the faults are over the published feed delivers for good, unless a
  bootstrap that came upon a rebuild has left a second client.

**`config_control`** (`MCConfigControl`). Two requests of an admin and an editor against
the minute pass, at every await.
- `StaleAtMostTTL`: `get_live` never serves a document replaced by a save that returned
  longer ago than the TTL.
- `KilledEndsFlat`: a kill switch that stays on ends flat, even if its own exit found no
  position yet, read a stale document, or failed.

**`true_data`** (`MCTrueData`; sides *recovery*, *subscriptions*).
- `ConnectedClearsWedge`: a feed the vendor has admitted never looks wedged to the steward.
- `Recovers`: once the proxy stays up, the feed streams again and again.
- `SqueezeIsFair`: no contract of a trading chain is shed for one of a viewed chain,
  and no wing for the other.
- `PlanIsCarried`: whenever every task is idle and the wire is empty, the socket carries
  the whole plan.

**`market_data`** (`MCMarketData`; sides *gap*, *switch*).
- `DoneIsWhole`: a session the ledger calls done is whole in the archive, no minute of it
  cut while it formed.
- `PastIsRestored`: however feed, puller, index and process fail, past sessions are
  usable in the end.
- `CleanSwitchAgrees`: after a switch that met no connect, rebuild or failed lookup, and
  over all reconnects until the next one, chain, index, published spot and tokens are
  those of the active symbol.
- `ChainFollows`: whatever met whatever, once the dashboard asks no more the chain
  becomes the active symbol's.

### 3.2 Runs that show a disagreement

Each checks one statement that a comment or a docstring makes, and
TLC finds the code's own steps violating it.

1. **`execution_status_errors`**. With `StatusErrors = TRUE` the gateway may
   answer a status read with an error. `execute_entry` (`algo/broker/execution.py:211`)
   takes every `XtsInteractiveError` for "Terminal Rejected/Cancelled —
   definitively NOT filled", so an order that was placed, and may be filled, is
   reported as refused: the next minute may buy again.
2. **`ump_fresh_cycle`**. `process_minute` fires the deferred close of the candle before
   a signal after `start_entry_cycle` has cleared the latches
   (`algo/engines/ump/engine.py:621`), so a candle that ended before the signal arms a trigger of
   the new cycle, against "nothing that happened before the signal can influence this
   cycle's entry" (`329-330`).
3. **`backtest_double_write`**. On resume only the first pending day's outputs are dropped
   before the ledger is filled (`algo/backtest/runner.py:243`). If an earlier day has become
   whole in the meantime, the interrupted day's trades are stored twice, against "a crashed
   backtest must never restart itself and double-write rows" (`104-105`).

### 3.3 Disagreements without a run

These statements of the code, or properties under a fault that the runs leave out, do not
hold either. Each is a definition, or a value of a constant, to try:

| what does not hold | where | how to see it |
|---|---|---|
| `QueuedIsServed`: "the runner auto-starts it when the slot frees" | `api/algo_backtest.py:346` | `MCBacktestQueue`: `create_run` finds the slot busy and inserts its row after the hand-over looked |
| `ExitWhenExhausted`: the exit comes when recovery is exhausted | `ingest/session_steward.py:536` | `MCFeedRecovery`: rows come between the verdict and the exit |
| the exit is preceded by a *rotation*, not only by a replaced supervisor | `session_steward.py:520` | `Faults = {"death"}`, `MaxFaults = 4` |
| `SwitchStands`: the drift watch moves nobody to another symbol | `ingest/symbol_controller.py:197` | `MCMarketData`, side *switch* |
| `PollerNeverDisplaces`, `StopPersists` | `ingest/aggregator.py:185`, `150` | `MCMarketSession`, view *ticks* |
| `WedgeRungOnSignature`: the wedge rung fires only on its signature | `ingest/truedata_steward.py:26` | `MCTrueData` |
| `LimitNeverReached`: the budget never asks for more than the vendor admits | `ingest/truedata_feed.py:555` | `MCTrueData` with a small `Margin` |
| `HistoryOnce`: the historical pull runs once after the close | `ingest/gapfill.py`, `run_gapfill_loop` | `MCMarketData`, side *gap* |
| `DraftReplacesItsBase`: a draft replaces the version it was made from | `api/algo_config.py:179` | `MCConfigControl` |
| `UnknownStopsEngine` over a restart | `algo/orchestrator.py:1235` | `Faults` with `"forget"` |
| `NoSecondSell` if the balance read after an exit fails | `orchestrator.py:1564` | `Faults` with `"balance"` |
| `LedgerMatches` with a shadow twin and a restart | `orchestrator.py:1333` | `Shadow = TRUE` with `"restart"` |
| `BurstHolds` if INSERTs go on failing | `auth/market_session.py:268` | view *lossy* with more mints |
| `ResumedIsUninterrupted` with a loss pause carried over the night | `algo/backtest/runner.py:244` | `MCBacktestQueue` with `CarryPauses = {TRUE}` |
| the same with a day without a frame before the day that was cut: only the first pending day is cleared before the ledger is filled | `algo/backtest/runner.py:243` | `MCBacktestQueue` with `ThinDays = {1}` |

### 3.4 Bounds, and why they are enough

- `MaxOpen = 1`: orders of earlier calls that are still open. With one, a late execution
  meets the next call; the second lot that `OneExposure` forbids can be reached, since one
  lot more than `MaxOpen` may be held.
- `MaxRows` (2; 1 for liveness without shadow mode): the trade at hand and the
  one before it, or its twin. Passes, refusals, restarts and admin actions are not bounded. When
  the rows are used up no further entry happens: those states are still checked.
- `PollAttempts = 2`: the last poll, after which a fill is assumed, and one before it.
- `MaxTime` (5, 4 ticks), `MaxMints` (3, 2, 1), `MaxDelay` (1): the clock, the sessions,
  and the time a request may take before its timeout. Three mints and five ticks hold a
  storm, its first probe and the next, or a session, a restart and the login that would
  kill it too early. The intervals are scaled to 1 to 4 ticks and differ from each
  other by their use: the floor is not above the window, the boot window covers both.
  `StormLimit = 0` and `BootRows = 2` reach the circuit within three mints.
- *ticks*: two buckets of two seconds and the start of a third, room for two open buckets
  and two queued ticks: the queue and the cap both overflow, and one flush fails.
- `FeedRecovery` and `TrueDataRecovery`: two faults, so that the second strikes a recovery from
  the first. The times keep the order of the code's; what is two (`Stale`, `Gap`, the
  wedge's rejections) separates the first, the second and "again".
- `TdSubscriptions`: two trading chains and a viewed one, three strikes each, one switch
  or move and one lost connection; the ceiling cuts into a chain.
- `GapFill`: two sessions of two minutes, one minute after the close, one fault: a missing
  minute inside, at the end, and a whole day; today and a past day.
- `SymbolSwitch`: one switch of the dashboard, the watch's own switches, one fault; the gateway cycles without end.
- `ConfigControl`: two switches thrown, three versions, two requests at once, one
  failed exit, a TTL of one tick.
- Streams: two symbols or scopes, a queue of two or one, one save or switch, one `set:`; the
  relay two queued ticks of four, two faults.
- `UmpEngine`: one zone of sixteen points and five prices, one in each part of it, one below and
  one above; a candle of two minutes; candles have a wick on one side. Behaviours are not bounded.
- `Clients = {c1, c2}`, `MaxRuns = 2`: a request can be overtaken by another one and by the
  task; one row holds the slot and one waits for it. A row may be resumed any number of
  times, so the slot changes hands without end.
- `BacktestRun`: three days and two stops: the day that was cut, the one before it and the
  one after; four kinds of days let a trade ride one night or two and end in every way.

The theorems of section 4 hold for all values of these constants.

### 3.5 Fairness, and why the code justifies it

Safety properties need none. The liveness properties assume:

- `Execution`, `WF(CallStep)`: every request carries a timeout
  (`xts_interactive.py`), so a call always takes its next step. Nothing is
  assumed of the broker.
- `Orchestrator`: `Progress`, `WF(InOperation)`: every await under the lock is bounded by a
  timeout of the HTTP client or of the pool. `Turns`, `SF` of `StartPass` and
  `KillSquareOff`: `asyncio.Lock` wakes its
  waiters in order, so neither the loop nor a waiting square-off is overtaken for ever.
  `Prices`, `SF` of a managed minute that has a price while the kill is on, is an
  assumption about the market; `BrokerServes`, about the broker: no order stays open for ever,
  and of sells sent again and again one executes. Without it no retry can succeed.
- `BacktestQueue`, `WF(TaskStep)`: a run replays finitely many days and the
  event loop runs every task. Nothing is assumed of the requests.
- `FeedRecovery`: every task is scheduled and time passes (`WF` of its steps, `SF(Tick)`).
  `SF(LoginMints)`: a login that is made again and again, past floor and circuit,
  mints at last; this is the broker's part. `WF(Drops)`: a mute socket is noticed by the
  heartbeat.
- `TrueDataRecovery`: `WF` of every step of the supervisor, the steward and the boot, of the
  intervals and of the open of the market. Four `SF`: an attempt, or the first rows of a
  connection, takes a second or two of the fifteen between two ticks of the steward and the
  ninety between two rungs, so not every logout of the ladder meets an attempt and not every
  connection is nudged before its first rows.
- `SymbolSwitch`: `WF` of the feed and of the switch, whose calls have timeouts; `SF(Drop)`:
  the gateway cycles the socket every 67 s (`ws_client.py:595`).
- `GapFill`: the process is restarted, its loop goes on and time passes. Nothing is assumed
  of the feed.
- `ConfigControl`: every handler goes on (`WF`), the lock is fair (`SF(Minute)`), time passes.
- `TdRelay`, `OiStream`, `AlgoStream`: tasks that can go on do; the feed goes on flushing;
  minutes and refresh intervals pass (`SF` of a pick and of a claim, which a
  configuration saved in between can only disable for a while).


## 4. What is proved

The proofs hold for every value of the constants that satisfies the named `ASSUME`s of the
modules. Assumptions a theorem adds are in its statement. A module about two components
names the second one by its instance (`Ump!Spec`, `Relay!Spec`, `Ticks!Spec`, `Switch!Spec`, `Subs!Spec`,
`Run!Spec`); the constants of the instance are constants of the module too.

In each case none of the properties is inductive. The text below says what the
invariant adds and why.

**Execution** (`ExecutionProofs`). `CallInv` is inductive: the types; a
call under way has a poll left; and until its placement request is over nothing of
this call is at the broker. From it: `ExecutionTypeCorrect` and `OneOrder`, without
further assumptions. With `StatusErrors = FALSE`, which the run
`execution_status_errors` shows to be necessary:
`RefusedBuyFlat`, and `ImplementsContract`, that `Spec` implements
`OrderOutcome!Spec`: the initial states map to initial states, and each action
to an action of the contract or a stutter.

**TdRelay** (`ExecutionProofs`, second part; `RelaySettings`: a queue for a follower holds
something). `NewestAlwaysSurvives` from `RelayInv`: nothing is newer than the vendor's newest
(`Behind`); the line, then the queue, go on in order from what the follower has (`InOrder`); and
on a live line the newest is queued, under way or there (`NewestIsThere`). The first two
also hold on a mute line, whose queue goes on filling until the follower leaves it.

**Orchestrator** (`OrchestratorProofs`). For `Faults \subseteq {"db", "restart"}`
(`FaultsAllowed`): `OrchestratorTypeCorrect`, `OneExposureHolds`, `NoOrphanHolds`,
`NoSecondSellHolds`, `UnknownStopsEngineHolds`. The table in 2.3 says which of them fails under
each of the other faults. `IInv` adds what they rest on:

- `Stages`: where the lock's holder stands tells whether there is a position and
  whether an order is under way;
- `UnknownWaits`: an UNKNOWN entry keeps the engine paused, flat and up;
- `OpenIsReported`: an order still open after its call was reported as assumed, or UNKNOWN;
- `SoldIsSettling`: between the sell and the close of the row, the sell has executed or will;
- `FoundLive`: adoption found the live row if there is one;
- and, unless a human was asked to patch the ledger, `OneLot` (one lot, and no BUY
  on top of it), `Covered` (each lot has somebody who accounts for it),
  `LiveRow` (a managed live position has the one open live row) and `SoldOnce`
  (a position whose exit executed is not managed).

The four parts of `Accounted` need each other: that a restart leaves no orphan
(`Covered`) needs that the lot's row is open (`LiveRow`), which needs that a
sold position's row is closed before anything else happens (`SoldOnce`). Each
part is preserved by a lemma of its own, one step per action. `LedgerMatchesHolds` follows the
open rows through every stage of an operation; it assumes `TwinsAreKept` (no shadow mode, or no
restarts), because a restart forgets which row is a twin.

`LossStreakStopsEngineHolds` (same assumptions) relates two counts: `_risk_gate` reads the losses
off the end of the closed rows, in the order of their ids and after those a Resume has
skipped, and the property counts losses as they are booked. `SInv` adds to the invariant of the
ledger what makes them agree: `RowsInOrder` (ids are handed out in order), `ClosesNewest` (what is
closed is the newest trade of its ledger, the twin in the paper one: otherwise a loss
would be booked behind a win and not counted), `StreakIsCounted` (the gate counts every loss in a
row, and a checkpoint skips only rows that are closed; that the count grows by one with a loss
is the lemma `OneLossMore`) and `GateIsFresh` (the hunt rests on a gate computed after the last
close).

**UmpEngine** (`OrchestratorProofs`, second part; `UmpSettings`: prices are positive, levels
are natural numbers, what is switched on are kinds of entries).
`UmpEngineTypeCorrect`, `ExitEndsCandleHolds`, `TrailIsAlwaysHonest`, `NoCloseIsEverLost`. `EngineInv` is carried through each
stage of a tick by a lemma: `Quoted` (the newest minute and the candle agree on how low it
was), `Stands` (a trade that stands: its trail lies below the low it watches, its high was
reached after the entry, a retest trade's base is a level) and `CandleCounted` (after the
entry candle, the peak covers the candle).

That no close is lost is an action property over two candles: what the deferred close judges was
left there by an earlier tick. `CloseInv` says that a confirmed close has ended the trade unless it is
spared (`CloseIsKept`), that `prev_close` is that of the candle before until the close is
confirmed (`Clocked`), and that a second tick on the same candle would not move the trail
(`Rests`; the lemmas `PeakTwice` and `ClimbTwice`): otherwise the deferred tick could climb
over base and spare a trade its last minute would have ended. A retest trade whose base
moves on is the exception that needs `BaseClimbs`: then the close was above both.

**ConfigControl** (`ConfigControlProofs`): `ConfigControlTypeCorrect`,
`ServedDocumentIsRecent`. That a served document is recent needs a date for everything that may
become the cache: `CacheIsDated` (the cache is as old as what it may have missed),
`ReadsAreDated` (so is a read under way, whose time was taken before the row was read)
and `AcksAreDated` (a commit that returns finds nothing newer that returned in an earlier tick).

`OneEntryAtATime` and `PositionsDoNotOverlap` are about the pass lock, which the engine's
minute and the admin's test entry both fill under: nobody fills over a position, and an open
position ends before another one begins. No run checks them (`MCConfigControl` satisfies
them). Their invariant `EntriesInv` says that who is at a stage of the lock holds it
(`LockIsHeld`), what the engine can be at (`EngineStages`, so no test entry is the
engine's), that nobody is about to fill over a position (`FillsFlat`: no position is found
under the lock, and only its holder opens one) and that the engine's entry was decided on a
document without a kill (`EngineUnkilled`). That document may be stale by then: a kill saved
after the read is met by the kill exit and the next minute, which is `KilledEndsFlat`.

**MarketSession** (`MarketSessionProofs`). `MarketSessionTypeCorrect`
without assumptions: no login is remembered from the future, and no session is
referred to that was not minted. `SessionIsAnchored` and `FloorAlwaysHolds` for
`"seed" \notin Faults`: a failed boot query leaves a restored token without a login
time, and the floor does not apply to it (`market_session.py:318`). `IInv` adds to
the types: `BootOrder` (nothing is minted before the restore has ended),
`InThePast` (the clock runs past each mint), `Anchored` (the floor counts from no
earlier than the mint of the token in memory: this is what survives a restart)
and `Cleared` (a login under way found no younger token, and none comes meanwhile). `Cleared`
is needed because the check and the mint are separated by an await.

`BurstAlwaysHolds` and `StormIsAlwaysParked` assume `MintsAreKept` (no lost answer, no failed
INSERT: the broker then has a session of which `_login_times` and `_rotations_since_healthy`
know nothing). `StormInv` relates the counters to the sessions minted: `LoginsAreCounted` (each
one of the window is in `_login_times`, or about to be), `RoomWasFound` (a login under way saw
fewer than `BurstMax`, and nobody mints before it), `RotationsAreCounted` (the counter covers
the sessions since the last healthy feed, and above the limit the circuit is open) and
`ProbesAreStamped` (in a storm an automatic login is a probe's, and `_last_probe_at` is not
before the last one). TLC finds `StormInv` violated in the view *lossy*, as it has to be.

**TickStore** (`MarketSessionProofs`, second part; `Sized`: a bucket lasts at least a second).
`TickStoreTypeCorrect`, `NothingIsLost`, `NewestFlushIsPublished` from `TickInv`: no open
bucket is older than the last one written (`OpenIsLater`), a flush under way has rows
(`FlushHasRows`), an open bucket holds the newest tick heard (`OpenIsNewest`), and the hub is
current (`HubIsCurrent`). `RowsSettleForGood` (`Ticks!RowsSettle`, an action property no run
checks) adds `RowsAreFlushed`.

**BacktestQueue** (`BacktestQueueProofs`): `BacktestQueueTypeCorrect`,
`SingleFlightHolds` and `RunningHasTaskHolds`, without assumptions. `IInv` adds to the
three properties `RequestHasRun` (a request that acts on a run has one) and
`LiveHasJob`: no live task is invisible to `active_run_id`, since `_jobs` still points to it.
A second job of the same run would hide the first one; that this cannot
happen is what `SingleFlight` needs, and `LiveHasJob` needs `SingleFlight` in turn.

**BacktestRun** (`BacktestQueueProofs`, second part): `ResumedAlwaysUninterrupted`, for any
number of days, any market in them, and any number of stops and cancels. `RunSettings` leaves out
what the code does not survive, each shown by TLC: data filled in while the run is stopped
(`backtest_double_write`), `carry_pause`, and a day without a frame before the last one (both
in 3.3). The argument:

- `Led(n)` is the ledger after day n of a run that goes through every day with a frame.
  `UnstoppedIsIdeal`: it is what the property compares with, once these days are done.
- `LedgerOK`: in such a ledger the trades are numbered without a gap, each was entered and
  closed on a day with a frame, and one at most is open. So a day changes it by one exit and one
  trade at most (`OneDay`, from `PlayedIs`).
- `DayCleared`: whichever of the day's transactions had been written, dropping the day's outputs
  gives back the ledger of the night before; and it changes nothing for a day that left no
  trace (`ClearedSame`). `DayBooked` and `DayRealizes`: the flush, if it is not cut, makes the
  rows and the equity those of the day.
- `RunInv` says of each point of the task which of these ledgers is stored and which is held.
  Between two tasks (`Stored`) the rows are `Led(n)`, or those of the next day cut between two of
  its transactions. At the seed such a day is the first pending one, which is why
  clearing that one is enough: here the proof needs that no day before it lacks a frame.
  Between two days of a task (`Between`), what is stored and what is held agree, and every day
  with a frame that is not done lies ahead; within a day (`Within`) they differ by what the
  transactions still owe (`Stage`).

Two inductions over data had to be done without an operator as a parameter. The library states
well-founded minimality (`WFMin`) for a set, so `NatInduct` and `SubsetInduct` are about
the set of the numbers, or of the subsets, for which a statement holds; the recursive function
over the days and the sum over a set are then shown to exist and to unfold (`IdealExists`,
`SumsExist`, `RealizedTakes`).

**FeedRecovery** (`FeedRecoveryProofs`): `ExitComesAfterLadder`. `LadderInv`: a memory of
an episode that is past the rotation's rung, or has rebuilt, has tried something.

**TrueDataRecovery** (`TrueDataProofs`): `TrueDataTypeCorrect`, `ConnectedNeverWedged`,
`FirstLoginIsAccepted`. `TdInv` adds that a refused login holds no seat
(`RefusedIsNotOurs`), that a process that is down has no feed (`DownHasNoFeed`), and that the
seat is free, or ours, until the first login of a boot that had its cool-down is answered
(`FirstIsFree`).

**TdSubscriptions** (`TrueDataProofs`, second part; `SubsSettings`: finitely many contracts, a
spot lies above the window, the ceiling has room for one slot more than the trading symbols'
references).
`SubscriptionsTypeCorrect` and `SqueezeStaysFair` hold however late the acknowledgements come:
the allocator serves the references first, and those of a trading chain fit
(`SubsPlanned`). `PlanStaysCarried` is for `~LateAcks`: with an acknowledgement that may
outlive its socket TLC finds the plan not carried. Its invariant `SubsCarried` says which slots
*come*, i.e. are held once the wire is empty, because the last message about them adds them:
those in hand and not to be removed (`LiveComes`), those an acknowledgement or a message on the
wire still tells of (`AskedComes`), and after the replay of a connection the whole plan
(`PlanComes`). A request the vendor refused for its limit ends all this, so the theorem is about
behaviours with `refused = FALSE`; `PlanIsCarriedInRoom` drops that when the limit covers
every slot.

**GapFill and SymbolSwitch** (`MarketDataProofs`). `GapFillTypeCorrect` and
`DoneIsAlwaysWhole` from `FillInv`: what is queued lies in the past (`QueueIsPast`), a day that is
done is over (`DoneIsOver`), what a puller holds is known (`PulledIsKnown`), a cut minute is of
a day that is not done (`PartIsOpen`), and between the write and the mark the unit is whole in the
archive (`WrittenIsWhole`): this is what survives the puller's death in between.
`SwitchTypeCorrect` and `CleanSwitchAlwaysAgrees` from `SwitchInv`: the published client is the
newest (`GenIsPublished`), in a clean stretch all parts agree stage by stage (`AllAgree`), and
a switch that has met nothing has all its answers (`UnmetIsComplete`).

### What the proofs said about the models

A step that could not be proved was, more than once, a flaw of the property or of a type:
the exit comes after *replacing* a dead supervisor as well as after a rotation
(`tried` of `FeedRecovery`, and the row in 3.3); the trail's base may be the trigger's level, which a
later build has dropped (`Earned`); a new UMP engine has no levels until its first tick; and
the types of `TrueDataRecovery` had to say what the socket, the reply and the vendor say of one
another (`SocketsAgree`); `set_capacity` keeps the ceiling at zero or above and a ceiling of
zero limits nothing, so the budget clause of `TdSubscriptions` is about a positive one
(`Usable`); and the arms of a `CASE` in `CloseRow` (and in the queue's `Restart`) overlapped, which
TLC resolves in their order and the semantics of `CASE` does not.

### Only model-checked

- Liveness (`CallReturns`, `FollowerReturns`, `PanelSettles`, `StripSettles`,
  `ExitGoesThrough`, `QueueMoves`, `DeadFeedEndsInExit`, both `Recovers`, `KilledEndsFlat`,
  `PastIsRestored`, `ChainFollows`): the prover does not
  handle fairness and ENABLED. `MeetsContract` is proved for the safety part, which is all
  that `OrderOutcome!Spec` states.

## 5. What is left

### 5.1 Models

1. **AlgoAuth**: lockout, sessions, the last admin (`algo/auth.py`, `api/algo_auth.py`).
2. **Pure algorithms** against reference definitions over bounded inputs: the combination
   rule, drawdown.
3. Refinements of what is there: the hunts that are fed over a day without a newest minute
   (`orchestrator.py:1141`), the twin in adoption, the universe poller's sweep.
4. **Backtest data**: the day frame and the as-of reads of a replay, which must not see
   the future.

### 5.2 Proofs

Type correctness of `TdRelay` and of the two streams, whose other properties are liveness.

### 5.3 Not modelled, and why

The OI, chain, IV and Greeks services and the numeric engines are SQL and
floating-point formulas over series: nothing TLC could enumerate. Socket and
REST clients are I/O, their effects are inputs of the models. The frontend
renders, except for the configuration draft, whose base version is in `ConfigControl`.
Reports, alerts and the audit trail
are write-only, except for the Resume checkpoint and the pages, which are
modelled. The instrument master and the read-only REST handlers look things up. Deployment is
shell; the sentinel's restart is `Restart` in the models.
