# crypto-forecast: specifications

TLA+ models of `crypto-forecast` (the Python program under `src/scripts`), the
TLC runs that check them on small instances, and the proofs that hold for every
instance. Paths below are relative to `src/`; `core/` stands for
`scripts/core/`, `server/` for `scripts/server/`, `client/` for `scripts/client/`.

| Part | Modules | Run |
| --- | --- | --- |
| Orders: from a consensus row to the exchange and back | `OrderSubmission`, `MCOrderSubmission`, `OrderSubmission_proofs` | `submission_lock`, `submission_ends`, `submission_limit` |
| The Bybit worker and the service it provides | `RequestService`, `BybitWorker`, `MCBybitWorker`, `BybitWorker_proofs` | `worker` |
| The copy of the exchange's transaction log | `TransactionLog`, `MCTransactionLog`, `TransactionLog_proofs` | `log_arrives` |
| The numbers: levels, vote, size, rounding, manual orders | `SignalLevels`, `ConsensusVote`, `PositionSizing`, `SignalPath`, `ManualOrder`, `MCSignalPath`, `ForecastPipeline_proofs` | `signal_path` |
| What became of the signals, and of those who gave them | `EvaluationRules`, `Evaluation`, `ProviderAccuracy`, `MCEvaluation`, `ProviderAccuracy_proofs` | `evaluation` |
| Forecast runs, consensus rows, activation | `ForecastPipeline`, `MCForecastPipeline`, `ForecastPipeline_proofs` | `pipeline` |
| Scheduler, pool, AI calls, circuit breaker, restarts | `Scheduler`, `CircuitBreaker`, `AICalls`, `Runtime`, `MCRuntime`, `Runtime_proofs` | `runtime` |
| The database file: upgrades and the reset tool | `SchemaMigration`, `TradingReset`, `Maintenance`, `MCMaintenance`, `Maintenance_proofs` | `database` |
| The account, the settings, the desktop client | `TradingAccount`, `Activities`, `Console`, `MCConsole`, `Console_proofs` | `console` |
| Price table, indicators, robot | `MarketReadings`, `PriceHistory`, `RobotRunner`, `MCPriceHistory`, `ForecastPipeline_proofs` | `market` |

`PROJECT.json` lists the components, the runs with their properties, a mutant for
every property, the source lines of every definition, the hazards, the finding
and the theorems. To repeat a check: `tlc -config <cfg> <MC module>.tla`, for
example `tlc -config Pipeline.cfg MCForecastPipeline.tla`; for the proofs,
`tlapm <module>_proofs.tla`. Operators whose comment begins with "Mutant:" are
plausible bugs, defined before the definition they would replace; nothing uses
them in the specification.

## 1. Inventory

### The program

A FastAPI server runs one asyncio loop, a pool of HTTP threads, a scheduler
whose tasks run in a thread pool, one Bybit worker, and, on request, a robot
thread. Several AI models are asked for forecasts of each ticker; their answers
are merged into a *consensus* row; a row that asks for an order is turned into a
*bracket* (an entry with a take-profit and a stop-loss) on the exchange. Later
the row and the forecasts are judged against the prices, and the judgement
becomes the weight of the model. A PyQt client edits settings and starts
operations over HTTP. All state that survives a restart is in one SQLite
database, in `secrets.ini` and on the exchange.

| Component | State | Operations | Talks to |
| --- | --- | --- | --- |
| Order submission (`core/bybit_order_manager.py`, `core/storage/repositories/`) | `_ticker_locks` (memory); `consensus.order_state`, `orders`, `trades` | `submit_signal`, `activate_consensus_order`, `_save_bracket`, `_fail_bracket`, `mark_order_submitted/skipped` | called by scheduler, HTTP and pipeline threads; calls the worker |
| Status synchronisation (`core/bybit_order_status_sync.py`) | none of its own | `sync_orders_with_bybit`, `_apply_trade_updates`, `_sync_open_trades_with_positions` | reads the exchange, rewrites `orders` and `trades` |
| Expiry (`core/sqlite_manager.py`) | none of its own | `expire_queued_orders`, `expire_stuck_submitted_orders`, `expire_filled_orders`, `expire_stale_pending_orders` | rewrites `orders`, `trades`, `consensus` |
| Bybit worker (`core/bybit_worker.py`) | queue, one executor thread, `running`, `loop` | start, stop, `bybit_request`, `bybit_request_sync`, periodic account sync | meant to be the only user of the REST client |
| REST client and configuration (`core/bybit_client.py`, `bybit_config.py`) | the global client; settings, `secrets.ini` | `init_bybit_client`, every request; load and save of profiles | the exchange; logs every exception and answers `None` or `[]` |
| Forecast engine and AI calls (`core/forecast_engine.py`, `multi_model_forecaster.py`, `ai_client.py`, `circuit_breaker.py`) | breaker state and counts | ask, repair, normalise, accept | OpenRouter; consensus |
| Consensus calculation (`core/consensus.py`, `consensus_settings.py`) | none | weighted vote, levels, filters | pipeline, recalculation |
| Forecast pipeline (`core/pipeline/stages.py`, `core/meta_label/stage.py`, `core/forecast_runner.py`, `core/consensus_recalc.py`) | `forecast_runs`, `consensus` | the stages, recalculation of past rows | order submission |
| Position sizing and capital (`core/position_sizer.py`, `bybit_instrument.py`, `bybit_capital_provider.py`) | capital cache | sizes, sector limits, rounding to steps | order submission, `POST /orders/submit` |
| Evaluation (`core/consensus_evaluator.py`, `actuals_evaluator.py`, `mae_mfe.py`) | outcome columns of `consensus`, `actuals` and `logs` | daily and hourly rules, excursions, label | scheduler, robot, endpoint |
| Provider accuracy (`core/model_performance_tracker.py`) | `providers.ema_accuracy`, its count | update after every evaluation; edits over HTTP | consensus weights |
| Market data (`core/bybit_data_loader.py`, `indicators.py`, `market_regime.py`) | `price_data`, `price_data_intraday` | fetch, cache test, store; indicators and claims | scheduler, pipeline, robot, start-up backfill |
| Scheduler (`core/scheduler.py`) | task flags, `scheduled_tasks` | `_run_task_loop`, the task bodies, stop | every task above |
| Server lifecycle and robot (`server/api.py`, `server/robot.py`, `core/single_instance.py`) | robot status, pid file | start, stop, clean-up of stuck runs, robot modes | scheduler, worker |
| Account and transaction log synchronisation | `account_*` tables; `bybit_uta_transaction_log` and its mark | `sync_account_data_async`; `sync_bybit_transaction_log` | worker |
| Database (`core/sqlite_manager.py`, `bybit_migrate.py`) | the schema, `config`, prompt templates | the constructor (create, seed, migrate), `migrate_to_bybit` | every thread makes managers |
| Maintenance tools (`scripts/tools/reset_trading_state.py`, …) | none | reset of the trading state | exchange, database |
| Desktop client (`client/`) | running activities, tables as loaded | tabs, `ActivityManager` | HTTP routers |
| WebSocket client, notifications, meta-label features, repair scripts | – | see `PROJECT.json` and section 15 | – |

### What is hard

- *Threads.* Scheduler pool, HTTP pool, pipeline and robot threads do the same
  things at the same time. Orders of one ticker are protected by a non-blocking
  lock; the limit on open positions, the consensus rows, the price table, the
  accuracies and the schema are protected by nothing but single statements.
- *Many small transactions.* A bracket is five transactions, an accuracy two, an
  upgrade a few dozen; another thread or a crash may come between any two.
- *Unreliable answers.* A placement may be refused, lost, late or answered
  without an id; a list that could not be read is an empty list; three nested
  timeouts stop waiting without stopping the request.
- *Writers that overwrite.* Synchroniser, expiry, stages, evaluators and price
  updates write by key without looking at what they replace.
- *Stale reads.* A row read before a lock, bars read before another store, a
  profile read after its wallet, a table saved from what was loaded before.
- *Crash and restart.* Locks, queues, counters of the breaker vanish; rows,
  orders and half an upgrade stay.
- *Numbers.* Levels parsed, anchored, capped, medianed and rounded one by one;
  sums of timeouts; ages computed from empty columns; averages of too few bars.

### What makes each component correct

- Submission: never two live entries of one ticker; nothing is placed that is
  not on disk; what is reported as submitted is; a submission ends.
- Synchronisation: a local status is never ahead of the exchange; a fill is noticed.
- Expiry: what blocks a ticker ends; only old rows are retired.
- Worker: each request is answered once and truly, within its bound; a stopped
  worker leaves nobody waiting for ever.
- Signal: a directed consensus is a majority, favours no side and is a trade
  worth its risk; the order risks what it was sized for.
- Pipeline: an order is placed only for a consensus that stands and was not
  rejected by the run that places it; rows and runs end.
- Evaluation: a verdict rests on complete bars after the signal, the rules agree
  with each other, and every signal is judged; each outcome counts for its own provider.
- Scheduler: one run of a task at a time, whatever fails; a restart puts nothing
  off; the breaker opens and recovers.
- Transaction log: what the mark has passed is in the table.
- Database: an interrupted or doubled upgrade loses no choice of the operator and
  is completed; a reset deletes nothing that is still live.
- Account: an order goes where the settings send it; settings and balances settle.
- Market data: the table is complete behind its newest bar and catches up; what
  the prompt claims of it has no bias.

## 2. Plan

| Step | Modules | State |
| --- | --- | --- |
| 1 | `OrderSubmission` with its proofs | done |
| 2 | `RequestService`, `BybitWorker` with their proofs | done |
| 3 | `TransactionLog` with its proofs | done |
| 4 | `SignalLevels`, `ConsensusVote`, `PositionSizing`, `SignalPath`, `ManualOrder` with their proofs | done |
| 5 | `EvaluationRules`, `Evaluation`, `ProviderAccuracy` with their proofs | done |
| 6 | `ForecastPipeline` with their proofs | done |
| 7 | `Scheduler`, `CircuitBreaker`, `AICalls`, `Runtime` with their proofs | done |
| 8 | `SchemaMigration`, `TradingReset`, `Maintenance` with their proofs | done |
| 9 | `TradingAccount`, `Activities`, `Console` with their proofs | done |
| 10 | `MarketReadings`, `PriceHistory`, `RobotRunner` with their proofs | done |
| 11 | proofs about steps 1–10: every safety invariant of their runs, and the action properties of `ForecastPipeline`, `TransactionLog` and `BybitWorker` | done |
| 12 | the steps the liveness properties rest on: what each lowers of the work that is left, and that nothing raises it | next |

No module declares a recursive operator; recursion is in functions and folds.

Twelve runs share the questions, and every run but one ends well inside five
minutes with two workers; where several conditions belong to one question they
are conjuncts of one property, each with a name and a comment of its own.

## 3. OrderSubmission

### State

| Variable | Code |
| --- | --- |
| `consensus` | `consensus.order_state` and `trade_id` of the rows that ask for an order |
| `orders`, `owner`, `stamped` | `orders.status` of the ENTRY, TAKE_PROFIT and STOP_LOSS row of each bracket, `orders.consensus_id`, whether `submitted_at` is set |
| `trades` | `trades.status` of the bracket's trade |
| `overdue`, `aged` | rows older than the cutoffs; time is the set of rows that have become old |
| `exchange`, `position` | the exchange's status of the entry order, the symbols with a position |
| `wire` | the `place_bracket` request between `bybit_request_sync` and the exchange, and its reply |
| `lock` | `_ticker_locks` |
| `pc`, `job`, `bracket`, `todo` | the place in the code, the row, the bracket and the list of each submitting thread |
| `syncPc`, `seen`, `found`, `flat` | a run of `sync_orders_with_bybit`: orders still to look up, the answer in hand, the symbols it believes flat |
| `crashes` | restarts so far |

### Actions

One action is one database transaction, one exchange request or one lock
operation; between two of them any other thread may run. `StartPendingTask`,
`ExpireStalePending`, `ListCandidates`, `ProcessCandidate`, `FinishPendingTask`
are the pending-orders task of the scheduler; `StartActivation` and
`StartManual` are the two other ways in. `ReadPendingRow` to `MarkStopLoss`
follow `activate_consensus_order` and `submit_signal` line by line, with
`Return` for the `finally` clause that releases the lock, `WriteError` for the
exception of each write and `PlacementTimeout` for the timeouts. `SyncSnapshot`
to `SyncCloseTrades` are the synchroniser, the `Expire…` actions the expiry
tasks. `ExchangeAccepts`, `ExchangeRefuses`, `OrderMoves` and `PositionCloses`
are the exchange (external), as the REST client shows it. `Crash` is a restart
of the process.

Abstracted: prices, quantities and the five requests that size an order
(`QuoteAndSize`, any outcome); the configuration tests (`Precheck`, any
outcome); formatting and logging. TAKE_PROFIT and STOP_LOSS rows have no
exchange id and the code never looks them up, so the exchange's side of them is
only "the position closes".

### Runs

| Run | Asks | Instance | Result |
| --- | --- | --- | --- |
| `submission_lock` | `TypeOK`, `OneQueuedPerTicker`, `SavedBeforePlaced`, `SubmittedIsReal` | one row, one ticker, two brackets, three threads (scheduler, HTTP, manual), one crash, lost replies | holds; 3.8 million states, 2 min |
| `submission_ends` | `LocalNeverAhead`, `LiveIsTracked`, `SubmissionEnds`, `ExposureEnds`, `FillIsNoticed` under `FairSpec` | one bracket, one synchroniser, one submitter, one crash, all faults | holds; 170 000 states, 40 s |
| `submission_limit` | `LimitRespected` | two tickers, two HTTP threads, limit 1 | violated |

Why these bounds are enough. A race for a ticker needs two threads that hold or
want one lock and two brackets, hence two `Uid`s; three threads cover the three
ways in, which differ in what they do on a refusal. The overwriting of a status
is about one order, hence one `Uid`. One crash reaches every program point, and
what it leaves behind is met by a full second submission. Different tickers share
only the count of open positions, which is what `submission_limit` is about.
`Uid` also bounds the number of brackets: once used up, `QuoteAndSize` can only
refuse. Brackets are symmetric, and `submission_lock` uses that. Two overlapping
synchronisers (the scheduler's and one started over HTTP) under all faults and
with liveness do not fit into a run; for `LocalNeverAhead` the theorem `Tracking`
covers any number of them.

Deadlock is checked in every run of this module.

### Fairness

`FairSpec` is `Spec` with two assumptions. `ThreadFairness`: a thread inside a
call goes on, because every wait in it is bounded (`PlacementTimeout` is part of
`ThreadStep`). `SyncFairness`: the scheduler starts the synchroniser again and
again in an endless loop, and the exchange sooner or later answers the query for
an order it is asked about for ever (strong fairness of `SyncFinds`, which an
answer that keeps failing would otherwise starve). Nothing is assumed of new
calls, nor of what the exchange does to an order: an order may rest for ever.

`SubmissionEnds` uses `ThreadFairness` only. `FillIsNoticed` uses both and not
the expiry tasks: the fill has to be found by asking. `ExposureEnds` names its
extra hypothesis itself, `ExpiryFairness`: time passes and the scheduler keeps
running the three expiry tasks. The run includes `lost_reply`, the fault that
lets a wait time out.

### What the run found

*`LimitRespected`*: the count of open positions and the insert are not one step
and the lock is per ticker, so `MAX_OPEN_POSITIONS` can be exceeded. More
disagreements between code and texts that the model shows are in section 14.

## 4. BybitWorker

### The service

`RequestService` is what the rest of the program relies on, in two variables:
what the caller of each request knows (`answer`) and what became of the
operation (`effect`). A caller gets one answer; operations are carried out one
at a time, each at most once, and only when asked for; an answer `result` or
`error` is the operation's own outcome, `refused` means that it never happens;
`unknown` (any timeout or cancellation) promises nothing: the operation may have
happened, be under way or still happen. This is what `PlacementTimeout` of
`OrderSubmission` does with a placement.

### State

| Variable | Code |
| --- | --- |
| `phase` | the server's lifespan (`scripts/server/api.py`): before the worker starts, up, in `stop_bybit_worker`, after it, loop closed |
| `running`, `queue` | `_state.running`, `_state.queue` |
| `call` | what the caller of `bybit_request` or `bybit_request_sync` was told |
| `future` | the coroutine a thread handed to the loop, then the `asyncio.Future` of the request |
| `op` | the operation in the executor: not there, waiting, running, ended, taken back |
| `wpc`, `cur` | the place in `_worker_loop` and the request in hand |
| `syncPc`, `syncReq` | `_state._account_sync_task`: its place in `sync_account_data_async` and the request it awaits |
| `occupied` | why the event loop runs no handler: the synchronous work of a coroutine, or the request its own thread waits for |
| `innerTimer`, `outerTimer`, `workerTimer`, `syncTimer`, `stopTimer` | what is left of each wait, in ticks |
| `workTimer` | what is left of the time synchronous work may occupy the loop |
| `short`, `stalled` | history, for one property: who was queued behind at most one other, and how long the loop was occupied meanwhile |

### Actions

One action is what the event loop runs between two awaits, or one step of
another thread. `CallFromThread` and `RunCoroutine` are the two halves of
`bybit_request_sync`, each with its own check that the worker runs, and
`CallFromLoop` is `bybit_request` in a coroutine. `CallOnTheLoop` is
`bybit_request_sync` called where it should not be, in a coroutine: the portfolio
snapshot of the scheduler does that. `HeartbeatProbes` are the two HTTP requests
the heartbeat makes on the loop, and `WorkEnds` is the end of such work. `InnerTimeout`, `OuterTimeout`
and `CallerCancels` are the three ways a caller stops waiting. `LoopTop`,
`PollTimesOut`, `TakeRequest`, `OpAnswered` and `OpTimesOut` are the worker's
loop; `ExecutorTakes` and `OpEnds` its single executor thread; `Sync…` the
account synchronisation; `Start`, `StopBegins`, `StopEnds` the
lifespan. `LoopCancels` and `LoopCloses` are the end of the asyncio loop.

A timeout of the worker cancels the executor's future (`Abandon`): that takes
back an operation that has not begun, and does nothing to one that has. So after
a timeout the executor thread may be busy with an operation nobody waits for,
and the next one waits inside the executor, behind it.

Abstracted. What an operation does and answers is "result" or "error". Time is
in ticks, and the loop is prompt: `Tick` is not enabled while a handler is ready,
except while a coroutine occupies the loop: `_persist_account_data` and the
heartbeat's probes, which make requests of their own on it, for at most `MaxWork`
ticks, and the portfolio snapshot, which waits on it for the outer timeout. Two
such coroutines do not follow each other while a handler is ready
(`LoopIdle`), for asyncio runs callbacks first come first served. Timeouts keep their order and their sums
(`timeout + _QUEUE_WAIT_SLACK + 2` and `+ 5`), scaled. All calls have one timeout, the
default; the only other one in the repository is longer (`get_transaction_log`,
60 s), and the heartbeat's own limit is `CallerCancels`. A request is an identity that serves again when nothing in
the program refers to its last use. The server starts its worker once.

### Run

`worker` asks `TypeOK`, `OneAheadIsAnswered`, `UnstartedNeverStarts`,
`SyncKeepsRunning` and `Served` under `FairSpec`: one request of a thread, one of
a coroutine (which may be the synchronisation's), timeouts of two ticks, both
coroutines that block the loop; 480 000 states, 50 s.

Why these bounds are enough. Two requests meet in the queue, or one is in the
executor, left over from a timeout, while the other waits behind it: the cases
the slack is for. Two ticks distinguish "in time", "late" and "just late", and a
`SyncInterval` of three lets the queue be refilled between two synchronisations.
`LoopBlockers` names the coroutines of the scheduler that block the loop.

`OneAheadIsAnswered` is what the comment on `_QUEUE_WAIT_SLACK` says. The margin
of two seconds on top of the slack is used up by polling and by the time the
loop is occupied, so the property excepts a caller during whose wait the loop was
occupied for the whole margin; without the slack TLC finds a caller that gives up
although only one request was ahead.

### Fairness

Weak fairness of each handler of the event loop and of the end of a thread's
wait (`OuterTimeout`): asyncio runs ready callbacks first come first served, and
`Future.result` has a timeout. Weak fairness is enough in spite of the
coroutines that block the loop, because they begin only when it is idle and end.
Strong fairness of `Tick`, which the steps of
callers and of the executor disable and enable again: clocks do not stop.
Nothing is assumed of `OpEnds` (an operation may hang for ever), of new calls, or
of when the server stops.

### What the model shows beside the properties

The first lines of `core/bybit_worker.py` call the worker a "serialized queue
for all Bybit API calls". `core/bybit_account_sync.py:40` does not go through it:
it calls `client.get_account_info` on the event loop, at the same time as the
executor thread may be using the same session, and no coroutine of the server
runs until it returns. The model has the second effect (`occupied`), not the
first.

With more than one request ahead a caller may be told "timeout" and its
operation be carried out afterwards, if the worker had taken it before the
future was cancelled; the service allows it (`unknown`).

## 5. TransactionLog

`sync_bybit_transaction_log` copies the exchange's list of cash movements. It
notes the time, asks for everything since the mark less one minute, at most a
lookback ago, in windows of seven days and pages of fifty, stores the rows by
their id, and sets the mark to the time it noted. The scheduler does this every
hour; two endpoints do it when asked to, for a currency, a type or other dates
too, and nothing keeps two from running at once.

### State and actions

| Variable | Code |
| --- | --- |
| `at`, `shown`, `now` | the exchange: when an entry happened, whether it answers with it yet, the clock |
| `stored` | `bybit_uta_transaction_log` |
| `last` | `LAST_BYBIT_TRANSACTION_LOG_SYNC_AT` |
| `syncedAt`, `range`, `cursor`, `left`, `got` | the locals of a call: `synced_at`, the range and the filters, where the next window begins, what is to come of this one, `all_raw` |
| `erred` | history: one of its pages was answered with an error |
| `missed` | history: what no later synchronisation will ask for |

`SyncBegins` is the call up to its first request; `FirstPage` and `NextPage` are
one request each, answered (`Deliver`) or not (`PageError`: the client turns an
error into an empty page, which ends the window); `Store` is the transaction of
`upsert_transaction_rows`, `SetMark` the write of the mark. `Raise` is an
exception out of a request, `Crash` a restart. `EntryHappens` and `EntryShows`
are the exchange (external), which shows an entry at most `Delay` after the time
it gives it.

Two things are missed by design or by its consequences, and `missed` records
them where they happen: what was older than the lookback when a synchronisation
began, and what a synchronisation left out that was filtered or met an error, and
whose mark has passed it.

### Run

`log_arrives` asks `TypeOK`, `NothingMissed`, `SyncIsComplete` and
`EveryEntryArrives` under `FairSpec`: two entries, the scheduler and an HTTP
request, windows of one instant and its neighbour, two faults of any kind;
520 000 states, 45 s.

Why these bounds are enough. Two entries fill two pages of one window or lie on
the two sides of a border; two synchronisations overlap in every way, and the
slower one moves the mark back; four instants leave room for an overlap, a
lookback that is exceeded, and several windows; two faults meet in one
synchronisation or in two that overlap. `MaxTime`, `MaxFaults` and the number of
entries are the bounds. A restart and a filtered request count as faults.

Fairness: time passes, the exchange shows an entry at last, and the scheduler
starts the synchronisation again and again, each request of which has a timeout
(60 s). The scheduler skips it while the worker is down, so this assumes that the
worker comes back. The other synchronisations may stop anywhere.

## 6. The numbers of a signal: SignalPath and ManualOrder

One behaviour is one pipeline run for one ticker, seen as data: every model
answers or not (`Answer`, `NoAnswer`), the accepted answers vote (`Vote`), the
order is sized and snapped (`ActivateConsensusOrder`) and snapped once more by the REST client
(`Place`). `ManualOrder` adds `POST /orders/submit`: the operator's levels
replace those of the consensus, a sizer of its own decides whether there is an
order at all, and the same submission follows.

The algorithms are operators of their own modules, on integers:

- `SignalLevels` – a missing target read out of free text, entry, stop and target
  anchored at the market with the code's limits of 5, 10 and 15 percent, the cap,
  and the risk/reward test.
- `ConsensusVote` – anomalies left out, weights summed, the winner, its
  confidence rounded as Python rounds, the filters in their order (models,
  disagreement, threshold, expected R), medians of the levels of the winning side.
  Votes are the places of forecasts in the sequence, and a median is two ranks
  (`Ranked`), so that nothing is sorted and no equal levels are told apart.
- `PositionSizing` – risk over stop distance, the instrument's steps and limits,
  slippage of a limit order.
- `ManualOrder` – the three sizing modes, capital with its one cache and its
  fallbacks, the sector limits.

Confidence is in tenths of a percent, levels of a consensus in half price units;
where the code divides floats the model multiplies. It rounds where the code
does: an anchored stop or target to 0.01 (`core/multi_model_forecaster.py:63`,
:79), the medians to 0.0001 (`core/consensus.py:447`). How coarse that is
depends on the price of the coin, so a situation says what 0.01 and 0.0001 are
in the units of the model (`cent`, `fine`): for a coin of 1, 0.1, 0.01 and 0.001
dollars. A level that is rounded to nothing counts as missing, as it does in the
code. Ties are taken as ties and rounded to even; a binary float may lie beside
its tie. `LoadSettings` is the
settings of the regime with their overrides. Weights are integers standing for
confidence × win rate × accuracy; the Kelly fraction is an input.

`signal_path` asks `TradeIsSound` (stop on the losing side, entry on the waiting
side, target ahead, reward for risk), `VoteIsFair` (under a threshold above one half
a strict majority, of two models where two have to agree; the vote of the mirrored
forecasts is the mirrored vote, ties included, as long as no level is rounded to
nothing) and
`OrderIsSound` (rounding keeps the loss at the stop within the budget; the second
rounding changes nothing and refuses nothing that passed the first). Each states
its exceptions where the code has them, see section 14. What rounding may do is
part of the statement: a level moves by at most `Slack`, half of 0.0001; stop or
target come to lie *on* the entry, never past it, and only where some forecast
had its stop within `Slack` of its entry (`Apart`); the reward covers the risk
but for ten times `Slack`. Three calls to two
models: two models on a side for a majority, a third voice for ties and for odd
and even medians. The answers, some forty,
have their levels on both sides of each limit of the code;
the equities make an order below the minimum, within the limits and above the
maximum; four situations have an ATR or none, a regime with overrides or none, and
rounding finer than a level, as fine, or up to ten times coarser.
1.2 million states, 115 s. There is one path to one end, so deadlock is not checked.

## 7. Judgement: Evaluation and ProviderAccuracy

`Evaluation` has a clock in periods (two to a day), a price path per behaviour,
the daily and the hourly price table as the periods they were fetched in, the
consensus rows and the forecasts of the logs. `PriceDataUpdate` and
`IntradayUpdate` are the two price tasks, one step each; `Evaluate(e)` is an
evaluator in three steps, list, judge, save (`Begin`, `Judge`, `Save`), and two of
them run without excluding each other, as the scheduler, the robot and
`POST /consensus/evaluate` may; `EvaluateLog` is `core/actuals_evaluator.py`.
`EvaluationRules` has what a bar decides: the daily rule, the hourly rule, the rule of
the logs, excursions and label.

`ProviderAccuracy` extends it with `providers`: a pass of
`update_all_from_evaluations` lists the forecasts judged that day and, for each,
reads a row and writes it in two transactions (`ReadRow`, `WriteRow`), while
another pass and the operator's edits (`AddProvider`, `ReadProvider`,
`UpdateProvider`, `DeleteProvider`) do the same. An accuracy is kept in
millionths, as the code rounds it, a win ratio as a pair of counts.

`evaluation` asks `BarsAreSound`, `VerdictsAreSound`, `AccuracyIsEarned` and
`EverySignalIsJudged`. Four days; three rows (daily horizon, two days, hourly)
and three logs, of both sides and of none, with an entry and without; three paths of five kinds
of bar, among them one that reaches both levels and one that opens on a level;
two evaluators, two passes, one provider, one edit, two counted outcomes. One
group of rows is active in a behaviour, for different tickers share nothing
here; 210 000 states, 85 s. `MaxNow` ends time, so deadlock is not checked. Fairness: time goes
on, the scheduler repeats its tasks and the exchange answers; `EverySignalIsJudged`
allows two days.

## 8. Forecast runs: ForecastPipeline

Each thread of `Runs` is one run: it creates its row in `forecast_runs`
(`StartRun`, of which a failed write leaves a run that is `unlisted`), and for each ticker tests the exposure (`Begin`), forecasts and
votes (`Consensus`), saves the consensus row with its order state (`Save`),
scores it (`MetaScore`), rejects it (`MetaReject`), activates an order
(`Activate`, then `ReadRow`, `Submit`, `MarkRow` of `activate_consensus_order`)
and ends (`EndRun`). Where the code swallows a failed write the model has the step
without it (`WriteFails`): the row of a rejected or submitted consensus stays
PENDING_ORDER (`TryMark`), the row of a run that has ended stays `running`
(`CompleteRun`; such a run is `lost`). `ListPending` and `NextPending` are the pending-orders task,
which activates the same rows; `RecalcStart`, `RecalcDelete`, `RecalcInsert`, `RecalcEnd` the
recalculation, which goes on without a row to delete and after a DELETE that
failed, so that a day may have two rows; `Age` the expiry of old rows, `Close` the end of an exposure,
`Crash` the end of the process and `Restart` its next start, whose clean-up of
stuck runs may fail. `submit_signal` is one step:
section 3 has its inside. A vote is a direction and whether its confidence
reaches the threshold.

`pipeline` asks `OrdersAreEarned`, `SettledStays` and `WorkEnds`, under fairness
of threads, of the task and of age. One ticker, for rows of different tickers
meet nowhere; two threads of three kinds, two rows; four settings cover automatic
orders on and off, the meta-label stage enforced, in shadow and off, the exposure
guard on and off, every vote, every refusal, and, but for the first, two faults:
crashes and failed writes. Two are enough for a crash whose clean-up fails, for
the end of one run and the rejection of another to be lost, or for a row that
cannot be marked twice; 300 000 states, 70 s. Runs end, so
deadlock is not checked.

`StageHonoursVerdict` is about the orders a run places itself. It excepts the
pending-orders task, which asks for no verdict and orders a rejected row it has
read before the rejection was written, or whose rejection never was
(section 14). `RunningIsAlive` says that while the server is up a run that is
listed as running has its thread, or was `lost`; `WorkEnds` that a run ends in the
table unless it was lost, and, as it speaks of what a server does, that the
server is started again whenever it has crashed.

`SettledStays` is about rows nobody has in hand: whoever has read a row while it was pending
may still submit or skip it, which the code allows and the property excepts.
`PendingEnds` is about rows without a bracket.

## 9. The server at work: Runtime

`Scheduler` has one loop per task (`first` sleep, `await`, `backoff`, `sleep`),
the record of the last run that a restart reads, the pool with its queue and
threads, and the process: `StartServer`, `StopServer`, `Exit` (the pool threads
are waited for), `Crash`. `AICalls` has a caller's way through models, methods,
requests, retries and repairs; `CircuitBreaker` the breaker as a record with its
functions. `Runtime` composes them: the job of the forecast task is a forecast run,
and the robot's thread may make another through the same breaker.

In the server the breaker's import fails (section 14), and only where
`scripts/core` is on the path does it work; `onPath` is either, chosen at the start.

`runtime` asks `ThreadsAgree` (one run of a task at a time, each with its thread;
the circuit is not closed again over the failures that opened it),
`RestartKeepsSchedule` and `NothingStaysStuck` (`TasksKeepRunning`,
`BreakerRecovers`) under `FairSpec`: one pool task and one that runs at the start,
intervals of two and one ticks, one retry, one worker thread and a
backfill that competes for it, one model with two methods, two requests a call,
thresholds of two; 460 000 states, 70 s. Two thresholds of two distinguish a count from its reset; two
callers interleave at every step. Deadlock is checked.

Fairness: the clock, the grace period, threads and coroutines go on and requests
time out. Nothing is assumed of starting, stopping and crashing, of the provider,
or of the robot being started.

## 10. The database file: Maintenance

`SchemaMigration` is the constructor of the manager as a script of statements
per part: create, seed, add columns, ensure tables, carry over configuration
keys, drop and replace, migrate to Bybit. Statements that change the schema commit
by themselves, so the constructors of several threads interleave statement by
statement; a clash ends the part, as the code's `except` does. `schema` is the
set of columns there are; tables and columns that no statement treats
differently are represented by one. The thread `"cli"` is the operator's own
`migrate_to_bybit`, which takes some of the parts in another order and writes defaults
of its own. `TradingReset` is the reset tool with its exchange part (list,
cancel, close, decide, delete in pieces), while orders are filled.
`Maintenance` starts from five kinds of file (none, two earlier versions, one
with a settings table of another shape, the current one) and lets the server
start and die anywhere, tasks build managers side by side, and the tools run
while the server is stopped.

`database` asks `UpgradeIsSound` (what the operator chose survives, a finished
manager has its schema, no start is lost to a missing column), `ResetIsSound`
and `SchemaCompletes`. Two tasks beside the start; two symbols; 390 000 states, 2 min. Two constructors give
every interleaving of two statements; a third would meet the same two states of
a column, there or not there. Three drills keep behaviours apart: upgrades, the
operator's migration, resets. Fairness: threads run on and the scheduler goes on
starting tasks, for what a clash has cut off is completed by a later manager.
Deadlock is checked.

## 11. The account and the console: Console

`TradingAccount` has the settings key by key, the profiles in `secrets.ini`
(empty while it is written), the global client, the jobs that make it anew
(`ReadDemo`, `ReadProfile`, `Remake`), a submission that reads mode and
confirmation, asks for the ticker's row and then, on a connection of its own, for
its block (`CheckKnown`, `CheckBlocked`), sizes from the balance and places through the client of that
moment, and the synchronisation that files a wallet under the profile read
afterwards. `Activities` is the client's `ActivityManager`: an operation in a
thread of its own, its control held until `on_finished`. `Console` composes them
with the table of tickers that clients edit from what they loaded.

`console` asks `OrdersFollowSettings`, `TabsAreTrue` and `AccountSettles` under
`FairSpec`. `Cast` is a bound: the actors at work in one behaviour, five sets of
two or three that share state with one another. Two stores, one failing read
(of a setting, of the ticker or of its block), two
threads of the client, one job, one operator; 1.5 million states, 70 s. Two stores are
the fewest that leave a mixture of old and new settings. Fairness: the jobs and the
synchronisation come round again and a save is finished. Deadlock is checked.

`OrdersFollowSettings` says that an order reaches the live account only if the
operator had turned the demo off, chosen the live profile and enabled trading,
whatever reads fail; that a submission during which nothing was stored obeys the
settings, the order of a blocked ticker excepted whose block could not be read
(`unread`: `is_ticker_blocked` then answers that it is not blocked); and that a
client never loses its keys.

## 12. Prices and the robot: RobotRunner

`PriceHistory` has the daily bars of one ticker, each with the day it was fetched
on, and the tasks that read, fetch and store them: update, start-up backfill,
forecast, and the price mode of the robot. A read, its store and the staleness
test are separate steps, so a slow task may put older bars back. `MarketReadings`
has the indicators on integers (averages kept as multiples of `Scale`), the
statements `build_prompt` makes of them for a template (`Claims`: regime and
its reason, strength of the trend, structure of the averages, side of the price,
volume, oscillator), and which of them the template of a method, as the database
is seeded with it, puts in the prompt (`Shown`, `Prompt`). A cache that cannot
be read is one of the failures. `RobotRunner` adds the status and the threads
of the robot.

`market` asks `PricesAreSound`, `ClaimsHaveNoBias` and
`RobotEndsAndTableCatchesUp`. The windows of the code are scaled in their order
(the backfill's least number below the fast average, the update's window from the
fast to below the middle one, the forecast's above the slow one: `Market.cfg`);
four days, five paths, two robot threads, one failure; pairs of tasks in one
behaviour; 190 000 states, 60 s. Four days are enough for a table that goes
stale, is passed by an update that leaves a day out, and catches up, for the
update asks for two days. Deadlock is checked. Fairness: the update comes round
again, threads and robots go on.

`ClaimsHaveNoBias` compares the prompt of every method on every path with the one
on the path upside down: with bars enough for the slowest average each statement
is the opposite one, unless there is a tie (`Tied`), and the regime calls for
the same methods, but for `volume_breakout`, which a strong uptrend calls for and
a strong downtrend does not (`core/market_regime.py:12`). With fewer bars the
average that is missing is zero, and what is left is that the averages are never
said to fall, nor the market to be in a strong downtrend. It is about the
statements, not about the rules a template goes on to give: those are text of
the model's, which nothing here reads, and not all of them are even-handed
(section 14); nor about templates the operator has edited, nor about
`build_prompt_fallback`, which is used where a template is missing or cannot be
filled in.

## 13. What is proved

`OrderSubmission_proofs.tla` proves, for every number of rows, tickers,
brackets, threads, synchronisers and crashes, every limit and every set of
faults, under `ConstantsAssumption` only:

| Theorem | Statement |
| --- | --- |
| `TypeCorrect` | `Spec => []TypeOK` |
| `Placement` | `Spec => []SavedBeforePlaced` |
| `Tracking` | `Spec => []LocalNeverAhead` |
| `Reporting` | `Spec => []SubmittedIsReal` |
| `Exclusion` | `Spec => []OneQueuedPerTicker`, if `"read_error"` is not among the faults |
| `LiveOrdersAreTracked` | `Spec => []LiveIsTracked` |

None of these is inductive. `IInv` adds what a thread at a given point knows:
it has a row (`JobsKnown`), inside `submit_signal` it holds the lock of the
row's ticker (`LocksHeld`), its bracket is on disk and its own
(`BracketsSaved`, `RowsSaved`), and between the duplicate check and the insert
its ticker has no QUEUED entry (`Checked`: whoever could insert one would hold
the same lock). For the exchange: an accepted reply, a thread that records one
and a thread that reports one imply an order the exchange has
(`AcceptedIsReal`, `MarkingIsReal`, `ReportedIsReal`), and the answer a
synchroniser still has in hand is one the exchange has reached (`FoundIsReal`).
Two facts about steps carry most of the argument: no statement deletes a row or
rewrites an owner (`RowsKept`), and the exchange only moves an order forward
(`ExchangeKept`), so that a stale answer may be old but never false. There is
one lemma for each conjunct, with one step per action that can disturb it, and
the `…Frame` lemmas say which steps leave a group of variables alone.

`Exclusion` needs its assumption: with read errors the duplicate check answers
"nothing open" and the property is false.

`LiveOrdersAreTracked` needs more, in `TInv`: two threads never work on one
bracket (`OneBracket`); the exchange has not heard of a bracket that was not
sent (`UnsentIsUnknown`, `SentIsUnknown`); and, if no reply is lost and no write
fails, one that failed or is being marked as failed it does not have and will
not hear of again (`FailedIsUnknown`). `ComesStep` says how a thread can come to
each of these points.

`BybitWorker_proofs.tla` proves, for every set of requests and every value of
the timeouts, under `ConstantsAssumption`:

| Theorem | Statement |
| --- | --- |
| `WorkerTypes` | `Spec => []TypeOK` |
| `NoLateStart` | `Spec => UnstartedNeverStarts` |
| `WorkerServes` | `Spec => Service!Safety`, the refinement without its fairness |
| `WaitOnLoopInVain` | a wait of the loop's own thread ends by its timeout, and its operation has not begun |
| `OneAheadAnswered` | `Spec => []OneAheadIsAnswered`, if `InnerExtra =< OuterExtra` (2 and 5 seconds in the code) |

The invariant `WInv` says what the parts of the worker know of each other. What
is queued is there once and untouched (`QueueClean`), so that taking it begins
its only operation; the worker has a request in hand just while it waits for the
executor (`HandKnown`), and nothing else can be waiting in the executor
(`PendingInHand`), so that the executor never begins what was given up; a request
that was refused or never queued has no operation (`UnqueuedUntouched`); and a
caller knows no more than its future, which knows no more than the operation
(`CallFollows`); a request the loop's own thread waits for has not reached the
queue (`BlockedKnown`). The lemmas `SeenAs…` say which step of the service a change of
`call` and `op` is; `StepServes` goes through the actions with them.

`OneAheadAnswered` is about time. `Left` is the longest the worker may still take
over a request that had at most one other ahead of it, from the timer of what it
has in hand and its place in the queue; `AInv` says that both timers of its
caller outlast that by the margin, less what the loop was occupied for
(`TimersEnough`), that such a request is never more than one from the front
(`ShortInFront`), and that whatever a caller waits for is in the queue or in hand
(`WaitingIsHeld`). While the worker runs, a step is a tick, an arrival, a
take, an end or a wait (`RunningStep`): one lemma for each. The hypothesis is needed:
a thread hands its request over and waits outside of the wait of the coroutine.

`TransactionLog_proofs.tla` proves, for every set of entries and threads and all
times, under `ConstantsAssumption` (the exchange's delay is at most the overlap,
which is positive):

| Theorem | Statement |
| --- | --- |
| `TypeCorrect` | `Spec => []TypeOK` |
| `NothingIsMissed` | `Spec => []NothingMissed` |
| `EverySyncIsComplete` | `Spec => SyncIsComplete` |

The invariant `LInv` follows a synchronisation along its range: what lies before
its cursor, and was shown when it began, it has or the table has
(`PassedIsHere`, `PassedIsGot`). At the beginning that is `NothingMissed` itself,
for the range begins an overlap before the mark (`BeginsWithNothingBehind`); a
window adds what is due in it (`WindowIsDue`, with `ShownInTime`), a further page
loses nothing (`PageIsDue`); at the end the cursor has passed the time noted at
the beginning (`WholeRange`), and that time becomes the mark. No step of another
synchronisation disturbs this, because `stored` and `missed` only grow, so the
slower of two may write its mark last.

`ProviderAccuracy_proofs.tla` proves, for every path of the market, any rows,
logs, evaluators, passes and edits, under `PerDayAssumption`, `EdgeAssumption`,
`MarketsAssumption` (positive prices, a bar spans its opening and close),
`SignalsAssumption` and `RatingAssumption` (a smoothing of 0 to 100 percent, finitely many
logs):

| Theorem | Statement |
| --- | --- |
| `BarsStaySound`, `VerdictsStaySound` | `RatingSpec => []BarsAreSound`, `RatingSpec => []VerdictsAreSound` |
| `AccuracyStaysEarned` | `RatingSpec => []AccuracyIsEarned` |

`EInv` follows a verdict from the list to the table: what is judged was
`Founded` when it was judged – on fetched bars, all later than the signal – and
stays so while it is held by an evaluator whose row another one has judged
meanwhile. What a verdict says then follows from what it rests on, without
looking at how it was reached: the lemmas on joined bars, on the two rules and
on gains are about bars only. `RInv` says of the accuracies that each, in the table, in a
pass or in the operator's hands, is one that as many outcomes as are counted lead
to (`Earned`). `Reachable`, the function that says which those are, is recursive;
what holds of its values is proved by their least counterexample (section 15).

`ForecastPipeline_proofs.tla` proves, for any runs, tickers, settings and rows,
under `PipelineAssumption`:

| Theorem | Statement |
| --- | --- |
| `OrdersAreAlwaysEarned` | `Spec => []OrdersAreEarned` |
| `SettledRowsStay` | `Spec => SettledStays` |

`PInv` says what a thread at each stage holds: a run that is about to save a
pending row has a direction, one that activates has no enforced rejection, and
one the table shows running is at work while the server is up, or its last write
was lost (`RunOK`); an activator that has read a pending row read one that was
fresh (`ActOK`), and rows are pending only if fresh (`RowsOK`). Each step that
writes has a case for the write that fails and changes nothing. The frame lemmas say
that a step of one thread leaves the stages of the others alone.

The same module proves of the prices, for any robots, tasks, windows, days and markets,
under `HistoryAssumption`, `MarketsAssumption` and `PeriodsAssumption`:

| Theorem | Statement |
| --- | --- |
| `PricesStaySound` | `RobotSpec => []PricesAreSound` |
| `ClaimsStayFair` | `RobotSpec => []ClaimsHaveNoBias` |

`GapOnlyAfterPause` is not inductive, for a gap comes into the table with what a
task read long before. `HInv` says of the bars in hand what the property says of the
table: a day that is left out, or unfinished, is there by now, or the later bars
were fetched `Short` days after it (`HeldIsFounded`); and as long as no other
task has stored, they are the newest there are (`HeldIsNewest`), which is also
why a forecast that is not `behind` is as recent as the table. `ShortIsEnough`
and `BackfillIsEnough` are the two ways to ask far enough back. `ClaimsStayFair`
needs no more of the state than that a view has days and that they have bars; the rest is about
readings: sums of opposite numbers are opposite (`TotalOpposite`), gains of the
one are losses of the other (`RsiIs`), rises of the highs are falls of the lows
(`MovesAre`), and so the statements, one lemma for each: as strong a trend
(`StrengthsAlike`), the other side of the average (`SidesOpposite`), the reason
turned round (`RationalesOpposite`), together `ClaimsOpposite`. `MethodsOpposite`
has the regimes' methods with their one exception, `ClaimsOfFew` what is left with
too few bars.

And of the numbers, for any models, answers, weights, market price, thresholds,
overrides, balances, risk settings and instruments, under `AnswersAssumption` (a
positive market price, answers of the form the parser gives them),
`SituationsAssumption`, `RiskAssumption`, `RequestsAssumption` and
`InstrumentAssumption` (the least quantity is a whole number of steps and not above the
greatest, as the exchange publishes them):

| Theorem | Statement |
| --- | --- |
| `TradeSound` | `ManualSpec => []TradeIsSound` |
| `VoteFair` | `ManualSpec => []VoteIsFair` |
| `OrderSound` | `ManualSpec => []OrderIsSound` |

The invariant `SInv` is small: what a run has gathered are `Sound` forecasts, its
consensus is the vote on them under the thresholds of its regime (`VoteInv`), and its
order is what the instrument leaves of a size computed from levels that are there
(`OrderInv`; for the operator's own levels because his sizer refuses the others).
The work is in the algorithms. A median is two ranks, and what holds of each
forecast holds of ranks: they keep an order between two levels
(`RankedBelow`), and since the ranks of a median add up to one more than there are
forecasts, the target and the stop of *different* forecasts still pay together
(`RankedCovers`, by counting: enough forecasts are above the one rank and below the other to
have one in common). The reflection takes the k-th smallest to the k-th
greatest (`RankedReflected`). Weights are sums in any order (`SumAnyOrder`), so
the sides weigh no more than all (`SumOfTwo`); with `RoundedShare` a
tie never passes a threshold above one half, the only place where the vote prefers
LONG (`TieIsFiltered`). Rounding a level keeps order (`RoundOrdered`), moves it by no
more than half a unit (`RoundIs`; `RoundedPair` has both for two levels); reflected at a price that is itself a
whole number of units it is the reflected rounding, ties to even included
(`RoundReflected`). `NormalizedIs` has the roundings: down to steps, to the nearest tick,
and again.

`Runtime_proofs.tla` proves, for any tasks, intervals, pool size, models,
methods, retries and thresholds, under `SchedulerAssumption`, `CallsAssumption`,
`ThresholdsAssumption` and `RuntimeAssumption`:

| Theorem | Statement |
| --- | --- |
| `ThreadsAlwaysAgree` | `Spec => []ThreadsAgree` |
| `RestartsKeepSchedule` | `Spec => []RestartKeepsSchedule` |
| `StoppedServerIsQuiet` | a process that is gone has no pool thread, one that stops has no loop and no queue |

`RInv` adds that no job waits twice or while it is done (`QueueOnce`), that a job
in the pool of a running server is awaited by its loop (`WorkIsAwaited`), and what
a stop leaves (`StoppedIsQuiet`): so a loop cannot come round while its job is
under way. The scheduler's part and the callers' part are two invariants
(`SInv`, `AInv`) that meet where a forecast run begins and ends with its thread.

`Console_proofs.tla` proves, for any threads, operations, clients, operators and
bounds, under `TradingAccountAssumption` and `ConsoleAssumption`:

| Theorem | Statement |
| --- | --- |
| `OrdersAlwaysFollowSettings` | `Spec => []OrdersFollowSettings` |
| `TabsAreAlwaysTrue` | `Spec => []TabsAreTrue` |
| `OperationsHaveOneOwner` | at most one thread of an operation is between its start and `on_finished` |

`AccountInv` says that whatever the client, a job or a submission has read
was at some time chosen by the operator (`ClientIsChosen`, `ReadsAreChosen`,
`ModeIsChosen`), for a read that fails gives the harmless value, and that while
nothing is stored what a submission has tested still holds (`TestsStillHold`).
`ActivityInv` is `OneOwner`: who owns an operation holds its control.

`Maintenance_proofs.tla` proves, for any threads and symbols, under
`ThreadsAssumption` (the names of the start, the tools and the tasks are different):

| Theorem | Statement |
| --- | --- |
| `UpgradesAreSound` | `Spec => []UpgradeIsSound` |
| `ResetsAreSound` | `Spec => []ResetIsSound` |

For the upgrade, `UInv` says what a thread's place in the script means for
the file: after the first k parts, whatever went wrong, the file is no longer malformed
and the old key is gone (`Known`); after k parts without an error every statement
of those parts has no work left (`WholeTo`). Both survive the statements of the
others because the schema only grows (`SchemaStep`), but for one column and a
malformed table. For the reset, `ResetInv` counts what the tool was told of: once
orders are cancelled none of them rests (`OrdersCancelled`), a position it was
told of is gone, to be closed, or was filled again (`PositionsClosing`).

So every safety invariant and every action property of a passing run is a theorem.
Only model-checked: the liveness properties, with the fairness of `Served`.

## 14. Where the code and its texts disagree

One of these has a run that expects a violation; the others are behaviours the
models contain, which their properties except or allow, and which a reader of
the code should know.

### Orders

- *Limit of open positions* (run `submission_limit`): the count and the insert are
  not one step, and the lock is per ticker (`core/bybit_order_manager.py:535`).
- The trade of an entry marked STALE stays OPEN (`core/sqlite_manager.py:1113`; its
  docstring, :1096, says otherwise): the sub-query compares it with the wrong id.
- An order adopted by the synchroniser after a restart has an empty
  `submitted_at` and turns STALE at once, while live (:1121, :1094).
- A failed `get_positions` closes the trade of every filled entry
  (`core/bybit_order_status_sync.py:273`, :269).
- `docs/PROJECT_DOCUMENTATION.md` promises a lock on the consensus id, which does
  not exist; says that a trade is created when the entry fills (it is created
  with the bracket); and draws an order life-cycle that only goes forward, while a
  late SUBMITTED update can replace FILLED_ENTRY until the next synchronisation.
- The pending-orders task submits although `AUTO_ORDER_SUBMISSION` is off
  (`core/scheduler.py:695`, `README.md:590`), and asks neither for the confidence
  threshold nor for the verdict of the meta-label stage (`docs/META_LABELING.md:14`).
- `ORDER_MODE=paper` with `BYBIT_DEMO=false` and the live profile places live
  orders without the confirmation live mode needs (`core/bybit_order_manager.py:510`,
  `docs/PROJECT_DOCUMENTATION.md:458`).
- A manual order without a limit price is sized as if it entered one percent
  beyond its stop (`core/bybit_order_manager.py:561`), so its risk may exceed
  `MAX_RISK_PER_TRADE_PCT` (`docs/BYBIT_SETUP.md:91`); the quantity the operator
  gives is not used, and the sizer's is cut to whole coins, so that an order of
  less than one coin is refused.
- `MAX_POSITION_PCT` is a fraction, 0.05, where the manager seeds it and the sizer
  reads it, and a percentage, 10.0, where `core/bybit_migrate.py:210` and
  `core/bybit_config.py:52` write it. A file that the operator migrates before a
  manager has seeded it lets a position be ten times the capital.
- A block of a ticker that cannot be read counts as no block
  (`core/storage/repositories/orders_repo.py:83`), so the order of a blocked
  ticker is placed; `OrdersFollowSettings` excepts it (`unread`).
- One cache serves available capital and equity, and
  `BYBIT_CAPITAL_FAILSAFE=deny` is ignored while it is filled
  (`core/bybit_capital_provider.py:191`).

### Worker and synchronisation

- `bybit_request_sync` is meant for other threads than the loop's
  (`core/bybit_worker.py:355`); the portfolio snapshot (`core/scheduler.py:782`)
  calls it on the loop, and every coroutine of the server stands still until
  `Future.result` gives up. `WaitOnLoopInVain` proves that this is so every time.
- An error in one page of the transaction log ends the window, and the mark moves
  past what that page would have brought (`core/bybit_transaction_log_sync.py:321`,
  `core/sqlite_manager.py:482`); so does a synchronisation filtered by currency.
- Every job that needs prices makes the global client anew, although
  `client/tabs/accounts_tab.py:127` says that a restart is needed; an order may be
  sized from one account and placed on another, if settings are stored in between.

### Forecasts

- The recalculation says "identical to scheduler" (`core/consensus_recalc.py:132`)
  and uses the hard-coded default settings (:244). It deletes the first row of
  the day even if that has a live order, and leaves its run `running` when the vote raises.
- The vote reads the free text `exit_target` before the anchored target
  (`core/consensus.py:296`), so a text can put the target on the wrong side of
  the entry, within the anomaly limit. `TargetAhead` excepts answers with text.
- The pending-orders task may submit a row before a run rejects it, or after the
  write of the rejection failed, which the stage only logs
  (`core/meta_label/stage.py:88`); a bracket that was saved and then failed leaves
  its row PENDING for ever (`PendingEnds` excepts it).
- `complete_forecast_run` answers a failed write with `False`
  (`core/sqlite_manager.py:2961`), at which its callers do not look
  (`core/forecast_runner.py:193`, :205, :254, :263), and the clean-up of a start that fails is
  only logged (`server/api.py:62`): a run without a thread is then listed as running
  until a later start cleans up. `RunningIsAlive` and `WorkEnds` except it (`lost`).
- The recalculation inserts its row also after the DELETE of the old one failed
  (`core/consensus_recalc.py:249`), so that the day has two.
- Levels are rounded to fixed places whatever the price: an anchored stop or target
  to 0.01 (`core/multi_model_forecaster.py:63`, :79), the consensus to 0.0001
  (`core/consensus.py:447`). For a coin of a few cents (DOGEUSDT) they may fall on the
  entry or on zero; `TradeIsSound` says how far that goes.
- `volume_breakout` is asked about a strong uptrend and not about a strong downtrend
  (`core/market_regime.py:12`), though its template has a rule for that case
  (`core/sqlite_manager.py:772`). Some rules of the templates have no counterpart for
  the other side (:581, :649, :654, :729). The reason given for a
  regime calls the averages "not stacked" and speaks of a price "below" the
  average where they are all stacked and the price is on or below it
  (`core/market_regime.py:110`).
- `ai_client.py:74` imports the circuit breaker by a name that does not resolve
  in the server, so there it is neither tested nor fed. HALF admits all callers
  (docstring: one).

### Judgement

- "If both hit same day → stop wins" (`docs/PROJECT_DOCUMENTATION.md:420`) holds for
  the logs only (`core/actuals_evaluator.py:141`). For a consensus the level nearer to
  the opening counts as hit first (`core/consensus_evaluator.py:501`), and within an hour
  the target (:209). `RulesAgree` and `LogIsStricter` state what the three have in common.
- For horizons of several days the stops hit on the days in between do not
  count; whether the entry was ever filled is not asked; a bar that opens on a
  level and reaches both is undecided.
- `NO_DATA` is written without looking, so it may overwrite `EVALUATED`, until
  the next evaluation (`EverySignalIsJudged` says that the row is judged for good in the end).
- A forecast judged on the bar of the current day is counted into the accuracy
  by every pass of that day, one judged on an earlier bar never; overlapping
  passes lose outcomes. `AccuracyIsEarned` states what remains.

### Data, database, client

- The staleness test looks at the table, not at the bars in hand
  (`core/pipeline/stages.py:16`); a bar cached yesterday is fresh, so the "hourly"
  update does nothing for up to two days (`README.md:611`); with fewer bars than
  the slow average the average is zero and the price "above" it; `calculate_atr`
  averages the oldest bars (`core/indicators.py:41`). A cache that cannot be read is
  taken for an empty one, so bars are fetched that are there
  (`core/bybit_data_loader.py:350`).
- A new file gets no migration until the second manager; a crash after the
  tables and before the seeds leaves the seeds out for ever; a clash of two
  managers ends one's part, to be completed by a later one.
- The reset tool takes an empty list for "nothing open" though the call failed.
- `on_finished` gives the control back before the manager has forgotten the
  activity (`client/activity_runtime.py:187`). `PUT /tickers` replaces the row and
  with it the sector and `trading_blocked`.
- Two requests for the robot that both find it free both start it
  (`server/robot.py:178`); the second run's end may find the first still at work.

## 15. What is not modelled

- *WebSocket client* (`core/bybit_ws_client.py`): no module of the server imports
  it, so its reconnection cannot run.
- *Meta-label features and model*: floating point and an external model file; the
  verdict is an input of `ForecastPipeline`.
- *Notifications, logging, layout, the wording of prompts*: written and not read back by anything with a
  state of its own.
- *`migrate.py`, `drop_ib_legacy`, the repair and diagnosis scripts*: run by hand,
  once, on a stopped server. SQLite's busy errors are modelled where a read that
  fails changes what happens (`read_error`), not in the schema upgrade.
- *Functions nobody calls*: `sync_orders_with_bybit`, `close_position` and
  `cancel_order` of the order manager, `run_full_sync`, `get_provider_weights`, the
  predicates of `bybit_config`, `_block_ticker`.
- *The cancel endpoint* (`server/routers/orders.py:71`): it answers 500 after a
  success and touches no local row, so the synchroniser sees what it did as an
  order the exchange cancelled, which the model has.
- *An abort of a whole synchronisation* by an exception outside its loop, and the
  write lock held when a row fails between update and commit.
- *The pid file* (`core/single_instance.py:28`) is tested and written in steps;
  the models take it to exclude a second process.
- *Endpoints that only read.*
- *The portfolio rows and the account history*, which nothing reads to decide.

Out of reach of the prover, and left to TLC: liveness, which rests on fairness
and on `ENABLED`. The library's theorems for induction take the property as a parameter and
cannot be used; where something recursive has to be known for every input – the
sums behind the indicators, the accuracies that outcomes lead to, the n-th day of
a history – the proofs take the least counterexample instead, which exists
because `<` on the naturals is well founded (`LeastIsThere`, `NoLeastSet`), and
show that there is a smaller one. The recursive function itself is a `CHOOSE`,
so that one such function exists has to be proved first (`SumExists`).
