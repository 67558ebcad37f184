# Formal model of the trading platform

This directory models the parts of the platform that move orders, positions and
money, checks them with TLC on small instances and proves some of the results
with TLAPS for every value of the constants. Paths are relative to `src/`;
`app/` stands for `src/backend/app/`.

## 1. The system

Two operating-system processes share one PostgreSQL database and one Zerodha
(Kite Connect) account (`docker-compose.yml`):

* the **API process** (FastAPI under uvicorn): the HTTP handlers run in a
  thread pool, the live ticker, the monitor loop and several schedulers run as
  asyncio tasks, and reconnect resyncs run in threads of their own;
* the **worker process** (`python -m app.workers.main`): one thread that polls
  for ever (`DeploymentWorker.run_forever`).

Each process has its *own* copy of the in-memory singletons `RISK`
(`live/risk.py`), `OMS_ENGINE` (`live/oms.py`) and `BREAKERS`
(`live/circuit_breakers.py`). Nothing but the database and the broker connects
the two processes.

`SessionLocal` is made with `autocommit=False, autoflush=False` and the default
`expire_on_commit=True` (`app/db/session.py`): a session keeps the attributes it has loaded
until it commits, rolls back or closes.

### Inventory

| Component | State | Operations | Interacts with | Hard behaviour | What makes it correct |
|---|---|---|---|---|---|
| Order router and guard (`execution/`) | the `orders` rows of the open session | `submit`, `_execute_live`, `_record_rejected`, paper and simulation executors, `assert_live_trading_authorized` | RISK, BREAKERS, OMS, broker client, DB | a broker call between flush and commit; state checked before the call and used after it | no order past a halt, a limit or a stopped deployment; one order per intent |
| Broker client (`brokers/zerodha/`) | token, rate buckets | `place_order`, `get_orders`, `get_positions`, the retry loop | Kite | retry of a POST whose answer was lost | a submitted order exists at most once |
| OMS and reconciler (`live/oms.py`, `live/reconciler.py`) | `OMSOrder` per internal id | `register`, `mark_submitted`, `apply_broker_status`, `adopt_unclaimed`, `reconcile` | router, DB, RISK, Kite's book | timeouts, adoption, failing commits, restart with empty memory | each broker order settles one row, once, with its real fill |
| Risk engine and breakers (`live/risk.py`, `live/circuit_breakers.py`) | limits, counters, positions, kill flags; tripped reasons | `evaluate`, `record_*`, `kill*`, `sync_positions`; `trip`, `clear`, `observe`, `force_clear_all` | router, monitoring API, monitor loop | check and bookkeeping in separate critical sections; two processes; day roll | caps and halts hold for every accepted order |
| Live engine (`live/engine.py`) | ticker, tasks, system tokens | start, subscribe, monitor, resync, stop | Kite WebSocket, HUB, BREAKERS, OMS | tasks and threads, reconnect | resync never loses fills; one ticker |
| Deployments and worker (`services/deployment_service.py`, `workers/runner.py`) | `Deployment.status`, runtimes, last bar | create, deploy, pause, resume, stop, clone; `tick` | DB, strategies, router | worker's cached row against API commits | only legal status changes; a stop stays a stop |
| Monitoring API (`api/v1/monitoring.py`) | none of its own | kill switch, breaker override, flatten | RISK, BREAKERS, OMS, broker | acts on the API process only; retried by hand | a halt stops orders; a flatten ends flat |
| Paper account (`paper_account/`) | account, orders, positions, holdings, cash book | place, fill, cancel, modify, retry, exit, add funds, reset; scheduler, reconcile | prices, DB | partial closes and flips; overlapping sessions | money is conserved; what reconcile rebuilds is what is stored |
| Auto-trade bridge (`paper_account/algo.py`) | the tags of orders, the day's halt | take ideas, protect, close, square off | market scanner, paper account | keeps no record of its own; a spread is two orders | caps; no naked leg; no stop without a position |
| Market data (`market_data/`, `services/market_data_service.py`, `live/market_stream.py`, `live/bar_builder.py`, `live/indicators.py`, `websocket/`) | last ticks, subscriptions, bars, candle cache | subscribe, publish, reconnect, bucket, page | Kite, browsers, indicators | lost ticks, reconnect, reference counts | every subscriber of a token is fed; bars partition ticks |
| Options strategies (`services/options_strategy_service.py`, `workers/options_scheduler.py`) | instances and legs | create, approve, enter, monitor, exit, recover | quotes, DB | restart between legs | a leg is entered and left once |
| Adaptive options (`adaptive_options/`) | runs, snapshots | select, size, adjust, exit | chain data, DB | scheduler against handlers | risk bounds of a run |
| Baskets (`baskets/`) | definitions, versions, tagged orders | score, weight, deploy, rebalance, undeploy, backtest | market data, paper account | long rebalances between loop and requests; restarts inside one | a drift is bought once; a period is neither lost nor done twice |
| Notifications (`notifications/`) | outbox rows, an advisory lock | enqueue, send, retry, daily summary | Telegram, every API process | at-least-once sending; the lock belongs to a connection | no message lost; sent twice only where a fault explains it |
| Market scanner (`market_scanner/`) | scans, tracked setups | scan, track, expire | ticks, DB | tick order | a setup ends once |
| Leaderboard, seasonality, screener, discovery, tuning, robustness, regime, insights, IMIE, order flow, Chinese transformer, arbitrage | stored studies, refresh state | batch computation, refresh control, versioning | DB, market data | overlapping refreshes | a finished result is never half replaced |
| Backtesting (`backtesting/`) | simulated book | replay bars, fill, cost | candles, strategies | order of fills in a bar | cash and positions add up |
| Strategies (`strategies/`) | indicator state per runtime | `on_bar` | worker, backtests | warm-up, session bounds | numeric |
| Schemas, models, repositories, audit, changelog, configuration, alembic, frontend | rows, forms | CRUD | all | little | field validation |

Further points that are hard to test, beside those listed as hazards in
`PROJECT.json`: a 4xx refusal is handled as a timeout and leaves a PENDING row
(`app/execution/router.py:176`); `in_flight_fingerprint` and `record_realized_pnl` have no
caller, so the one never blocks an order and the daily-loss cap never fires;
a drop of the feed between two samples of the monitor is never seen
(`app/live/engine.py:120`); a stop and a new deploy between two polls keep the old
runtime (`app/workers/runner.py:138`) and bars missed while PAUSED are replayed
(`:268`); `recent_bars` returns the forming candle (`app/market_data/live.py:30`);
tokens count as subscribed before the ticker runs (`app/live/engine.py:221`); a tick
with an older time opens a bar in the past (`app/live/bar_builder.py:59`); a full
client queue drops its oldest message (`app/live/market_stream.py:119`); a lost quote
leaves COMPLETE leg orders under a FAILED instance
(`app/services/options_strategy_service.py:193`); the options recovery is not tried
again when it raises (`app/workers/options_scheduler.py:59`); duplicate position rows
are merged by a later reader (`app/paper_account/engine.py:247`).

## 2. The modules

| Module | Models | Proofs |
|---|---|---|
| `OrderRows` | what a reader of `orders` and `trades` may rely on (abstract) | |
| `LiveOrders`, `MCLiveOrders` | router, broker client, OMS, reconciler and rows of the live path; implements `OrderRows` | `LiveOrdersProofs` |
| `TradingHalt` | kill switch, breakers, monitor loop and router over two processes | last part of `RiskGateProofs` |
| `RiskGate`, `MCRiskGate` | limits and bookkeeping of `RISK` around `submit` | `RiskGateProofs` |
| `Deployments` | service, worker loop and the worker's session | `DeploymentsProofs` |
| `PaperAccount`, `MCPaperAccount` | orders, fills, lots, margin and cash book of the paper account | `PaperAccountProofs` |
| `PaperAlgo`, `MCPaperAlgo` | the bridge from scanned ideas to the paper account, with tracker and user | `PaperAlgoProofs` |
| `OptionsInstances` | instances of the scheduled options basket, worker and operators | `OptionsInstancesProofs` |
| `Notifications` | outbox, loops, advisory lock, daily summary | `NotificationsProofs` |
| `Baskets`, `MCBaskets` | baskets deployed in the paper account: loop and requests | `BasketsProofs` |
| `Backtest` | the engine's replay and the round trips read back from it | last parts of `PaperAccountProofs` |

Where components meet, one module holds both sides: `LiveOrders` has router,
OMS, reconciler and database; `TradingHalt` the API process and the router;
`Deployments` the service's requests and the worker's session; `PaperAlgo` the
scanner's tracker, the bridge and what else moves the account's positions;
`Baskets` the loop and the request threads over one account.

### `OrderRows` and `LiveOrders`

`OrderRows`: a row appears once, as PENDING or OPEN, settles at most once, and
its Trade is committed with its COMPLETE status. `LiveOrders` is the path that
implements it.

| State | Code |
|---|---|
| `pc`, `cur`, `tries`, `book` | where the worker's single thread is: in `_raw_request`'s retry loop, in the reconciler's loop, or between |
| `rq` | symbol, side and quantity of each order: what `adopt_unclaimed` compares |
| `oms` | `OMS_ENGINE._orders`: state, broker id, filled quantity |
| `broker`, `nextId` | Kite's order book (external) |
| `db`, `sess`, `risk` | committed `orders`/`trades` rows, the open session's view, and the position book of `RISK` |

| Action | Code |
|---|---|
| `Submit` | `_execute_live` up to the broker call: flush, `register` |
| `Accepted`, `Retry`, `Failed` | the three ends of a POST attempt, each with the broker having taken it or not; `mark_submitted` and the commit are part of it |
| `StartPass` | `reconcile` up to its loop: `get_orders`, then `adopt_unclaimed` |
| `Fold` | one turn: `apply_broker_status` and `_persist_terminal`; the rest of the worker and the broker move between turns |
| `FoldRaises`, `EndPass` | the read in `_persist_terminal` raises; the commit, which may fail |
| `Crash` | a restart: OMS, RISK and session are new, rows and broker stay |
| `Advance`, `Foreign` | the exchange; an order of the account placed elsewhere |

`Moves` gives the broker statuses one representative for each class
`_KITE_MAP` tells apart. A fold over an entry that no live order follows
changes nothing and is left out of `book`. At this commit no caller constructs
a router for a LIVE deployment (the worker skips them, `app/workers/runner.py:128`):
the path is modelled as `_execute_live` and its tests run it.

### `TradingHalt`

The two halts of `OrderRouter.submit`. `globalKill`, `killed`, `reasons` and
`override` are indexed by process, as the singletons are. The operator's
endpoints and the monitor loop act on the API process; `ReadHalted` and
`EvaluateKills` read the process `Router`, which is the worker: nothing else builds
a router. `observe` takes the lock of the breakers
once for the feed and once for the age of the data, so it is two actions with
the reading kept in `monitor`. `submit` remembers whether a halt was on when
it began, and `asked` what the operator asked last, for the property only.

### `RiskGate`

One paper deployment. `evaluate` and `record_submitted` each take the lock of
`RISK`, so they are two actions and time passes between them; each rolls the
day first. `Execute(outcome)` is the rest of `submit`: `record_submitted`, the
executor's commit, and `record_fill`. Between the last two the row, which the
commit has expired, is read again (`app/execution/router.py:120`), and that may
raise: the order is committed and the position book never hears of it
(`"unheard"`). `log`, `net`, `carried` and `missed` are history: what passed, what
was committed, what had been when the process started, and how much of each
instrument the book missed. Left out: the lengths of the deques, a clock set back,
the notional cap (market orders have no price), the daily-loss cap (nothing
feeds it), kills (`TradingHalt`).

### `Deployments`

`row` and `audit` are committed. `Check` and `Write` are the two halves of
`_transition`: no row lock is taken at the read, so another session may commit
between them. The worker's poll is `Load`, then for each deployment `Begin`,
its bars, `Done` or `Raise`, and `Finish` (or `FinishFails`, its commit), all in
one session. A bar without an order is `Feed`; one with an order is `Place`, the
executor's commit, and `Record`, which comes after the reload of the row and
the flush of the audit row and takes the bar for seen: the tick may end between
the two. `cached` are the statuses the session holds until the commit of an order
expires them, `dirty` the ERROR rows flushed and so locked, but not committed.
`Raise` is an exception that leaves the session usable; `Abandon` a database
error, after which the handler raises as well: the tick is lost and the runtime
stays with the `last_bar_ts` it had. `on`, `last` and `traded` are the
runtimes, and `torn` the bars whose order was committed in a tick abandoned before
they counted as seen. One instrument and at most one order a bar per deployment; a strategy
is any choice of order or none at each bar. The row lock a heartbeat's update
takes is left out: it only delays a request.

### `PaperAccount`

`acct` is the account row, `orders` the order rows, `lots` a holding (delivery)
or a position (MIS, futures, options) with its cost, quantity and blocked
margin, `funds` and `ledger` the cash book's rows by kind, `log` the trade rows
as totals. `Place`, `Cancel`, `Modify`, `Retry`, `ExitPosition`, `AddFunds` and
`Reset` are requests; `CycleStart`, `CycleFill` and `EodRoll` are the
scheduler's cycle, one order at a time with the quotes taken at its start.
`Flipped` and `Reduced` are the two branches of `_apply_position` on which cost,
profit and margin are split. The square-off at 15:20 is a series of
`ExitPosition`.

Requests and cycles are taken one at a time (`Quiet`). Nothing in the code
enforces that: see the divergences. A stop-limit order fills at its limit, as
`_price_for` and the fill do. Charges are one rate per kind; `realized_pnl` of
a holding, the T+1 quantity and the day's mark are left out of the lots.

### `PaperAlgo`

The bridge keeps no record of a trade: `net` is, per idea and leg, the sum of
its completed tagged orders, `acted` the ideas that have an order, and `shares`
what the account holds in delivery, which the user sells without touching a tag.
A cycle takes ideas (`StartTaking`; `TakeEquity`, or `BuyLeg` and `SellLeg`, for
each; `EndTaking`) and closes them (`Visit`, `ExitFills` or `ExitRejected`, `Drop`,
`EndManaging`). `room` and `seen` are the locals of `run_once`: the places left,
counted once, and the pairs taken. `Scan` and `Track` are the market scanner,
`SellByHand` and `CancelStop` the user. Quantities are one unit.

One order with its commit is one step, and what follows the commit another.

* What raises after an entry's commit (the refresh in `place_order`, the order of
  the stop) is caught in `run_once`, which goes on without `room -= 1` or
  `seen_pairs`: `TakeEquity` has that outcome, and `uncounted` remembers the entry
  until a cycle finds no more ideas open than it may.
* The loop has one session for its whole life. `Drop` cancels the stop in that
  session only (`dropped`); the database still has it open, so it may still fill.
  Whatever the loop commits next writes it (`Commits`: an order, the strategies
  before the bridge, the baskets after it), a rollback (`OthersRollBack`,
  `BridgeRaises`) or a `Restart` forgets it, and `torn` remembers the stops left
  open in that way.

The bridge asks neither for the account's margin positions nor what the 15:20
square-off did to them, so orders on margin are taken either way, the square-off
is one of the `Others`, and of the positions only `shares` decides whether an
order is rejected. `_take_futures` differs from `_take_equity` in the instrument. Whether
the cut-off has passed, the switch is on and the loss stop is reached are free
choices at each cycle. Left out: the user's modify and
retry of an order of the bridge, which keep its tag: the stop of a closed idea
that a user retries rests without an entry, and `StopHasEntry` does not speak of it.

### `OptionsInstances`

Each thread has a session: what it read of an instance, then a quote call, then
what it writes. `PassStart`, `Visit` and `Finish` are a pass of the scheduler
(worker, or the endpoint that runs one); `Request`, `ManualExit`, `Evaluated`
the operator's calls. `Lost` is a quote missing part-way through an entry,
`Raised` an exception that is logged with the flushed legs still in the
session, `Fail` a commit that fails or a restart. `legs` holds the net lots of
committed orders. An instance is `shared` when one session wrote it while
another held what it had read: two sessions really do close one basket twice,
or revive it. The properties speak of the others: a late session of whatever kind
takes its instance out of them, and what they say is that nothing but such a
session does harm.

### `Notifications`

`rows` is the committed outbox, oldest first. `LoopFetch` takes the oldest due
rows, `SendOne` sends the first still to do, `CommitBatch` writes the outcomes of
all; a batch is the set `todo`, the rows as `loaded` and as they are `now` in
the session. `SendTest` empties
the same outbox from a request. `Acquire` takes the advisory lock; `Recycle` is
the pool retiring the connection that holds it, after which the loop goes on
while another process may get the lock. `SummaryStart` and `SummaryCommit` are
the daily summary. `got` (what the recipient saw), `doubt` and `split` are
history. A cycle with nothing due does not commit, as in the code.

`enqueue` swallows what goes wrong in it, so `SummaryCommit` may set the day's mark
without a row; `SummaryLost` is the rollback of the loop. `Stops` is a loop that
ends between two cycles or dies. `Cancelled` and `SummaryCut` are `stop()`, which
cancels the loop after five seconds but not the thread of its cycle: the unlock's
commit writes what the session has so far (the batch with the message under way
in doubt; the summary's row without the day's mark).

### `Baskets`

`tick_all` lists the deployed baskets (`LoopList`) and looks at each
(`LoopNext`); a rebalance waits for the gate (`Enter`), reads, plans
(`PlanOrders`) or has no history (`NoHistory`), sends one order after the other
(`Send`), each committed, and stamps the row (`EndRebalance`). `Deploy`,
`Rebalance`, `Undeploy` and `Delete` are requests; `Undeploy` does not take the
gate. `Plan` is the arithmetic of drift band, halving and sells for dropped
stocks; every share costs one unit. `Crash` ends the sessions of a process,
`Abandon` one run of orders: an error other than a rejected order leaves the loop
over them, frees the gate and writes no stamp.

### `Backtest`

`Bar` is the next bar, `SimulatedFill` an order of the strategy at it with the
exposure cap, the fill and its costs, `Mark` the point of the equity curve.
`Headroom` is what the bisection of the cap (`Bisect`, a series of `Halved`)
compares with; `openLots`, `sideOf` and `closed` are the one pass of
`reconstruct_trades`, fill by fill (`Rounds`; `Matched` is its inner loop).
`OpenGross` is the marking at its end: at the last close of the instrument, or, for
one that has had no bar, at the lot's own price (`app/backtesting/trades.py:125`),
where the engine's equity counts nothing (`Unpriced`, the difference). A
strategy may order any instrument at any bar.

## 3. The runs

| Run | Shows | Bounds, and why they are enough |
|---|---|---|
| `orders_safety` | `TrackedIdsDistinct`: two OMS orders never follow one broker order. `OmsReflectsBroker`: the OMS never runs ahead of the broker, although it folds a copy. `RowsRefined`: the rows implement `OrderRows` | two orders of one request (the only case in which adoption can confuse them) of two units (so that part fills exist), two broker ids, one retry, any two faults of crash, database failure and foreign order |
| `orders_live` | `FillsNotInvented`, `BooksAgree`, `OrdersSettle` | the same without crash and database failure, which break them (section 6) |
| `halt_feed` | `LossHalts`, `RecoveryFrees`, types | two deployments, two calls of the operator, three events of the feed: enough for drop, stale and recovery with an override or a restart between |
| `halt_split` | `HaltsRefuse` fails: the router is in the worker | one order after one call of the operator is enough |
| `risk_limits` | `RateCap`, `EqualOrdersApart` over the history; `PositionCaps`, also when the book misses fills | two instruments, four orders, a day boundary before the horizon, one restart; the limits are one order in two units, two in five and three a day, so that each refuses orders the others would let through |
| `deployments` | `StatusAudited`, `TradesAdvance`, `PauseHolds`, `Fed`, `TornDown` | two deployments and threads (a race needs two), three transitions, three bars with a window of two, one fault (one is enough to tear a tick between an order's commit and its bar) |
| `paper_books` | `ReconcileAgrees`, `PnlExplained`, `MarginFollowsLot` | three orders (open, partial close, flip) over a stock and an option, two prices, market and resting orders of one and two lots; uneven prices, so that every split of cost and margin rounds |
| `paper_algo` | `CapHolds`, `StopHasEntry`, `LegsCovered`, `ExpiredCloses` | a swing idea, an intraday short idea on the same stock and the option spread paired with the first, cap one, two days, delivery stock, one rollback or restart: the caps bind and every way of closing meets every other and a clean-up cut short; an entry may raise after its commit at any time |
| `options` | `LegsFollowStatus`, `EndedStays`, `DueExits` | two instances (one near its expiry) since an exception in one spills into the other's commit; worker and one operator |
| `outbox` | `SentWasSeen`, `TwiceExplained`, `OneSummary`, `Drains`, types | two messages, batches of one (so that order matters), two attempts, one close of the market, two processes or a process and a test request, one fault (crash, cancelled loop, failed commit) |
| `baskets` | `NoDoubleBuy`, `ScheduledOnce`, `Cadence` | one basket, two stocks, rankings of one stock and of both (so that a stock's allotment is half or all of the capital), loop and one request thread, three periods, two restarts or errors; cash for two deployments, one stock also held outside the basket |
| `backtest` | `CurveExplained`, `CostsCarried`, `LargestFits` | two instruments that need not have bars yet when they are ordered, two prices, orders of 1, 3 and 5, four bars and three orders: a reversal of a position with a part-closed lot, and a cap that binds |

Every run says `CHECK_DEADLOCK FALSE`: counters of orders, faults, events or
time are bounded, so a behaviour may come to its last state.

Each property has a mutant in the module it is about, beside the definition it
changes: a plausible slip in the code that the property finds.

**Fairness.**

* `LiveOrders`: `WF(Work)`, since `run_forever` polls for ever, and
  `WF(Advance(b))`, since an exchange ends each of its orders by the close of
  the day; submissions and faults are never forced. A pass ends because each
  fold takes an entry off `book`.
* `TradingHalt`: `WF(Observe)`, the loop that sleeps two seconds between
  readings; `<>[]` premises say that the feed stays as it is.
* `Deployments`: `WF(Worker)`; requests, bars and restarts are not forced, and
  exceptions are few by the bound on faults.
* `PaperAlgo`: `WF` for the clock and the steps of the loop, which comes round
  every five seconds, and `SF(ExitFills(i))`: an exit that is tried again and
  again is not rejected for ever. Without the last one nothing closes.
* `OptionsInstances`: `WF(PassStart)` of the worker and `SF` for its visits,
  their end and its exits: quotes and the database do not fail for ever. The
  worker is assumed to be up at some time inside the exit window; the code
  asks for quotes that no longer exist after the expiry.
* `Notifications`: `WF` for the steps of a started batch and for `Acquire`. Lost
  batches are as few as `MaxFaults`: a row whose processing raises every time is
  outside `Drains`, and would hold up its batch for ever.
* `Baskets`: `WF` for the loop and the steps of a session, `SF` for getting the
  gate and for a price history: the threads that wait for a `threading.Lock`
  are served in turn, and market data is not missing for ever.

## 4. What is proved

All for every value of the constants under the assumptions named in the
modules (bounds are natural numbers, sets of identifiers finite where they are
counted, quantities positive).

* `LiveOrdersProofs`, in four layers; each invariant is used by the next.
  * `TypeCorrect`, `TrackingIsInjective`. Injective tracking is not inductive by
    itself: `Accepted` hands the OMS the id `nextId`, so the proof needs that no
    order follows an id at or above it. `IInv` adds `Numbered`: the ids in use
    are below `nextId` and the broker's book is empty from there on, an order
    the OMS knows carries a request, and the order being posted has no broker
    id yet. One lemma per action.
  * `Refinement`: `Spec => RowsRefined`. `RowInv` says how the session's rows may
    run ahead of the committed ones: while folding, a row is as committed or is
    a waiting row that has settled; otherwise they agree, except the one row
    being posted. Then a commit is one `Insert` or one `Settle` of the rows that
    differ, and everything else stutters.
  * `ReflectionHolds`: `OmsReflectsBroker`. The pass folds a copy of the broker's
    book that grows old, and adoption matches on symbol, side and quantity only.
    `BookInv`: an entry of the copy is never ahead of the broker's order, and
    equal to it once that has ended; what the OMS says of an order is never
    ahead of the order it follows, and is about the same request.
  * `FillsHold` (no restart) and `BooksHold` (no failed commit or read), under
    the hypotheses `"crash" \notin Faults` and `"dbfail" \notin Faults`: section 6
    names what breaks each without. A COMPLETE row is a FILLED order of the OMS
    with a broker id (`FillInv`), so tracking maps the completed rows of a request
    one to one to filled orders of the broker, and the count follows from
    `FS_Injection`. `TradeInv`: an order the OMS takes for live has a waiting row
    with no trade, and `RISK` has heard nothing of it.
* `RiskGateProofs`: `RateCap`, the daily cap, `EqualOrdersApart`, `PositionCaps`.
  `IInv` relates the engine to the history: `order_times` is the tail of the log
  that belongs to the engine's day, `orders_today` its length, `recent` has an
  entry for each; and an order that `evaluate` cleared is still clear when it is
  recorded, since only time has passed and windows shrink (`Pending`).
  `RateCap` then follows by counting: `cap + 1` entries of a window would all
  have been counted. For `PositionCaps`, the committed orders of the process and
  the book differ by at most what the book missed of the instrument
  (`BookFollows`), and the book keeps the caps (`BookCapped`).
* `RiskGateProofs`, last part, about `TradingHalt` (which it extends, hence the
  prefix in that module's names): `HaltTypeOK` (`HaltTypes`); the types need that the
  submit under way still has room (`HaltTyped`).
* `DeploymentsProofs`: `StatusAudited`, inductive beside the types; `TradesAdvance`,
  whose invariant says that a bar the runtime traded is no newer than
  `last_bar_ts`, is the one whose order is committed and not yet recorded, or was
  torn and is next after `last_bar_ts` (`Behind`), and that the bars under way are
  newer than it (`Newer`); and `PauseHolds`, for
  which `RanInv` says that a row that is RUNNING, or that the worker's session
  takes for RUNNING, was so at a moment of this tick, and so was the one under
  `_evaluate`.
* `PaperAccountProofs`: `PnlExplained`, the cash book of each instrument
  against its trades, that a flat lot is clean, and `ReconcileAgrees`. The
  invariant also says that a lot's cost is positive with its quantity and that a
  resting order has the prices its type needs. `ReconcileAgrees` equates account
  columns with sums over all instruments: `MoneyMoves` says that a step moves
  them by one fill, by funds, anew, or not at all, and `TotalMoved` that a sum
  moves as its only changed term. The latter is by induction on the size of a
  set. The library's induction theorems take an operator, which no installed
  prover instantiates; here induction is the existence of a least element
  (`WFMin` of the library gives `NatSet`), and that the recursion inside
  `MapThenSumSet` is well defined is proved in the same way (`PartsExist`).
* `PaperAccountProofs`, the blocked margin: `MarginFollowsLot` (`MarginHolds`).
  `_apply_position` splits cost and margin separately and rounds each, so equality
  is not an invariant of the code; the gap grows. An opening fill adds less
  than a rupee to it, and the shares of cost and margin that a partial close takes
  off drift by less than one (`SharesDrift`, from the two divisions); a flip starts
  the gap anew. The bound counts the filled orders of the instrument, so the proof also
  needs that an order fills once and that what has filled stays filled until a
  reset (`RoomKept`).
* `PaperAccountProofs`, the replay of `Backtest`.
  * `CurveHolds` and `CostsHold`. `SimInv`, beside the types: the open lots of an
    instrument add up to its position, on the side it is held, with positive
    quantities; cash and what is `Invested` in the open lots explain the capital, the
    closed profit and the costs (of an instrument that has no bar yet the report's
    marking and the engine's differ by `Unpriced`); the costs carried are the total, or at most that
    once a position was reversed. `MatchedCloses` is about the inner loop of a
    closing fill, by induction on the lots met (`Iterated`): what was closed and
    what is left make up the fill, and the profit, the costs and the lots
    left account for every lot. The curve follows since marking moves the value
    of a position and of its lots alike.
  * `FitsHold`: the window of the bisection always holds the largest part that
    fits (`Narrowed`), and its width falls each round, so that as many rounds
    as shares are enough. A part that fits leaves every smaller one fitting
    (`AddsLess`), also where the first shares close a position: without that a
    bisection could miss the largest.
* `NotificationsProofs`: `SentWasSeen`, `TwiceExplained`, `OneSummary` and the
  types. `BatchInv`: a row of a batch was due when it was read, the session has not
  touched it before it is sent, and has it as sent only when it was seen.
  `DoubtInv`: a row about which no fault or second dispatcher leaves a doubt is in
  one batch at most, and once delivered the batch, or the table when no batch
  has it, says so. `DayInv`: until two loops run at once, or one is cancelled in
  mid summary, there is one loop and the summary it has under way is of a later
  day than any in the outbox. The types need that a summary under way has its place (`Reserved`).
* `OptionsInstancesProofs`: `LegsFollowStatus` and `EndedStays`. `Fits` says of
  every session that what it read of an instance that is not shared is still
  so, and that what it has flushed fits the status it will write.
* `PaperAlgoProofs`: `CapHolds`, `StopHasEntry`, `LegsCovered`, and that the
  daily-loss halt lasts. The invariant: ideas without an order hold nothing
  (`Fresh`), the legs of a spread have one of three shapes (`Shape`), an equity idea
  has one leg; an open stop is of an idea that has acted and holds its entry, or is
  being cleaned up, or was left (`Stops`); at most one idea's orders are under way,
  and where (`Halves`); and while ideas are taken the ideas that hold their entry,
  less the entries that raised after their commit, and the places left are at
  most `MaxOpen` (`Places`).
* `BasketsProofs`: `NoDoubleBuy` and `ScheduledOnce`, under `OneProcess` (all
  sessions share one gate). The invariant: at most one session is past the
  gate (`Locked`), the orders it has still to send take no position past what some
  ranking allots it, as the positions are (`OrdersFit`: an undeploy only lowers
  them, and a trim of half stays below the goal), and the cadence's rebalance of a
  basket is counted once with the stamp of the period (`Counted`).

## 5. What is only model-checked

* Liveness (`OrdersSettle`, `LossHalts`, `RecoveryFrees`, `Fed`, `TornDown`,
  `ExpiredCloses`, `DueExits`, `Drains`, `Cadence`): fairness and ENABLED are beyond
  the prover.

Every invariant that a passing run checks is proved, and so is every action
property that names no fairness; for `FillsNotInvented`, `BooksAgree`,
`NoDoubleBuy` and `ScheduledOnce` under the hypotheses section 4 names.

No module uses a recursive operator.

## 6. Where the code and its words differ

One is a run: `halt_split`. The kill switch and the breakers' override act on
the API process; the router of a deployment runs in the worker
(`app/api/v1/monitoring.py:82`: "stops NEW orders"; `app/live/circuit_breakers.py:4`
"OrderRouter refuses new orders").

The others came up while modelling. The models include the behaviour wherever it
is not said otherwise, and the properties are stated so as to hold beside it. An empty
third column: nothing in the repository speaks of it.

| Code | What it does | What is said |
|---|---|---|
| `app/brokers/zerodha/client.py:194` | a POST that timed out is sent again and may be taken twice; a 4xx is handled as a timeout | `client.py:6` retries "only on 429/5xx", `app/live/oms.py:10` "can't double-submit" |
| `app/live/reconciler.py:73` | a cancelled part fill leaves no Trade and no position | `app/models/order.py:74` orders "can have multiple partial fills"; `oms.py:11` "the source of truth for fills" |
| `app/live/reconciler.py:49` | an outcome is lost when the database fails after the OMS turned terminal | `oms.py:15` "mirrors terminal outcomes onto" the row |
| `app/live/oms.py:248` | after a restart one fill may complete two rows | `oms.py:244` adopts an order "that nothing else is tracking" |
| `app/live/risk.py:87` | after a restart the position book is empty | `app/execution/router.py:118` "subsequent position caps are accurate" |
| `app/execution/router.py:120` | when the reload of a committed order raises, the position book misses its fill, and the caps are off by it (`missed` in `RiskGate`) | `router.py:119` "so subsequent position caps are accurate" |
| `app/workers/runner.py:307` | a bar is taken for seen after its order is committed: when the database fails in between (the reload, the audit row), the runtime is kept and the bar is traded again in the next tick (`torn` in `Deployments`) | |
| `app/workers/runner.py:318` | after a database error the handler raises itself: the deployment is not marked, the ERRORs flushed before are lost, the tick ends | `runner.py:14-15` a crash "marks that deployment ERROR and is contained" |
| `app/paper_account/engine.py:80` | overlapping sessions lose updates of cash; a cycle fills orders cancelled meanwhile (`scheduler.py:93`), an exit asked twice closes twice (`engine.py:476`). Not in the model, which takes one request or cycle at a time | |
| `app/paper_account/engine.py:189` | a closing MIS or F&O order is rejected when the cash is less than an opening one's margin | `scheduler.py:9` "auto-square-off every MIS position" |
| `app/paper_account/algo.py:477` | an exit is decided by tags (`:469`), so a position the user or the square-off closed is closed again, and opens the opposite one; a delivery stock sold by hand is tried for ever; a rejected exit still cancels the stop; spreads are neither managed nor counted towards the cap | `algo.py:8` "the matching paper exposure is squared off" |
| `app/paper_account/algo.py:281` | what raises after an entry is committed skips `room -= 1` and the pair: the next idea may be taken past the cap, and the pair's spread as well (`uncounted` in `PaperAlgo`) | `algo.py:4-6` every idea that clears the configured rules, among them "max open" |
| `app/paper_account/algo.py:499` | the exit of an idea is committed, the cancel of its stop later: a rollback or a restart in between leaves the stop open on an idea that holds nothing, which `manage` (`:469`) does not find again (`torn` in `PaperAlgo`) | `algo.py:488` "drop any still-resting SL child" |
| `app/services/options_strategy_service.py:113` | an instance is found by its basket id without the time stamp, so two may be created for one expiry; `evaluate` may write the status of an entered one (`:151`); a FAILED entry keeps its legs | `:99` "at most one non-terminal instance per (slug, mode, expiry)" |
| `app/notifications/scheduler.py:61` | the lock goes with the pooled connection after half an hour, and two loops run; the same pattern is in the paper account, the market scanner and the screener | `scheduler.py:3` "elects one runner across uvicorn workers" |
| `app/notifications/scheduler.py:92` | `stop()` cancels the loop after five seconds while its cycle goes on in a thread with the session the loop closes: a batch may be sent again, and a summary queued without the day's mark is queued again | |
| `app/baskets/paper.py:553` | a basket undeployed or archived while its rebalance runs is bought again and set back to deployed | |
| `app/baskets/paper.py:423` | an undeploy beside a rebalance, or a second undeploy, sells shares that other orders hold | `paper.py:6` "never mixed with manual trades or other baskets" |
| `app/baskets/paper.py:344` | rejected orders count as placed and the period is stamped; buys come before the sells that would pay for them; a trim of half and a full new position can exceed the capital; two deploys may both pass the funds check | |
| `app/backtesting/engine.py:165` | slippage is in the fill price and again in the costs | `costs.py:52` "applied to every fill, in basis points of price" |
| `app/backtesting/trades.py:125` | an open lot whose instrument has had no bar is reported at its own price, with no profit, while the equity curve (`engine.py:198`) marks it at nothing: report and curve differ by what was paid for it (`Unpriced` in `Backtest`) | |
| `app/backtesting/engine.py:148` | an instrument without a bar fills at another's close, is marked at nothing and is not counted in the cap; a reversal's rest carries no cost, so the trades' costs are less than `total_costs` | |

## 7. Not modelled

* **Numeric code**: strategies, indicators, scores, statistics, regimes, option
  analytics, structure detection, discovery, tuning, robustness, the Chinese
  transformer. The models take their outcomes as arbitrary choices; what they
  compute in floating point is not a question for a model checker. They are most
  of the lines of `app/`.
* **I/O and forms**: market data, instrument import, login, candle caches,
  schemas, repositories, CRUD endpoints, audit lists, the assistant, telemetry,
  the front end.
* **State that is small or elsewhere**: the hub's reference counts and the
  ticker's subscriptions, the resync thread and the emergency flatten (they
  need a live broker session);
  the paper runs of adaptive options (one transaction a tick); the leaderboard's
  refresh control (a status file for display); the strategy editor's child
  process.
* **Of the modelled parts**: `mark_failed`, `mark_rejected` and
  `max_age_seconds` of the OMS have no caller or no effect; the simulation
  executor differs from the paper one only in its price; the guard's settings
  and token checks are the wording of a refusal; the guard reads a stale row
  (`app/execution/guard.py:47`), which `Deployments` includes as `cached`;
  several orders of one bar (`app/workers/runner.py:282`); overlapping sessions
  of the paper account; `recover_live_instances`, which finds nothing as LIVE
  instances cannot be created; metrics over a finished equity curve.
