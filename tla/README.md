# TLA+ verification of the Bybit recommender

This directory holds TLA+ modules that model parts of the application under
`src/app`, TLC configurations that check them on small instances, and TLAPS
proofs about them for every value of their constants.

    tlc -workers 2 -config LeaseSafety.cfg MCRuntimeLease.tla
    tlapm BackgroundProofs.tla

`PROJECT.json` says which configuration belongs to which module, which source
lines every definition stands for, which hazards the properties are for, and by
which mutation of the model each property can be broken.

## 1. Inventory

The program is an advisory trading system. It collects market data from Bybit,
scores ideas, publishes *recommendations* with a time to live, lets a local
language model review them, and keeps an audit of the *bot instances* that an
operator says to have started by hand. Nothing is ordered on the exchange. Every
process runs the same web application plus background threads; several processes
may share one SQLite file or one PostgreSQL server.

| part | state it keeps | operations | interacts with |
|---|---|---|---|
| runtime lease (`db.py` 3883-3976, `main.py` 5351-5559) | row of `runtime_locks` per worker: owner, heartbeat | claim, heartbeat, release, startup reclaim | every background worker |
| supervisor and lifespan (`main.py` 115-157, 5490-5815) | threads, stop event | start, restart after a crash, stop | lease |
| recommender (`recommender.py` 5686-7126) | gate and direction hysteresis, rows of `recommendations` and `recommendation_latest` | one cycle: score, gate, dedupe, annotate, insert | features, calibration, reviewer cache |
| TTL sweep (`db.py` 6605) | status of rows | select, expire | run by the recommender thread and by two API reads |
| LLM reviewer (`recommender.py` 617-1234, `llm_review.py`) | review annotation and status of rows, verdict cache | sweep: fail closed, select, ask, write, save the cache | recommender, operator |
| operator API (`main.py` 5932-6331, 6729-7236) | status of rows, `bot_instances`, `bot_trades`, evidence | execute, ignore, stop, record a trade, record evidence, reconcile | risk limits, Bybit metadata |
| risk limits (`risk.py`) | `app_config` | read, update, gate a candidate | operator API, recommender |
| outcome worker (`outcomes.py` 2174-2710, `main.py` 7885-8105) | `reco_outcomes`, `reco_outcome_observability` | select, label, censor, wait, ask for a settlement | trade journal, candles, funding |
| public trade journal (`trade_stream.py`, `db.py` 5868-6387) | `market_trade`, `market_trade_coverage` | stream batch, REST poll, close session, path lookup, retention | outcome worker |
| collector and backfill (`collector.py`) | candles and the candles derived from them, gap job, funding history and repair queue | hot cycle, gap job, backfill page, repair | outcome worker, warmup gate |
| calibration (`calibration.py`, `recommender.py` 4255-4960) | models in `app_config` | fit, store, load, veto, withdraw | outcome worker, recommender |
| grid and trend replay (`grid_math.py`, `outcomes.py` 581-2170) | none | pure functions of candles, trades and settlements | outcome worker |
| features, direction, regime, shock guard, router | hysteresis state of the recommender | pure functions over that state | recommender |
| sentiment worker, alerts, trend-event model | posts, cooldown table, model | fetch, alert, fit | recommender |

### What is hard

* **Leases.** The clock is read before the statement waits for the database; a
  statement may fail after it took effect; a process may die anywhere and come
  back under the same owner string; a startup deletes leases of dead neighbours.
* **One table, many writers.** The status of a recommendation is written by the
  recommender, by TTL sweeps in several threads, by the reviewer minutes after it
  read the row, and by the operator. Only the operator's requests lock the row.
* **Chains.** Rows join publication chains (dated by their root) and label roots
  (one pseudo-position per idea); both are decided by reads that are old when the
  row is inserted.
* **Slow or failing answers.** The model may answer late, wrongly or not at all;
  the hold must then end closed.
* **Overlapping evidence.** REST polls and WebSocket batches write coverage of the
  same journal; the stream commits now and then, is rolled back, refreshed and cut off.
* **Two workers on one table.** The hot collector and the backfill write the same candles
  under different leases; a durable job says what is missing, and both write the job.
* **Data that comes late.** Labels, settlements and candles arrive in any order and some
  never; a bounded queue must not be blocked by those, and nothing may be labelled on
  part of them.
* **State kept from cycle to cycle.** Confirmation counts, held directions, cooldowns and
  models are read from `app_config`, changed and written back; cycles fail, are skipped,
  repeat on the same candle, and some state lives in the process only.
* **What a candle cannot say.** A label is computed from four prices where the trades are
  not known, and must not claim more than the trades would have given.

### What must hold, by component

* lease: a worker that confirmed its lease within the ttl is the owner; nobody
  takes a live owner's lease; an orphaned lease is taken over in the end.
* lifecycle: nothing unreviewed or stale can be launched; a closed row stays
  closed; a chain has one running bot; an idea has one labelled row; every row is
  closed or executed in the end.
* execution: caps and one-way direction hold over all ideas; every request ends its
  transaction and names the right bot.
* ledger: an item is booked once and in one ledger; the stored summary is the one of the
  tables; no loss is missing from the risk stream and no unconfirmed profit relieves it.
* journal: a path replayed as exact holds every trade of its minutes, in the order of the
  matches.
* outcomes: ledger and outcomes agree, an outcome counts its funding and is never computed
  again, and every row that can be labelled is.
* candles: every hole is the business of a pending job until it is filled.
* recommender: only a later candle confirms; one bot of a symbol at a time; cooldowns end,
  and end no earlier (a veto's, while candles come on time); samples do not overlap.
* replay: a kept label agrees with the trades; position and loss stay inside what the
  margin was sized for.
* calibration: a model is proved on the future of what it was fitted on, a stored loss is
  not forgotten, and no model acts on a cohort it does not account for.

## 2. Plan

In this order, the most important behaviour first; all of it is done.

| module | abstract specification or companion | proofs |
|---|---|---|
| 1. `RuntimeLease` | implements `ExclusiveWriter` | `BackgroundProofs` |
| 2. `RecommendationLifecycle` | | `RecommendationLifecycleProofs` |
| 3. `OperatorExecution` | implements `OneDesk` | `OperatorExecutionProofs` |
| 4. `BotLedger` | `RiskStream`, what risk control reads of it | `BotLedgerProofs` |
| 5. `TradeJournal` | `CalmStream`, its undisturbed behaviours | `TradeJournalProofs` |
| 6. `OutcomeCycle` | | `OutcomeProofs` |
| 7. `MarketHistory` | | `BackgroundProofs` |
| 8. `RecommenderCycle` | decides by the operators of `SignalRules` | `RecommenderCycleProofs` |
| 9. `OutcomeReplay` | composes `GridLedger` and `TrendPosition`; its reference is the replay of every trade | `OutcomeProofs` |
| 10. `Calibration` | decides by the operators of `CalibrationFolds` | `CalibrationProofs` |

What would come next: the trend-event model and the direction calibrator; the composition of `OutcomeCycle` with `RuntimeLease` for
stalls beyond the ttl.

## 3. Modules

### RuntimeLease

One lock key. `row` and `rowAge` are the two columns of the lock row (an age
instead of a timestamp, so that time may run for ever in a finite state space);
`pc` is where each process's worker is, from the lifespan's reclaim over claim,
heartbeats and commit to back-off, stopping and death. A statement is two steps:
the read of the clock (`ClaimRead`, `HeartbeatRead`) and the effect (`Claim`,
`Heartbeat`, ...), with `lag` the time in between. `conf` is the age of the clock
reading of the last confirmation the worker got: what the worker may rely on.
The reclaim is three steps (`ReclaimRead`, `ReclaimCheckDead`, `ReclaimDelete`).
`Raise`, `Release`, `ReleaseError` and `Stop` are the supervisor's, `Crash` and
`Start` the operating system's. An error of a statement is an outcome of its own,
with and without the effect (a commit that raised after it reached the server).
A process that lost its lease but still computes is not at a place of its own: it
discovers the loss at its next heartbeat (`HeartbeatLost`).

`Reusable` holds the owner strings (hostname and pid) that may come back. Several
theorems assume `ReuseIsSolitary`: where a pid comes back, no other process of
the application runs on that host (a container in which it always has the same
pid; or a host on which pids do not come back while the application runs).

### ExclusiveWriter

What the lease promises, in three lines of state change: one holder, writers among
the holder only, and a change of holder only while nobody may write. The lease
implements it under `holder <- row`, `writers <-` the processes whose last
confirmation is within the ttl.

### RecommendationLifecycle

The rows of one idea, numbered in the order of publication. A publication is
`PublishRead` (persistence gate and dedupe, `Decision`) and `PublishCommit` (the
reviewer's `Annotation` and the insertion). The TTL sweep is `SweepRead` and
`SweepWrite`; the reviewer's sweep is the `Llm...` actions, with the SELECT and the
UPDATE of every row as separate steps, since neither locks the row. Operator
requests are single steps because they lock the row in one transaction.
`blocked`, `suppressed` and `no_trade` are one status, because the code treats them
alike. A model's answer agrees, opposes or is an error; confidence below the threshold is
an agreement. The call may also raise: then every row of the idea gets an error review, the
status it was held for is lost with the hold, and the row ends by the TTL sweep. Ages saturate one tick after the longest bound.

The model covers one label horizon (12 hours; a recommendation lives minutes), so a
label root never matures in it.

### OperatorExecution

Concurrent execute requests. A request submits (`Submit` stands for the reads and the
Bybit metadata before the transaction), begins, and then takes the steps whose order
matters one at a time: `BeginReuse`, `BeginRefuse`, `BeginExpire` or `Begin` (the locked
read of the recommendation and what is decided by it), `CheckCaps`, `CheckOneWay`, and
`Launch` or `InsertRefused` (the insert against the unique index of running bots per
chain; after a refusal `FindDuplicate` looks for the bot in the way), with `Refuse` and
`BusyTimeout` as the ways out. `BeginReuse` and `FindDuplicate` are a SELECT that does not lock
the bot; the status UPDATE, the commit and the reply are the step `Attach` after it. On
PostgreSQL a stop may be committed between the two, so that what the reply says of the bot is
no longer true (divergence 15); on SQLite the writer is alone. `engine` is chosen
initially: on SQLite `begin_immediate` admits one writer (`WriterMayRun`), on PostgreSQL
only requests for the same recommendation wait for each other (`MayBegin`). Between the
steps bots stop, losses are booked and recovered, limits change, and sweeps close
recommendations. Preflight checks on market data are a refusal that may always happen.
Recommendations that are held for review are left to `RecommendationLifecycle`.

### OneDesk

What an execute promises: a chain has one running bot, a recommendation starts one once,
and where the database serialises the writers (`serialised`, true on SQLite) the caps, the
loss limits and the one-way rule hold in the very step in which the bot starts. The execute
transaction implements it on both engines; on PostgreSQL without the last clause (divergence 6
below).

### BotLedger

Items (trades, events of the exchange, reconciliation snapshots) stand for their
immutable payloads, identified by id; `ts` is the table of each with the timestamp it
was booked under, `book` the summary in `state_json`, `started` and `stopped` the bot's
row. The three `Record...` actions are the three API handlers, each one transaction
under the lock of the bot's row; the `Duplicates...` operators are the conditions under
which a handler answers "duplicate" and changes nothing. An item's payload is reduced to
its net sum, a unit of quantity and a side; a snapshot to the events it covers and to
whether it is clean (complete, flat, no open orders). The code compares gross result,
fee and funding one by one; the model compares the sums of executions and of funding.
The 300 seconds of clock skew and of grace after a stop are `Skew` and `Grace`; the
proofs need `Skew <= Grace`, which the code has by equality.

A request without a timestamp is dated by the server when it arrives. That default is
left out: it makes a retry a different request, which the code refuses while the bot
runs (listed under the hazards).

### RiskStream

The drawdown that `compute_risk_status` computes over the rows of `list_risk_net_events`:
the deepest fall of any stretch of rows in their sort order, which ranks rows of the same
second by the name of their source. It is a module of its own because it only reads.
`OnlyTheExchangeRelieves` says what can lower it. A result that is taken back changes its
source and moves behind the other rows of its second (`Overtakes`); its losses may then
stand after another bot's profit, and the drawdown shrinks although nothing was confirmed.

### TradeJournal and CalmStream

One symbol. `tape` is what the exchange matched; a trade is named by its place there, which
no part of the program sees. `txn` is the journal as the stream's open transaction sees it
and `disk` as it is committed: `Receive` records a message into the first and commits with
every `CommitBatch`th, `IdleCommit` gives the ingest lock back on a silent market,
`BatchFails` rolls back everything since the last commit and closes the span, `Crash` does
not even close it. A session's span begins a millisecond after its first trade and ends
where its newest message begins. `Fetch` and `Record` are the two steps of a REST poll, `GiveUp` its
failure, `Prune` the retention. `Exact` and `PathOf` are what `observed_trade_path` replays:
one session's span, and that session's rows. Whether a symbol is captured at all is left open.

`CalmStream` is the same journal with nothing going wrong: a trade at every moment,
received and committed at once. It is there to show what the session's own length does
(divergence 7).

### OutcomeCycle

Label roots are numbered by their time, settlements too. `stage` and `funding.published` are
the outside world; `ledger` is `reco_outcome_observability`, `outcome` is `reco_outcomes` with the
settlements an outcome has counted. A cycle of the leader is `BeginCycle` (the bounded
selection, least recently attempted first, after up to `ProcessLimit` censored rows of an
earlier release were taken up again, `Requeued`), `Examine` and `Write` per row, with `Verdict` as
the three ways out: labelled, censored, or waiting for candles or a settlement. `Crash`,
`LoseLease` and `AbortCycle` end it anywhere; a second process then claims between cycles of
its own. `jobs` is the repair queue in the order of `next_attempt_ts`, of which the first
`due` are due; `Enqueue`, `Repair`, `RepairFails`, `Refresh` and `DelayPasses` are the
collector's.

A row's `shape` says what the rules compare: the settlements its position met (`needs`),
those between entry and exit, where the verdict looks for them (`looked`), and those between
entry and horizon, for which a repair asks (`span`). With a known schedule a row waits for
each settlement of its position. Without one it waits if the forecast expects any
(`expects`), until there is one in `looked`; its repair is resolved by any settlement in
`span` (`Returned`), also by one after the exit. A position that ended before its first
settlement then waits with nothing left to ask for: divergence 16. `Stalls` lets a worker write its verdict after its lease was taken over.

### MarketHistory

Minutes are numbered and minute `now` is open. The hot collector fetches (`HotFetch`),
stages the gap job in its transaction (`Stage`), writes the candles and commits both
(`Store`), and derives the slower candles (`HotDerive`). A filler loads the job (`Load`), stores a page
(`StorePage`), reads the job again (`Reread`) and advances the cursor (`Advance`), then
derives; one filler is the leader, the other does not know that it no longer is. Every step
may fail (`HotFails`, `FillFails`). `LongGap` is the outage that the tail does not cover, and
`MaxRetries` bounds the deadlocks that `_commit_write_with_retry` retries (known limits).
The definitions that begin with `Market` (`MarketInit`, `MarketNext`, ...) are named so that the
proofs can speak of the lease and of the collector's tables in one module. The inductive
invariant is stated at the end of the module, in the parts the proofs are made of. Two steps
leave a hole to nobody, `JobIsDropped` (the retry) and `JobIsOverwritten` (divergence 10); that
no other does is `HolesKeepTheirOwner`.

### SignalRules and RecommenderCycle

`SignalRules` holds the rules as operators: direction of the timeframes and its hysteresis,
market shock guard, fast veto, and the choice between two strategies. Scores are integers;
where they come from is left open. `RecommenderCycle` is one symbol with its two bots:
`Cycle` is a run of `run_recommender_once` that commits, `SkipSymbol` one in which the
symbol's data is stale, `CycleFails` one that commits nothing but leaves the fast veto in the
process, `Restart` forgets that veto, `Tick` lets a candle close or not, `Label` is the outcome worker.
A cycle runs while the newest candle is within `StaleAfter` (300 s in the code, `DataIsFresh`), but the
fast veto only reads candles within `FreshFor` (240 s, `Readable`): on one between the two
`FastVeto` forbids nothing, and what the process remembers is neither asked nor renewed. `seen`
is a history variable: when the market last gave a reason for a lockdown or a veto.

### GridLedger, TrendPosition and OutcomeReplay

`GridLedger` is the arithmetic grid with its margin stress and the order ledger of
`_grid_outcome`; `TrendPosition` the single position of `_directional_trend_outcome`.
`OutcomeReplay` lets trades arrive one by one, closes them into candles, and keeps two
replays: `book` is the worker's, from whatever evidence a minute has (four prices, or the
trades), `tape` the reference, fed with every trade. The worker reads the candles after the
horizon, the model as they close; the order is the same.

### CalibrationFolds and Calibration

`CalibrationFolds` is what a fit proves: sanitizing, monetary bounds over rows and over
decisions that do not overlap, validation blocks, purged training sets, and which fold's
coefficients become the model. What the optimiser finds is a choice; whether it may count
is not. `Calibration` publishes roots, lets their labels come late or never, prunes them,
and runs `Cycle`: load or refit the global and the bot's model, store what may be stored,
withdraw what the matured roots do not support. The bounded history is so short that all recency
weights are equal.

## 4. Runs

| run | instance | shows |
|---|---|---|
| `LeaseSafety` | two processes of one host and one elsewhere that restarts under its old name; ttl 2, lag up to 3, one heartbeat per cycle | a fresh confirmation owns the lease; no live owner loses it; the single writer is implemented; an orphaned lease is taken over |
| `RecoNoReviewer` | three rows, no reviewer | one running bot per chain, one actionable label root, closures are final |
| `RecoGate` | two rows, the reviewer as a gate | nothing unreviewed is launchable, launches are fresh, a veto releases nothing, and every publication closes |
| `RecoErrorRelease` | two rows, reviewer | **violation**: an error on the newest row releases the older ones |
| `Execute` | two requests; four recommendations of one symbol: two of one chain, one of another, one opposite; both engines | checks still hold at the insert, the loser of a race names the winner's bot, on SQLite nothing is attached to a stopped bot, `OneDesk` (with the one-way rule on SQLite) is implemented |
| `Ledger` | a bot with a round trip, a funding payment, two snapshots and a trade; a bot with a trade; clock of 2, skew and grace of 1 | the stored summary, losses, retries, what relieves the drawdown |
| `Journal` | three trades, two sessions, clock of 3, a commit every second message, polls of one trade, retention of 1 | exact paths are complete and in order, places are kept, the ingest lock is given back |
| `Outcomes` | two rows in four combinations of kinds, two settlements, two workers, one crash or lost lease, one row per cycle, one old row and one job per pass | ledger and outcomes agree, funding is counted, outcomes stand, every row is finished |
| `Market` | six minutes, one of which the exchange never had, an outage longer than the tail, two fillers, pages of two minutes | holes are owned, derived candles are whole, holes are filled |
| `Cycle` | four intervals, seven markets, four offers of the two bots, candles up to 2 late of which the veto reads those up to 1, gap, hold and release of 2, horizon of 3 | what confirms, how long cooldowns last and that they end, no-trade samples apart |
| `Replay` | a grid of three intervals, three directions and two entries, and two trend positions; two minutes of up to three trades at eight prices | labels agree with the trades and name the boundary reached first, position and loss stay inside the margin |
| `Calibration` | six moments, up to eight roots, refits every second moment, retention of 4 | folds look at the past only, cohorts are the most there are, models account for the cohort, the global loss is kept |

Each module states one type invariant. TLC has checked it on every instance above; the
recorded runs leave it to the proofs, where there is one, to spend their properties on what could be
wrong.

Bounds. A lag above the ttl is enough to see a heartbeat that is stale when it is written;
three processes see a reclaim by one, of another, while a third claims. One heartbeat per
cycle suffices because each returns the worker to the same state. Three rows are a root, a
member of its chain and a newcomer; two suffice for the reviewer's newest and older row. A
ttl of 2 separates a fresh row, a row at its last second and an old one. Two requests
suffice for every race of the execute transaction, whose checks are pairwise; the
recommendations are chosen so that any two of them differ in what one check looks at, and
the requests are symmetric since no property of that run is about a particular one. In
the ledger a round trip gives a profit and a loss, the funding payment arrives after the
snapshots that do not cover it, and the second of the two snapshots is not clean, so that an
order in which it decides is the wrong one; a clock of two seconds with a skew of one gives
timestamps before, at and after the stop.

Three trades in two sessions give two trades of one millisecond, of one message, across a
commit, and across a session, each of which the poll may have stored before. Two rows and one row per
cycle are the least with which a row that waits for ever could block another; the
settlements come out of order. The combinations of kinds are a row that may wait for ever in
front of another with a schedule, a pair without a schedule of which one ended before its first
settlement, two old rows of which a pass takes one, and an old row in front of one that stays censored.
Six minutes hold a tail, a hole that takes more than one page
and derived candles of two minutes. In four intervals a confirmation can be
given, lost and given again, a cooldown can end, and a candle can be too old for the
veto and young enough for the cycle before its cooldown is over. Of the eight prices of `Replay`
two are beyond the kill switch, two between it and the grid, one is a level and three lie
between levels, so that each crossing, gap and double touch occurs within two minutes. Eight
roots are enough, with the smallest sample sizes, for folds to be compared and a model to be
fitted.

Deadlock is checked but in `Ledger`, `Cycle`, `Replay` and `Calibration`, where a bounded
clock, horizon or set of items comes to its end.

Fairness. Only what the threads do by themselves is fair.

* Lease and lifecycle: time, each running worker loop, and the TTL sweep, which every cycle
  and two API reads repeat. A claim is strongly fair: a worker tries again in every
  interval, six times with growing pauses, so it is not the writer that never gets through.
  Nobody is forced to start, crash, stop, publish, answer or execute.
  `EveryPublicationCloses` needs nothing from the reviewer: a hold that is never answered
  ends by the sweep.
* `Journal`: the receive loop's idle commit and the two steps of a poll that has begun.
  Nobody is forced to send a trade, and a batch may fail every time.
* `Outcomes`: the steps of a cycle, a claim by some worker, and the repair loop. A request
  for one settlement that is repeated for ever is answered some time (strong fairness per
  job); without that the property would be about Bybit.
* `Market`: the steps of both workers; the database writes and the re-read are strongly
  fair, since a worker that fails goes round its loop and tries again.

`Execute` and the remaining runs assume no fairness: nobody is forced to book, execute or
publish anything. `OperatorExecution` states `ExecutesReturn` under a `FairSpec` (a request
inside its transaction goes on; that it begins or times out at last is strong fairness,
since SQLite hands its write lock to one of the waiters). TLC confirms it for two
recommendations; four are too many for a liveness check.

### Known divergences

One disagreement is a recorded run, `RecoErrorRelease`. The others were met while the
modules were written. Each is a property that its module states and that TLC refutes,
usually within seconds, when it is put into the configuration of the run named here with the
given changes.

| | property | instance | what the code does |
|---|---|---|---|
| 1 | `LiveLeaseOnlyLostBySilence` | `LeaseSafety` with `Procs = {p1, p2}`, `Reusable = {p1, p2}`, `MaxLag = 1` | the startup reclaim probes the owner's pid and deletes in two steps (`main.py:5464`); a pid that is handed out again in between loses its live lease. `docs/KNOWN_RISKS.md:21` says that reuse only delays a takeover |
| 2 | `OperatorStatusesSurviveTheSweep` | `RecoNoReviewer`, one row | the sweep updates by id what it selected before (`db.py:6657`); `db.py:6608` says that operator statuses are preserved |
| 3 | `ReviewerNeverReopens` | `RecoGate` with `Spec`, one row | the reviewer writes back a status read earlier (`db.py:3859` against `db.py:6488`) |
| 4 | `NoReleaseOnError` | the run `RecoErrorRelease` | an error on the newest row releases the older ones (`recommender.py:1116` against `recommender.py:265`) |
| 5 | `OneLabelledRow` | `RecoNoReviewer`, two rows | ignored and pending rows are not found as label roots (`recommender.py:5466` against `docs/TRADING_LOGIC.md:200`) |
| 6 | `OneWayOnEveryEngine` | `Execute` with `Recs = {a1, b1}`, `Engines = {"postgresql"}` | PostgreSQL locks the request's own recommendation only (`main.py:6183` against `docs/ARCHITECTURE.md:145`) |
| 7 | `CalmMinutesAreReplayable` | `CalmStream` with `CalmSpec`, the bounds at 6, `CommitBatch = 2`, `MaxSession = 1`, `Retention = 9`, `Minute = 2` | a session lasts 30 seconds and each has its own span, so no candle of a minute is covered by one (`main.py:7537` against `docs/SCENARIOS.md:71`) |
| 8 | `PolledSpansHaveNoGaps` | `Journal` with `MaxNow = 4`, `Retention = 2` | a row that the stream stored after a gap counts as the overlap of two polls (`db.py:6024` against `bybit_client.py:449`) |
| 9 | `NextAttemptIsRespected` | `Outcomes` with `MaxFaults = 0` | asking again for a settlement resets its delay (`db.py:5649` against `CHANGELOG.md:145`, `README.md:69`) |
| 10 | `GapsAreOwned` | `Market` with `MaxNow = 9`, `MaxOutages = 2`, `Tail = 2`, `Holes = {}`, `Fillers = {f1}` | between its re-read and its UPDATE the backfill overwrites the job of a second outage (`collector.py:1646` against `docs/ARCHITECTURE.md:248`) |
| 11 | `DerivedAreMaintained` | as 10 with `MaxOutages = 1` and `MarketSpec` | candles inside a hole that is filled later are never derived (`collector.py:1159` against `collector.py:105`) |
| 12 | `CountedRootsAreSelected` | `Cycle` | pending rows and suppressed competitors count as unresolved, but no outcome cycle selects them (`db.py:4678`, `outcomes.py:2262`; `recommender.py:4265`) |
| 13 | `KeptLabelsHaveOneReplay` | `Replay` with `Prices = {6, 7, 9, 11}`, `MaxTrades = 5` | a candle with one excursion may hide a zigzag across a replacement order (`outcomes.py:1931` against `README.md:378`) |
| 14 | `NegativeIsKept` | `Calibration` | the bot's stored loss is overwritten by an uncertain fit before the two are compared (`recommender.py:4788` against `docs/TRADING_LOGIC.md:418`, `README.md:428`) |
| 15 | `NoReattachOnAnyEngine` | `Execute` with `Engines = {"postgresql"}` | the SELECT of the chain's bot (`main.py:6145`, `main.py:6285`) does not lock it; a stop is committed before the status UPDATE (`main.py:6159`, `main.py:6299`), and the reply names a stopped bot as the running one. `main.py:6141`: "Reuse only a live bot from the same publication chain" |
| 16 | `ResolvedIsStored` | `Outcomes` | without a known schedule a position that ended before its first settlement waits for one in its window for ever (`outcomes.py:787`, `outcomes.py:1117`), though its repair was resolved by a later one (`collector.py:623`). `outcomes.py:763`: requiring settlements after an exit "would delay or censor an already terminated trade" |
| 17 | `VetoOutlastsTheCandle` | `Cycle` | on a candle of 240 to 300 seconds the fast veto returns without asking or holding the remembered one (`shock_guard.py:582`, `recommender.py:5802`), so an entry is published within the cooldown that `shock_guard.py:183` promises to hold for several cycles |

`CompetitorsAreSelected` and `CompetitorRootsDoNotOverlap` of `RecommenderCycle` fail in the
same way as 12: a suppressed competitor is neither labelled (`docs/TRADING_LOGIC.md:182`,
`README.md:163`) nor compared with open roots (`recommender.py:5344`, `README.md:16`).

### Known limits

* Two finalized bots with rows of one second: when a late event takes one result back, its
  rows sort from first to last in that second (`db.py:4181`), behind the other bot's profit,
  and the drawdown of the day can shrink. This is the `Overtakes` in `OnlyTheExchangeRelieves`;
  without it the property fails and its proof does not go through.
* The lease carries no fencing token. With `Stalls = TRUE`, `Outcomes` violates
  `LedgerMatchesOutcomes`: a worker that stalls beyond the ttl with a verdict in hand writes
  it after another process has written its own (`main.py:7917`). The theorems about
  outcomes assume `Stalls = FALSE`, and `FreshConfirmationOwnsLease` says exactly how far the
  lease's promise goes.
* `requeue_rest_trade_ohlcv_mismatches` takes its LIMIT of censored rows before it looks at
  their source (`db.py:4578`), in an order that the pass does not change: as many
  mismatches of other sources as the LIMIT, once they stand first, keep every later REST row
  from being taken up (`WithinReach` in `EveryRowIsFinished`).
* With `MaxRetries = 1`, `Market` violates `GapsAreOwned`: `_commit_write_with_retry`
  (`db.py:1273`) rolls back the gap job that was staged in the same transaction and repeats
  the candles only.
* A candle that was open when a long outage began is not fetched again, and a page of the
  exchange without rows leaves the cursor where it is.
* A positive model that is cached blocks its bot as soon as another label is written or a
  root pruned, until the next refit (`recommender.py:4273`); a model without support is
  stored, cannot be read back and is fitted anew in each cycle.
* `prune_old_data` (`db.py:8291`) keeps executed and ignored rows.
* A trend position counts the funding it receives and a grid does not; a trend position does
  not pay in the minute in which it leaves. Orders of a grid never add up at one level. A
  minute whose trades disagree with its candle is mostly refused before the two are compared,
  because a replacement order is pending.
* `ClearWinner`: an edge of a tenth of the runner-up is clear by itself, however small in
  points; the comment at `strategy_router.py:13` asks for two basis points. A held amber
  state does not block neutral candidates unless the market of this cycle would.
* The SQLite repair queue waits for HTTP inside its transaction (`collector.py:597`). The
  models have no durations; writers then depend on their busy timeout.

## 5. Proofs

Eight modules, `BackgroundProofs` (lease and candles), `RecommendationLifecycleProofs`,
`OperatorExecutionProofs`, `BotLedgerProofs`, `TradeJournalProofs`, `OutcomeProofs`
(labelling and grid replay), `RecommenderCycleProofs` and `CalibrationProofs`, prove, for any number of processes, rows,
requests, bots, items, trades, settlements and roots, any grid and prices, and for any bound, limit and delay:

* **Lease.** `LeaseInvariant` adds to "a fresh confirmation owns the row" that the row is no
  older than that confirmation (so who finds the row stale finds the confirmation stale),
  that only a worker inside a cycle holds a fresh confirmation (so a release or a crash
  leaves none), and that an owner declared dead is still dead (here `ReuseIsSolitary` is
  needed). From it `FreshConfirmationOwnsLease`, `LiveLeaseOnlyLostBySilence` and the
  refinement of `ExclusiveWriter`, step by step.
* **Lifecycle.** `PublicationInvariant /\ SweepInvariant /\ LaunchableRowsAreReviewed`.
  `LaunchableRowsAreReviewed` alone is not inductive: the reviewer's UPDATE writes a status
  read earlier, so one needs that what it read was not launchable (`SweepInvariant`); and a
  chain must be dated by a root that is stored and no younger than its members
  (`PublicationInvariant`) for the freshness of launches. From it `ExecutedRowsHaveBots`,
  `OneRunningBotPerChain`, `BotsStartFromFreshIdeas` and `VetoReleasesNothing` (what the
  reviewer reads to write back is never launchable, so a verdict that opposes can only
  store what is not); without the reviewer also
  `ClosedRowsStayClosed` and `OneActionableLabelRoot`, which are false with it.
* **Execution.** `ExecutionInvariant`: an open transaction is alone on SQLite (`OneWriter`)
  and holds its recommendation's row on either engine (`RowsAreLocked`), so the row is as it
  was read (`JobsAreUntouched`) and, on SQLite, the caps and the one-way check are as they
  were checked (`ChecksStillHold`). From it the one-way rule on SQLite (`OneWayOnSqlite`; no run repeats it, because `OneDesk` contains it), the right answers on
  both engines (a bot of the chain and the contract, `FindsAreRight`), on SQLite also a running
  one (`NoReattachToStoppedBots`: what was found before the UPDATE is still so at the commit,
  since no other writer was let in), and the refinement of `OneDesk`: only the insert is visible.
* **Ledger.** Everything booked is dated within its bot's life and the grace after it, and a
  snapshot is of a bot at rest. `RetriesSucceed` follows, because what was plausible stays
  plausible: time passes and `Skew <= Grace`. So does that trades and stops leave
  `reconciled` alone (a running bot has no snapshots), which `BookMatchesLedger` needs since
  those handlers do not rewrite it. `OneLedgerPerBot` is inductive by itself;
  `LossesAlwaysCount` follows from it, because the stream leaves out the trades of a bot
  with executions. `OnlyNewFactsReopen` is an action property: a snapshot older than the
  deciding one does not decide. `OnlyTheExchangeRelieves`, for any bots and rows: while no
  bot becomes settled, the stream keeps its rows, each counts for no more than before, and a
  row that is added counts as a loss (`StreamGrows`, `RiskOfRow`). So every fall is within
  one that is as deep in the later stream (`FallsDeepen`), where the ends of a second with a
  result taken back are widened to the whole second. That sums follow (`LessAddsUpToLess`)
  is proved by induction on the number of rows in first-order form: the least size of a
  counterexample.
* **Journal.** `JournalInvariant`: tape and sessions are in order, both what the open
  transaction sees and what is committed is `Sound` (a row with a place lies in its
  session's span or outside retention, places follow the tape, and a span holds every trade
  it claims), and the session has skipped nothing since its span began. Soundness of the
  disk alone is not inductive, because a commit copies the transaction to it; soundness of
  both is not either, because the next message claims the time since the last one. From it
  `ExactPathsAreComplete` and, as an action property, `PlacesAreKept`.
* **Outcomes.** `LabellingInvariant`: the tables hold whole rows, a verdict in hand is true
  of its row, and none of the rows a leader has yet to examine has an outcome. The last part
  is why a second process cannot label a row again: a worker claims between cycles only, and asks for
  its lease before each row. From it, for `Stalls = FALSE`, `LedgerMatchesOutcomes`,
  `OutcomesCountFunding` and the action property `OutcomesStand`.
* **Grid replay.** Neither the position nor the loss at a stop can be bounded from their own
  past: what a fill may still do depends on the orders that rest. `ReplayInvariant`
  (`BooksAreSound` of each of the three books) says of each side of the grid that the position and the
  slots on order there add up to what the bot opened with (`SlotsAddUp`), that what closing
  at that side's kill switch would yield now covers what those orders have still to lose there, up to the
  stress (`LossIsCovered`), and that no buy rests at the top and no sell at the bottom, so
  that every replacement lies inside the grid (`EndsHold`). It holds of any path of prices
  and of books that cannot be labelled too. From it `PositionWithinCommitment` and
  `StopWithinStress`; a stop on the side that is not the bot's own costs no more than the
  stress, because its orders lie on their own side of the entry. All of this is about sums over the slots. The
  library defines them by a fold, which is unfolded once, for running sums (`SumIsAdded`),
  with the least-number principle in the place of induction; the other facts on sums are
  derived from running sums. Assumed is that a grid is labelled with a commitment
  only (`ReplayAssumption`, `grid_math.py:128`).
  `LabelMatchesTape` compares a label made from candles with the replay of every trade, and
  needs an argument about paths, `TapeInvariant`. As long as a ledger is not stopped, what a
  stretch of prices makes of it depends on how far they went up and down and not on their
  order (`Traded`): on the way up every sell below the top, on the way down every buy above
  the bottom, each once, because a replacement waits for the next minute and orders rest on
  their own side of the last price (`Faces`). So the replay of a minute's trades is related
  at every moment to the ledger the minute began with and the candle made so far
  (`Follows`). At the close there are four cases. Where a candle says all there is to say,
  walking it gives the ledger of its trades (`Alike`). Where one kill switch was touched, the
  walk of the order that was chosen stops there too, and since both orders had to agree, no
  order rested on the excursion whose place in time is not known. Where both were touched
  the row is unavailable. And the price at which a stop closes is the worst of the candle,
  never better than the trade's own, which is why a stopped label may report less and never
  more. TLC had checked `TapeInvariant` on the Replay instance before it was proved.
  Assumed are positive prices (`PriceAssumption`) and that the cost of closing at the market
  is at most the notional (`MarketFee <= Scale`), without which a higher closing price would
  be worse for a long bot: it is a rate of at most 500 basis points in the settings, though the code
  puts no bound on the `execution_cost_bps` of a payload.
  `LabelNamesTheFirstTouch` holds for grids and trend positions and assumes none of this. Its
  invariant, `TouchInvariant`, relates three things to the boundary that the trades touched
  first: the candle of the minute (`Tells`: whether one was touched, and which, unless the
  candle saw both from between them), the replay of a grid's trades, which has stopped there
  and nowhere else, and the ledger a label is made from, which has stopped there or not yet;
  a position with a row to label is still open (`PositionRuns`). TLC checked this invariant as
  well before it was proved.
* **Recommender.** The invariant says of the gate that its hits are those of the latest row:
  in its direction, of its candle, no later than it, and two or more exactly when the row is
  a recommendation. Then the only way to a second hit is the cycle before, which is
  `ConfirmedByTheCycleBefore`. `OneStrategyActs`, `LockdownsEnd` and
  `NoTradeRootsDoNotOverlap` are inductive together with that the clock has started, that roots lie in the past and
  that a no-trade root is a shadow of some kind. `CooldownsHold` speaks of what the market did
  and not of what is stored, so `CooldownInvariant` adds that a lockdown within `Hold` of the
  last cycle is the stored one (`LockdownIsStored`), and that a move within `Release` is the
  veto the process remembers (`VetoesFollow`), also over cycles whose candle was too old to be
  asked about: they neither add to it nor take from it. The promise about the veto is
  for entries on a candle within `FreshFor`; without that it is false (divergence 17). Both hold at the last cycle only, which
  suffices since the next one is later; and a cycle that fails or skips the symbol publishes
  nothing that is as recent as itself (`PastCycle`). `ReversalsAreProven` follows from the
  step alone.
* **Candles.** Two invariants. `FetchedIsBehind` holds for any constants: what a collector or
  a filler has in hand is all that the exchange has of its window or page, every page and
  every job ends before the minute in which it was made, and so does every final candle.
  From it `FinalCandlesStay`, as an action property (a minute is fetched while it is open or
  after it closed, never the other way round), and `DerivedAreWhole`. `MarketInvariant`
  adds three parts, again for any constants, any number of outages and retries. `JobIsStaged`: the
  collector in flight knows the newest minute, and what it staged is the job its outage makes of the
  one in the table. `CopiesAgree`: the job in the table and the copies that fillers hold, loaded or
  read again, lie between stored minutes, and two copies of the same job (that have the
  same time of scheduling) own the same holes, however far each has come. It is needed because
  a filler writes back what it read, and another may have advanced the cursor meanwhile.
  `PagesLieWithin`: what a filler has in hand belongs to the job it loaded, and that job's holes
  lie ahead of what was stored of the page, so that advancing the cursor passes no hole. From it
  `HolesKeepTheirOwner`, an action property: only a retried commit and the write of a job that
  was replaced since it was read (divergence 10, known limits) may leave a hole to nobody. So
  `GapsAreOwned` is an invariant of every behaviour without these two steps (`HolesAreOwned`);
  the instance `Market` is one that has none, and TLC finds each of the two as soon as
  a second outage or a retry is allowed.
* **Calibration.** `StoredInvariant`: stored models are whole records, and a loss stored for
  the global model can be read back, which a fit without money or support could not be. From
  it `GlobalNegativeIsKept` (a loss that is read back is compared with the fit before
  anything is stored) and `ActionableCoversTheCohort` (the gate counts what is matured now,
  whatever the stored model was fitted on). `ProvenOnTheFuture` and
  `CohortsAreMostNumerous` are about the folds themselves, for every set of roots. A training
  set ends before its validation block begins, because a root is purged whose label is not
  ready by then. That the greedy cohort is the most numerous is the exchange argument: the
  cohort taken from the earliest end loses at most one root of any other cohort per root of its
  own, by induction over the number of roots.

Type correctness is a theorem for `RuntimeLease`, `RecommendationLifecycle`, `TradeJournal`
and `Calibration`, and a part of the invariants of the others where they need it.

Model-checked only: liveness (`OrphanedLeaseIsTakenOver`, `EveryPublicationCloses`,
`LockIsReleased`, `EveryRowIsFinished`, `HolesAreFilled`), which needs fairness and ENABLED.
Every invariant and every action property of a passing run is stated by a theorem. The modules
state a few more beside them; these hold on the instances above, and are neither recorded as
runs nor proved unless they are named here.

## 6. Not modelled, and why

* Indicators, scores, the cost model and the optimiser are arithmetic on market data; the
  modules leave their results open and model what is decided by them.
* Rounding to the exchange's tick and lot sizes and the isolated-margin helpers are left
  out of `GridLedger`.
* The trend-event model and the direction calibrator are further fits of the kind
  `CalibrationFolds` models.
* Tickers, open interest and the choice of symbols: independent tables without the two-writer
  problem of the minute candles. Slow candles that are fetched from the API are left out too,
  though the bootstrap writes them next to the derived ones: `DerivedAreWhole` is about what
  is derived. `Source` hands the derivation the newest minutes of two derived candles and two more, or every stored
  minute while there are fewer than `Floor` derived candles; the code then reads those of the newest
  97 derived candles (`collector.py:1175`), more than an instance has.
* HTTP clients, feeds, sentiment scoring, alerts and the user interface are input and
  output; configuration is parsed and clamped and changes no state afterwards.
* The database adapter is present through the atomicity that the modules assume of a
  statement and of a transaction, and as `engine` in `OperatorExecution`.
* Offline walk-forward and release scripts run outside the system.

`PROJECT.json` lists every component with what is modelled of it.
