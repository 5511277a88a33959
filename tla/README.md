# StratTraderPro in TLA+

StratTraderPro turns TradingView alerts into broker orders: a webhook anchors an
alert, a Celery worker makes one order of it and submits it, the broker's events
come back over a stream, and positions are reconciled with the broker's. Kill
switches stop trading by hand or after a daily loss, and a hash-chained audit
log records what happened. Around that core stand the accounts and sessions of
the users, their strategies and webhook secrets, the broker accounts, and the
research side: screens, backtests, the market regime, the news.

This directory models these in TLA+, checks them with TLC on small instances and
proves the central claims with TLAPS for every value of the constants.

Paths below are relative to `src/backend/apps` unless they begin with `src/` or
`docs/`. `PROJECT.json` maps every definition to the lines it models.

To repeat the checks: `tlc -workers 2 -config <run>.cfg <module>` for a run and
`tlapm <module>Proofs.tla` for the proofs.

## 1. Inventory

Processes (`src/docker/entrypoint.sh`, `src/backend/gunicorn.conf.py`): gunicorn with
three threaded workers; a Celery worker for the default queue and one for
backtests; the beat (redbeat); `run_broker_streams`, one process with a thread
per Alpaca account. Shared state: Postgres at READ COMMITTED, every request
outside a transaction unless the code opens one; Redis as queue, cache and fill
stream; the broker over REST and a WebSocket.

| Component | State | Operations | Talks to | What is hard | What makes it correct |
|---|---|---|---|---|---|
| Webhook ingest (`webhooks/views.py`) | alert row, idempotency key in cache | `post` | strategy, halts, queue | dies between commit and enqueue; two posts of one key; halt in between | a duplicate is one; refused means no trade; nothing is lost |
| Alert processing (`webhooks/tasks.py`) | alert status, order row | `process_alert`, `redispatch_stranded_alerts` | broker, halts, sizing | message redelivered, parallel workers, submit with an unknown outcome | at most one submit; no order of the broker's written off |
| Order submit (`brokers/alpaca`) | none | `place_order`, look-up by client order id | broker | timeouts, failing look-ups | an ambiguous answer stays ambiguous |
| Fill transport (`orders/fills.py`) | Redis streams, pending entries, attempt counters | `publish_fill`, `sweep_all_streams` | stream thread, ledger | commit, XADD and XACK apart; overlapping sweeps; one key pattern for three kinds of key | nothing lost, nothing buried early, everything settled |
| Ledger (`orders/services.py`) | orders, fills, positions | `ingest_fill_event`, `reconcile_positions`, `resolve_needs_reconcile` | transport, broker | events lost, repeated, out of order; several writers of one status | statuses are true, quantities complete |
| Stream and catch-up (`brokers/streams.py`) | threads, heartbeat | `catch_up_account`, `_run_account` | broker, transport | what happens between catch-up and subscription | in the end we show what the broker has |
| Reconciliation (`orders/reconcile.py`) | drift rows | `reconcile_account` every 300 s | broker, ledger | a fetch applied later, beside ingests | positions converge |
| Kill switch (`risk/killswitch.py`) | halt rows | trigger, release, `is_blocked`, flatten | workers, views, broker | three queries beside engage and release; flatten beside a submit | a standing halt stops orders; flat stays flat |
| Daily-loss watcher (`risk/tasks.py`) | cache lock, breach counter | `daily_loss_watcher` every 30 s | kill switch, broker | lock and counter with lifetimes, overlapping runs | trips on two polls, lasts the day, is released after it |
| Audit log (`audit`) | chained rows, verifier cursor | `emit`, link trigger, `run_verifier` | every business transaction | savepoints, rollbacks, a verifier beside writers | one chain; no row behind the cursor; no false alarm |
| Users and sessions (`users/services.py`, `views.py`, `models.py`) | user row, mailed tokens, refresh families, failed log-ins | register, log in and out, rotate, reset, change, disable | clients, audit | requests that loaded the row earlier save it later; log-in beside a revocation | no session outlives the reset; what is revoked stays revoked; guesses are bounded |
| Second factor (`users/mfa.py`) | device, backup codes, counters in the cache | enrol, confirm, verify, step up, disable | log-in, kill switch | two enrolments; counters read before and bumped after | only the confirmed device counts |
| Export and deletion (`users/gdpr.py`, `tasks.py`) | export rows and files, `pending_delete_at` | export, evict, cancel, anonymise | storage, sessions | task beside the purge, cancel beside the night | who is due is erased; no file survives |
| Strategies (`strategies`) | strategy rows, files, webhook configs | upload, patch, delete, rotate, seed | webhook ingest | copies saved whole, no transaction around a view | uploads are whole; a dead secret stays dead |
| Feature flags, live gate (`admin_portal/flags.py`, `brokers/live_gate.py`) | override row, Redis and process caches | `is_enabled`, `set_flag`, `live_trading_permitted` | admins, brokers | an old value cached after a flip | every process comes to follow the row |
| Broker accounts (`brokers/views.py`, `services.py`) | account rows with a default | connect, callback, test, remove | routing of alerts, stream supervisor | several committed statements a request, requests beside each other | what mixed statements leave as the default does not add up |
| Stream supervisor (`brokers/streams.py`) | threads, heartbeats | `_reconcile_threads`, `_run_account` | broker, accounts | a stopped thread that still blocks; a heartbeat read, then written back | one stream per account, failures seen |
| TradeStation (`brokers/tradestation`) | tokens in the account row | OAuth, refresh, persist | broker | refresh tokens replaced at use, rows that share one, calls at once, a death before the save | the stored token works, where nobody else used it |
| Admin portal (`admin_portal`) | impersonation sessions | start, stop, read as a user | users | reads in flight at the stop | stopped is stopped; reads change nothing |
| Screener (`screener`) | run rows | POST, `run_screen`, reap, prune | market data | two POSTs, a late worker on a reaped run | one at a time; every candidate accounted for |
| Market data (`marketdata/fmp.py`, `keys.py`) | key, minute cap, breaker, cache | `get`, key set and delete | screener, vendor | breaker beside calls in flight | degraded results say so |
| Backtests (`backtest`) | run rows, segments, report; position and cash of a replay | POST, cancel, `run_backtest`, evict; one bar | own queue | cancel beside pick-up and finish; partial fills beside stops | the cap; a finished run is whole; the books close |
| Regime (`regime`) | daily observation | `run_daily_feature_pipeline` | sizing | series that cannot be fetched | more stress, smaller size |
| Sizing (`risk/sizing.py`, `integration.py`) | risk profile | `apply_sizing` | alert processing | limits, factors and roundings in sequence | never beyond a limit |
| Sentiment (`sentiment`) | articles, scores, aggregates | ingest, score, aggregate | sizing | overlapping tasks, articles that cannot be scored | the newest news is read; every article ends scored |
| Dashboard push, frontend, deployment | none the rest relies on | | | | |

The hard spots are listed in `PROJECT.json` under "hazards", at their lines, with
the properties that would notice one going wrong or the reason there is none.

## 2. Modules

    AlertIntake  <--implements--  AlertPipeline     <--proved in--  AlertPipelineProofs
    FillStream      the way of a broker event to the ledger   <--  FillStreamProofs
    OrderLedger     what events, catch-up and reconcile make of it <--  OrderLedgerProofs
    KillSwitch      halts, gate, flatten, watcher             <--  KillSwitchProofs
    AuditChain      emit, trigger, verifier                   <--  AuditChainProofs

    Accounts <- SecondFactor <- Erasure     one user, each module extends the one before
    Strategies, LiveGate, Desk, Streams, TsLink, Deputies   what the user and the admin change
        all together in MCAccess                              <--  AccessProofs

    Vendor <- Screens
    Backtests, Replay
    ScreenBlock, Shortlist, WalkForward     computations under both
    Regime <- Sizing                        from the day's readings to a quantity
    News                                    from articles to the sentiment of a symbol
        all together in MCResearch     <--  ResearchProofs, DecisionProofs

    MC<module>      model values and functions for TLC

The modules meet at narrow points, and each carries an abstraction of the others
there. `AlertPipeline` sees the kill switch as one Boolean `blocked`, which
`KillSwitch` refines into rows and three queries. `OrderLedger` sees the worker
as "posted, then one of four ends" and the transport as a set of events ingested
in any order, possibly again, which is what `FillStream` delivers.

### AlertPipeline

One user, one strategy. A request is one HTTP post and names the row it creates.
An action is what happens up to the next database commit, queue operation or
broker call, so that processes interleave wherever another one can observe them.

- `ViewRefuses` ... `ViewAnswers` are `WebhookView.post`: refusals with their
  audit row, the cache's fast path, the insert of the anchor under the unique
  key, the halt check, `delay`, the answer. `ViewDies` stops it at any point.
- `Take`, `GateRejects`, `GatePasses`, `CreateOrder`, `RefuseOrder`, `Submit`, the
  outcomes of a submit, `RecordAck` and `CloseAlert` are `process_alert`. Messages
  are acknowledged early: `WorkerDies` loses the message. `Redispatch` puts rows
  that are still RECEIVED back in the queue.
- `Resolve` is `resolve_needs_reconcile`; `PauseStrategy`, `HaltTrading` and
  `ReleaseHalt` are the operator.
- Client order ids are hashes; the model takes the hashed value itself. The row
  keeps `str(key)[:128]` and the hash takes `str(key).strip()`; the functions
  `Truncated` and `Stripped` keep the two apart.
- `Faults` selects what the network and the broker may do wrong.

Assumed: a handler reaches its gate within the 120 s after which the redispatch
picks a row up; what landed at the broker did so when the call left.

### AlertIntake

The promise in two actions: an intent is claimed by one alert, and it is settled
once, sent or dropped. In the refinement the owner of the order row is the claim;
submits and status decide the fate.

### FillStream

A stream is a sequence of entries with the group's position and the pending set;
attempt counters are keys of their own with a lifetime. `sweep_all_streams` visits
the keys SCAN returned in any order, replays pending entries, reads new ones and
settles each: parse, ingest, count, bury, acknowledge, clear the counter, every
Redis command a step. The scan's pattern also returns dead-letter streams and
counters; the model visits them, as the code does. Left out: trimming at 10000
entries and the inline mode of the tests.

### OrderLedger

One symbol. The broker executes lots, closes orders and emits events that reach
the set `inFlight` only while the stream is up. `Ingest` is one transaction under
the lock of the order row. `FetchPosition` to `Resolved` are `catch_up_account` of
the stream thread and `reconcile_account` of the beat, with every answer of the
broker applied in a later step than it was given. `SubmitAcked`,
`SubmitAmbiguous` and `SubmitRejected` are how the worker writes beside them.

Assumed: look-ups by client order id answer (`LookupsFail = FALSE`; the finding of
`alert_probe` is what happens otherwise); nothing lands after its call ended;
quantities are whole lots, so the tolerance of 0.01 is none. A submit without an
HTTP status is `AlertPipeline`'s subject. Average prices are left out.

### KillSwitch

The rows of `brokers_trading_halt` for one user, with level, day and an active
mark. `LookUp` and `Create` of `trigger_halt` are separate because its row locks
lock nothing when there is no row. `Query*` are the three queries of
`is_blocked`. The watcher's run is `Start`, `Sweep`, `AskMarket`,
`AlreadyTripped`, `ReadPnl`, `Count`, then a trigger and `Finish`. A flatten
happens after the commit, may fail, and is not tried again. `Overruns` says
whether a run may outlast its lock of 45 s; the runs exclude it, as one user's
poll takes seconds. `NextDay` comes at night with nothing running.

Four variables only remember: `standing`, `second`, `tripped`, `mopped`.

### AuditChain

A hash is the sequence of payloads since the genesis row, which is what a
collision-free hash stands for. A connection in a business transaction calls
`emit`: savepoint, advisory lock, head, insert, trigger. `Insert` draws the id,
and the trigger compares the link; a refusal or any other error goes back to the
savepoint, which gives back a lock it took, and the transaction goes on without
the row. The lock ends with the outer transaction. A verifier loads its cursor,
walks the committed rows in one snapshot, saves the cursor on success and emits
a row of its own; two may overlap. `CommittedHead`, `SavedWithoutHash` and
`UnlockedWithSavepoint` are mutants, used only to show that the properties can fail.

### Accounts, SecondFactor, Erasure

One user. `user` is the row, `reqs` the requests under way; a request is a sequence
of database statements, and `me` is the copy of the row it loaded, which a full
`save()` writes back. `Begin(r, op, pc, ref)` starts an operation, the later
steps carry the names of the code (`LoginCheck`, `IssuePair`, `ResetSave`,
`RevokeLoop`, `EnrollConfirm`, `MintCodes`); an enrolment deletes the unverified device and
creates the new one in two, a disable deletes the device and the codes in two. The rotation of a refresh token locks
its row and is one step, `Refresh`; a logout does not and is two. `mix` is the set
of operations a behaviour is made of. `Erasure` adds export rows with their task
(`ExportStart`, `ExportStore`, `ExportPublish`) and the nightly task as its own
process (`NightReads` to `ScrubRow`), which may die at every step. Storage is
configured (`EXPORTS_STORAGE_READY`); mails arrive.

### Strategies, LiveGate, Deputies

`Strategies`: a call loads its row (`OpenCall`), works on the copy and saves it
(`Patch`, `Put`, `rotate_secret`); an upload creates the row and adds its three
files one by one, and may be cut. The validation of a bundle keeps the order of
the checks. `LiveGate`: a look-up asks the process, Redis, then the row, and
remembers what it got at each level on the way back; `FlipRow` and `ShareFlip`
are the two writes of `set_flag`. `Deputies`: the token
names its session, and the row is read at every request (`authenticate`), apart
from the permission check that follows it. The audit row of an impersonated
read is best effort and left out.

### Desk, Streams, TsLink

`Desk` has the account rows of one user. The views open no transaction, so a connect is
four steps (the check for the same account, the check for any account, the clearing of
the old default, the insert) and a removal four (the load, the delete, the look for the
oldest account, its promotion), and `asks` holds what each request knows between them.
A connect whose insert meets the unique constraint fails and leaves the default
cleared; a promotion of an account that is gone by then raises. The account that was
created first is the one with the least number.

`Streams` has the supervisor and its threads. Of the accounts it has what the supervisor
reads, `load_active_accounts`, and `AccountChanges` for whatever adds one or takes it
away. A heartbeat is a value in the cache: threads set it (`Beats`), and the
supervisor's refresh, `touch_heartbeat`, is the two steps it is, `TouchReads` and
`TouchWrites`, between which any thread may write. `late` remembers the accounts
where that happened, until a thread writes again.

`TsLink` has the tokens in the row of each account. A login covers one account or several
(`covers`); the callback writes one pair of tokens to all of them, row after row
(`LinkAccount`), and from then on each row refreshes on its own. The client of the
callback may have to refresh as well while it lists the accounts
(`CallbackRefreshes`), and the callback then stores the pair from before; `strayed`
remembers the logins a refreshed token of which was dropped, there or by a process that
died. The broker's habit with refresh tokens is a variable set at Init.

### Vendor, Screens, ScreenBlock, Shortlist

`VendorGet` is one call of the client with its gate, answer, breaker and cache.
The per-minute cap refuses when it likes, the screener's own rate limit is left
out. A screen's worker keeps a copy of the row (`tasks`) and saves all of it at the
end (`_finish`, `_fail`). `ScreenBlock` parses a block line by line, tokens being
what their text would be read as. `Shortlist` evaluates the derived criteria over
bars and ranks what passes: `column` is the part of the sort key that may be missing,
`rank` the order of the whole key, and `Ranked` puts a row behind those that a stable
sort (Python's `sorted`) would put before it. Percentages are whole hundredths, as the
code rounds them, so that two rows may tie. The vendor is taken to list a symbol once.

### Backtests, Replay, WalkForward

`Backtests` is the life of the rows; `workers` has the step of each task, the
status it read or is about to save, and the symbols left. `Replay` takes one bar a
step (`ReplayBar`): exit at the open, entry at the open with what the volume allows,
stop or target in the bar, the forced close at the end, then the signals. Money
is in whole units, so that nothing is lost to rounding. `WalkForward` has the
windows, the gaps in the stored bars (all of them; the text of a refusal names the three
longest), the parameter grid and the signals as operators over small histories, stepped
day by day.

### Regime, Sizing, News

`compute_observation` and `Qty` are the code's chain of branches over integers: a
reading stands for its z-score, percentages and factors for tenths and hundredths
with the code's rounding. The hidden Markov model has an opinion or none.
`News` has articles with the state of their scores and the two lists of their
symbols, all of them and the text of the first 24 that the aggregation searches, sweeps that work them one by
one and may die between two statements, and aggregations that take their window
first and write their rows later, so that an older one may write last.

## 3. Runs

| Run | Instance | States | Shows |
|---|---|---|---|
| `alert_safety` | two posts of one key, two workers, all faults, a crash of each kind | 0.77 M | at most one submit; honest "duplicate"; refused never trades; `AlertIntake` implemented |
| `alert_settles` | two alerts with orders of their own, one worker that lives, a handler that may die, failures with a status | 0.15 M | order and alert agree; a halt leaks one order per worker; alerts decided, orders settled |
| `fill_stream` | a good and a malformed event, two sweeps, two failing ingests, one fault | 0.15 M | nothing lost, nothing buried early, everything settled |
| `ledger` | an order of two lots, stream, beat, worker, one mishap | 0.40 M | complete quantities, true statuses, positions and orders converge |
| `halts` | a caller, a worker, two watchers, one halt by hand, two days, one mishap | 1.6 M | see below |
| `audit` | two writers with two emits each, two verifiers, one mishap | 0.29 M | one chain, nothing refused, nothing behind the cursor, no false alarm, every emit returns |
| `access` | two requests (processes, calls) at a time; ten mixes of account operations, six of strategy calls; flag, three accounts, two streams, two TradeStation accounts, impersonation | 1.02 M | sessions end, guesses are bounded, nothing comes back, the due are erased, uploads are whole, caches and streams follow the rows, defaults do not add up |
| `research` | two POSTs, two screens, three backtests, six bars, three lines of a block, histories of four bars, two articles | 0.38 M | one screen, whole results, the cap, books that close, sizes within limits and falling with stress, newest news |

| Finding | The code | What it says |
|---|---|---|
| `alert_probe` | a failed look-up by client order id reads as "never saw it": the sweep rejects an order the broker holds, and so does the worker after a submit without an HTTP status | "broker hiccup; leave for the next sweep" (`orders/services.py:283`), "NEEDS_RECONCILE, not REJECTED" (`webhooks/tasks.py:370-373`) |
| `identity_orphan` | an export in flight while the account is anonymised stores its file after the purge | "A full export must not survive right-to-erasure." (`users/gdpr.py:226`) |
| `strategy_revived` | a PATCH that loaded the strategy before its deletion saves every column after it | "no resurrection via PATCH" (`strategies/views.py:98`) |
| `regime_blind` | a missing dollar index is read as a calm one: higher score, calmer label, larger scale | "data loss must de-risk, not de-stress" (`regime/features.py:25`) |

Other places where the code falls short of its documents show in the models as
behaviours the properties have to make room for, without a run of their own: a
worker that dies after the commit of the order leaves it PENDING_SUBMIT for ever
(`webhooks/tasks.py:218`); the scan of `sweep_all_streams` returns counters, which
end the sweep, and dead-letter streams, which are drained again
(`orders/fills.py:214`, hence `lasting` in `FillsGetSettled`); an execution between
catch-up and subscription is missed while the connection lasts
(`brokers/streams.py:172`); a snapped position counts executions that are still to
be ingested (`brokers/streams.py:61`) until the next poll; two triggers insert two
halts (`risk/killswitch.py:109`); a password reset that loaded the row before the
anonymisation writes the person back (`OnlyResetRevives`); a cancel saved over a
finished backtest, or a killed worker, leaves a row that counts against the cap
for ever (the exceptions of `BacktestEnds`); a symbol whose last article left the
window keeps its last score (the last disjunct of `NewestNewsRead`); an alert redispatched
while its first worker is at the order may end REJECTED though the order is out
(`webhooks/tasks.py:148-152`, see section 4); two connects, or a connect beside a removal,
leave two default accounts, and a connect that fails at its insert leaves none
(`brokers/views.py:113-127`, `177-181`; alerts then go to any of the defaults, or to the
oldest account); the supervisor's refresh puts a CONNECTED it had read back over the
DEGRADED a thread wrote meanwhile, though "a DEGRADED thread is NOT stamped CONNECTED"
(`brokers/streams.py:231`), until a thread of the account writes again (`late` in
`DownIsShown`); with a broker that replaces refresh tokens, the rows of one login make
each other's token a dead one, and so does a refresh inside the callback
(`brokers/tradestation/views.py:66-97`; `covers` and `strayed` in `RowStaysUsable`).

The conjunctions the configurations name, such as `HaltsHold` or `ChainSound`, are
defined at the end of each module (of `MCAccess` and `MCResearch` for those that
span several) from the parts named here. The parts of `halts`: a halt active from
the first query of the gate to the last stops the order (`StandingHaltStops`); an
L2 halt lasts its day whatever is released or found (`TripLastsTheDay`); a user
flattened under a halt with nobody past the gate stays flat (`FlatStaysFlat`); the
watcher trips on a reading made after an earlier breach was counted
(`TripNeedsTwoPolls`); a lasting loss trips (`BreachTrips`); a breaker of an
earlier day is released (`BreakerReleased`). What it does not promise matters as
much: a halt replaced by another one during the three queries may be missed by
both, an order past the gate is not stopped, and a failed flatten is not repeated.

Two of `audit` are worth a word. `NeverRefused`: the lock taken before the head
is read, and kept until the commit, is the reason why the trigger never costs a
row; with the lock taken by the trigger alone, rows would be dropped in silence.
`RowsLandAhead`: ids are drawn under the lock, so that no row with a lower id
becomes visible after a higher one, where a verifier would never look again.

Of `ledger`. `FinalFillCompletes` bounds the count of a filled order from below only. From above
the code gives no bound: a delayed execution that is ingested after the count was
raised to a later cumulative quantity adds to it (`orders/services.py:173`), and an order of two lots can show three. The position
is moved by the execution alone and is right.

Of `access`. `OldSessionsEnded`: when a reset, a change or a disable answers, every
family that was live when it saved the row is revoked, the caller's own excepted.
It says nothing of a log-in that passed the check of the old password before the
save and inserts its pair after it: the code does not stop that one. `LockoutHolds` and
`GuessesBounded` give the bound the code really has: the counters are read before
the guess and bumped after it, so the limit is
passed by what is in flight: a log-in by one less than the requests at a time, the wrong codes of
a path, with `n` requests, by `n(2 MaxMisses + n - 1) / 2` in all.
`SecretsStayDead`: a secret that was rotated away is not accepted again, because
PUT saves named columns only. `UploadsWhole` is about uploads that ended: one that was
cut or is still at its files is excepted. `DefaultsBounded`: however the statements of
connects and removals mix, a user has no more default accounts than requests run at
once, so requests one by one leave one at most; that there is one, the code does
not ensure. `DownIsShown`: an account all of whose threads wait to reconnect does not
show as connected, unless the refresh wrote an older beat back and no thread has
written since, or heartbeats could not be written (`mute`). `RowStaysUsable`:
the refresh token of a row is one the broker accepts; where the broker replaces them,
only as long as no other row has the login, no call has one yet to save and none was dropped.
`FlagConverges`: after the last flip every process comes to see the row.

Of `research`. `CountsAddUp`: a finished screen has counted every candidate once
and says so when it left one out. `CapHolds` is the bound that follows from a cap
counted before the row is created. `BooksBalance`: in the replay, cash, position,
costs and trades agree after every bar, partial fills included. `SizingIsSafe`:
the accepted quantity respects every limit of the profile at once, though the
code applies factors after limits; the money at risk stays within 1.1 times
`risk_per_trade_pct`, as the boost by sentiment is capped again by the position limit
only. `SizeFollowsStress`: from readings to quantity,
more stress never buys more. `TableIsReproducible`: the ranking does not depend on
the order of what the vendor returned. `SignalsStand`: a signal computed with the
warm-up history is the signal computed with more of it.

### Bounds

Two of everything that may conflict (posts of a key, workers, sweeps, watchers,
writers, verifiers, requests, calls, processes) and one mishap: each conflict in
the code is between a process and one other, and a fault matters by the step it
hits. `MaxLen = 4` holds a good and a malformed event with their dead letters. Two
lots are the least that has an intermediate execution. Two trading days are the
least that has an expired breaker. Two emits are the least for two savepoints in
one transaction.

`MCAccess` and `MCResearch` put independent parts side by side: `part` is chosen at
Init, and only the variables of that part move. The parts share no state in the
code that these modules have, so nothing is lost by not interleaving them.
`Mixes` and `CallMixes` name the operations of a behaviour: each set has those that
meet on the same rows, with two requests at a time. Two mails, two families,
three rotations, two enrolments and two export jobs are enough for one thing to
be replaced while another is under way; `Threshold` and `MaxMisses` are 2, so that a
counter can be below, at and above its limit. Three accounts and two requests
allow two defaults beside a third account, a removal and a promotion of one that is gone. `MaxTurns = 3` changes of two active accounts are
a removal and a return beside a restart. `MaxTokens = 3` is a login of two accounts and
a refresh by each of them, or a login, a refresh and a second login.

In `research`, two screens and one killed worker have a reaped run with a late
worker beside a fresh one; `Trip = 1` lets the breaker open during a screen;
`KeyGoesEarly` only says that the vendor's key is deleted before the second run is
made. Three backtests against a cap of one leave room for both POSTs to pass it.
Six bars hold an entry over two bars, an exit and the forced end. Three lines of
a block are a repeated key and a limit. Readings have three levels and the
losses of data the critical and the uncritical ones; in the part `sizing` only the
VIX is ever missing, the part `days` has the rest. One sweeper and two articles, one
of them poisoned, are what a sweep needs to be held up.

`CHECK_DEADLOCK FALSE` appears in `audit`, `access` and `research`, and in the runs of
the findings on the same modules, where calls, requests and bars run out.
`alert_settles` leaves out workers that die and faults without a status, the
subject of `alert_probe`. `alert_safety` has both.

### Fairness

- What a process has begun goes on: Celery and gunicorn run a task to its end
  unless it dies, and death is an action without fairness that the mishap bound
  limits.
- The beat comes round: redispatch, sweep, reconcile, watcher. Redbeat repeats
  them without condition.
- A message in the queue is taken in the end, though workers are busy meanwhile:
  strong fairness of `Take`, because Redis lists are served in order.
- Keys with a lifetime expire (`CounterExpires`, `LockExpires`).
- The audit lock needs weak fairness only, because the calls are bounded; with an
  endless supply of emits it is the queue of Postgres that excludes starvation.
- `access`: the nightly task runs every night (`NightStep`), a look-up of a flag
  ends, cached values expire, the supervisor comes round (its loop sleeps and
  repeats). Nothing is asked of a user's or an admin's requests.
- `research`: a live worker keeps working, a sweep comes round, runs age. The slot of
  a screen comes free by the reaper, which only a POST runs: `ScreenSlotFreed` needs
  the users to keep posting (`PostStep`). Each condition names the variables of its
  own part, so that the fairness of one part asks nothing of another.
- Nothing is asked of callers, operators, markets or the broker: posts, halts,
  releases, executions and disconnections may happen or not. `OrdersCaughtUp`
  states what it needs, a stream that reconnects again and again.

## 4. Proofs

`AlertPipelineProofs` proves of `AlertPipeline`, for any sets of requests, keys and
workers, any faults and any number of crashes:

| Theorem | Statement |
|---|---|
| `TypeCorrect` | `Spec => []TypeOK` |
| `SubmitOnce` | `Spec => []AtMostOneSubmit` |
| `SubmitsAreSingle` | `Spec => []SubmitsOnce`, the two together |
| `AnswersStand` | `Spec => []AnswersHold` |
| `HaltLeaksOne` | `Spec => []LeakBound` |
| `AcceptedWasSent` | an `ACCEPTED` alert owns an order that was sent and recorded |
| `NoOrderIsOrphaned` | `"probe_error" \notin Faults` implies `Spec => []NoOrphanOrder` |
| `OrdersAreAnswered` | that and `OneSteadyWorker` imply `Spec => []OrdersAnswered` |
| `KeepsIntakePromise` | `Spec => ImplementsIntake` |

Only `ConstantsAssumption` of the module is used: `None` is no request, the keys
are no requests, the functions have their types.

`AtMostOneSubmit` is not inductive: from a state with two workers about to submit
one client order id the second submit follows. The invariant `IInv` adds why that
state is not reached. `WorkerHolds`: a worker that is not idle holds an alert.
`SendRight`: whoever is about to send is alone, its row still waits and it was
not sent before; what has no row was never sent; what is past the submit was.
The get_or_create on the client order id establishes the first, and no action
moves a row back to where it could be sent again. `HaltRight`: under a halt
nobody passes the gate, so a worker that has one more submit before it was past
the gate when the halt came, and its count is zero.

`AnswersStand` needs its own invariant on top, `AInv`. `RowsRight`: a request that is
new or missed has no row and holds no key, and a key belongs to a genuine row.
`WorkRight`: workers are at genuine alerts. `RefusalRight`: before the dispatch
nothing of a request is queued or at a worker, and a refused row never leaves
REJECTED, which is why the beat cannot revive it. `DuplicateIsAnchored` then
follows because a genuine row stays genuine and keeps its key.

`NoOrderIsOrphaned` adds `LandedRight`: what the broker holds was sent once and is not
REJECTED. Its assumption, that the look-up by client order id does not itself fail,
is what `alert_probe` shows to be needed. `AcceptRight`: one worker at most is at an
order, the one that created it for the alert it holds, and what it is about to report
is what became of the order. This gives half of `AlertMatchesOrder` for any number of
workers and crashes (`AcceptedWasSent`). The other half, a rejected alert's order is
dead, wants a single worker that does not die (`OneSteadyWorker`, `RejectRight`): with
two of them, or after a death, a redispatched alert reaches the gate a second time
while its order is out, and the gate saves REJECTED over whatever the first worker
reports (`webhooks/tasks.py:148-152`; TLC finds it with two workers and no fault at
all). No second order is sent, which is `SubmitOnce`; but "process_alert is idempotent"
(`webhooks/tasks.py:53-56`) is true of the order only, not of the alert.

For the refinement every action is a claim (`CreateOrder` of a new row), a
settlement (`RefuseOrder`, `Submit`) or a stutter. The lemma `SettledStutters`
covers the later writes of an order's status: once it was sent its fate no
longer depends on the status.

`KillSwitchProofs` proves of `KillSwitch`, for any sets of requests, workers and
watchers and any number of halts, days and mishaps:

| Theorem | Statement |
|---|---|
| `TypeCorrect` | `Spec => []TypeOK` |
| `GateStops` | `Spec => []StandingHaltStops` |
| `StaysFlat` | `Spec => []FlatStaysFlat` |
| `TripLasts` | `Spec => []TripLastsTheDay` |
| `TwoPolls` | `~Overruns` implies `Spec => TripNeedsTwoPolls` |
| `HaltsStand` | `Spec => []HaltsHold`, the first, second and fourth together |

From `ConstantsAssumption`: the kinds of processes are disjoint, requests never
ask for L2, the bounds are naturals. `TwoPolls` also assumes what its name for
the constant says, that a run of the watcher ends before its lock of 45 seconds
expires. It needs that: with `Overruns = TRUE` in `halts.cfg` two runs read one
window and confirm each other, and TLC reports it.

The invariant: `CallerRight`, a request about to release has picked a row and
only `trigger_halt` has a level in hand. `GateRight`, the rows a worker remembers
are active and of no level its queries have already looked for, so none is left
when the third finds nothing. `FlatRight`, after a flatten that found nobody past
the gate the user stays halted and nobody gets past the gate: the query of the
user's halts would have to find none. `DayRight`, whoever is past the sweep or
past the query of the user's halts, or holds an L2, would find only a breaker of
this day: that is why a trigger which engages nothing because it finds one leaves
the user halted for the whole day, and why a release refuses to end it.
`TripLastsTheDay` alone is not inductive for this reason; `FlatStaysFlat` is not
because of a worker past the gate. For `TwoPolls`, `PollRight`: the run that is
not idle holds the lock and is alone, so the counter it read still stands when it
counts, or has gone back to zero.

`AuditChainProofs` proves of `AuditChain`, for any sets of writers and verifiers and
any number of emits, runs and mishaps:

| Theorem | Statement |
|---|---|
| `ChainStands` | `Spec => []ChainSound` |
| `NoVerifierCriesWolf` | `Spec => []NoFalseAlarm` |
| `NothingBehindTheCursor` | `Spec => RowsLandAhead` |

From `ConstantsAssumption`: writers and verifiers are different connections, nobody is
neither, the bounds are naturals. `ChainLinear` is not inductive: a row with a stale
link may lie in an open transaction. `LockSound`: whoever has written rows, or has
taken the lock and not yet inserted, holds it, and a lock that goes back with the
savepoint covers no row. Hence `HeadSound`: the head that was read is still the head,
as nobody else can commit or write in between, so the link trigger agrees. `RowsSound`
is the chain seen by each connection: every row holds the hash of the newest row
before it, ids are not drawn twice, and uncommitted rows lie beyond every committed
one. `CursorSound`: the cursor, and what a verifier loaded or found, are places on the
chain; the lemma `WalkFits` shows that a walk from such a place meets no broken link,
which is `NoFalseAlarm`. The hash is injective by what it stands for; that nobody
tampers is part of the module.

`FillStreamProofs` and `OrderLedgerProofs` prove of `FillStream`, for any number of users,
messages, overlapping sweeps and faults, and of `OrderLedger`, for any orders and lots, trades
elsewhere and mishaps:

| Theorem | Statement |
|---|---|
| `PatienceKept` | `Spec => []FillsConsistent` |
| `NoFillLost` | `Spec => []NothingLost` |
| `FilledIsNoGuess` | `Spec => []FilledIsTrue` |
| `LedgerIsTrue` | `~LookupsFail => (Spec => []LedgerTrue)` |

From `ConstantsAssumption` and, for the transport, `KeysDiffer`: no stream key is a counter
key. `NothingLost` says that a published fill is applied, dead-lettered, pending or unread;
a step can break it only by acknowledging, so `AckedSettled` says that what was delivered
and is no longer pending is settled, and `SweepTrue` carries what a sweep knows from one of
its Redis commands to the next: at the acknowledgement the entry is settled, at the burial
it is malformed or was tried often enough. For the second, `CountsHonest`: a counter never
shows more attempts than have failed, although sweeps overlap and counters expire. The
lemmas about `First` (one XREADGROUP skips nothing) and `Min` are proved from the
definitions of the library, by least counterexamples.

Of the ledger, a status is true when it tells of the broker (`StatusTrue`), and so must be
whatever is still on its way: events (`EventTrue`), answers fetched before and applied later
(`ReplyTrue`), and the decision to resolve an order, which comes only after its worker has let
go of it (`Resolves`). `Forward` is why none of them goes stale: a closed order stays as it is
at the broker, and one whose submit is over does not land any more. With `LookupsFail` a
REJECTED may be wrong, which is the finding of `alert_probe` once more; `FilledIsTrue` holds
even then.

`AccessProofs` proves of `AccessSpec`, the seven parts of `MCAccess` side by side, for any number
of requests at a time, mixes of operations, mails, families, strategies, bundles, flags,
accounts, sessions and calls:

| Theorem | Statement |
|---|---|
| `SessionsAreEnded` | `AccessSpec => []SessionsEnd` |
| `GuessesAreFew` | `AccessSpec => []GuessingIsBounded` |
| `UploadsAreWhole` | `AccessSpec => []UploadsWhole` |
| `NothingRevives` | `AccessSpec => NothingComesBack` |
| `DevicesAreConfirmed` | `AccessSpec => OnlyConfirmedDevices` |
| `StaleCopiesAreHarmless` | `AccessSpec => CopiesAreHarmless` |
| `StreamsAreHonest` | `AccessSpec => []StreamsHonest` |
| `DefaultsAreBounded` | `AccessSpec => []DefaultsBounded` |
| `RowIsUsable` | `AccessSpec => []RowStaysUsable` |

From the assumptions of the modules: requests are finitely many and not none, rotations,
thresholds and limits are at least one, bundle stems and folder names are numbers or
sequences of them. `AccessInv` is the conjunction of one invariant for each part. `IdInv`, of the
account: `Ends`, where a request that ends sessions is, and that every family it owed an
end is revoked or still on its list; `LockInv`, the failures recorded and those that passed
the gate and are still to be recorded are together at most `Threshold` and one less than
the requests; `GuessInv`, the same for the codes of each path, with the first misses in
flight counted apart because each of them sets the counter back to one; `RowInv`, whatever
is written or mailed has a row. `GuessesBounded` was first stated with a smaller bound,
which two requests at a time satisfy; the proof attempt showed that it is false for three,
as every first miss that is still in flight gives one more round, and the bound
was corrected to what holds for any number. `StratInv`: calls are about rows there are, and every
strategy has all three files, or a call that is still at its files, or was cut there. `DeskInv`: the
defaults other than the oldest account, the connects about to insert one, and one place for the
oldest account, if it is the default or a removal whose account is not a default any more may
promote it, are together at most as many as the requests (`Tally`). A connect that clears
gives every place back and takes one; a removal can only make the oldest account the default.
The number of defaults alone is not inductive, as an insert and a promotion add one and clear
none. It assumes that the requests are finitely many and not none. `StreamsInv`: of the
threads of an account one is registered with the supervisor and the others have been told to
stop (`ThreadsKnown`), and a beat that shows as connected, in the cache or in the hands of the
supervisor, belongs to an account with a thread that connects or is up, unless it was
overtaken (`HbTried`). `TsInv`: tokens are in rows of their login only (`Placed`);
one callback at most has those of a login (`OneCallback`), and the rows it has yet to
write have none of them (`Unwritten`). Where the broker replaces refresh tokens, what
is about to be saved is accepted and everyone else of that login has an older one
(`FreshSave`); so is what a callback stores in the only row of a login, unless it has
refreshed (`FreshLink`); and in such a row a token is dead only while a call has the next one to save
(`DeadIsReplaced`).

`ResearchProofs` and `DecisionProofs` prove of the modules of `MCResearch`, each of the
specification named, without fairness:

| Theorem | Statement |
|---|---|
| `OneScreenAtATime` | `ScreensSpec => []OneActiveScreen` |
| `CapIsKept` | `BackSpec => []CapHolds` |
| `BooksAlwaysClose` | `ReplaySpec => []BooksClose` |
| `NothingIsHalfDone` | `ResearchSpec => []FinishedIsWhole` |
| `BlocksMeanTheirLines` | `ResearchSpec => []BlockMeansItsLines` |
| `WalksAreSound` | `ResearchSpec => []WalkIsSound` |
| `NoLookAheadInSignals` | `ResearchSpec => []SignalsStand` |
| `TablesAreReproducible` | `ResearchSpec => []TableIsReproducible` |
| `ComputationsAlwaysAgree` | `ResearchSpec => []ComputationsAgree` |
| `SizesAreSafe` | `SizingSpec => []SizingIsSafe` |
| `StressShrinksOrders` | `SizingSpec => []SizeFollowsStress` |
| `SizingReadsNewestNews` | `NewsSpec => []NewestNewsRead` |

`OneScreenAtATime`: two active rows are the same row; a row is inserted only when
none is active, and every other step leaves a row's status or ends it. Rows are
never set back to an active status by the late worker, which is the point.

`CapIsKept`: the runs at work together with the POSTs that have counted and not
yet created stay at most `Cap + Cardinality(Clients) - 1`. A POST that counts sees
every run at work as active (`ActiveAtWork`), so there are fewer than `Cap` of
them, and there are at most as many POSTs as clients. It assumes that the clients
are finitely many and not none.

`BooksAlwaysClose`: `Balanced` ties cash, cost of the position, commissions and the
gains of the trades together; it is proved of each part of a bar
as a function from ledgers to ledgers, and `Waiting` says what a signal may wait
for. It is proved for any prices, volumes, sizes, costs and number of bars.

`NothingIsHalfDone`: `Whole` says where a backtest's worker is and what its row has by then;
`TasksCount`, that the counts of a screen's task add up to the candidates it is done with.
Neither needs more of the vendor than the types of its answers.

The next four are the parts of `ComputationsAgree`. `BlocksMeanTheirLines`: `BlockInv` says what the
parser holds after the lines read, whatever they are: the facts of the sound lines, an error for
each other line and for each that repeats, and never two values of one thing.

`WalksAreSound`: `WindowsInv` is about the windows made so far, each one test length behind the one
before; that as many are made as fit is a lemma on quotients (`Fits`). `ScanInv` says that the
closed runs and the open one are the maximal gaps (`Gap`) among the days scanned; a present bar
leaves the gaps as they are, a missing one opens a gap or makes the open one longer
(`BarComes`, `GapOpens`, `GapGrows`). `WalkAssumption` asks for what the serializer lets through:
training and test lengths of at least one day, and no parameter with an empty list of values
(`backtest/serializers.py:37-39`).

`NoLookAheadInSignals`: two series that have the same bars in the window behind a row have the
same mean there, whatever the sum of a window is (`WindowTells`); so neither later bars nor those
more than `warmup_bars` back change a row.

`TablesAreReproducible`: `rank` is a strict order on rows whose symbols differ (`RankOrders`, over
`ColumnsAre`: a column is one number or missing), so the rows that pass have as many different
numbers of rows ahead of them as there are places, and every place has its row
(`OneForEachPlace`). A reordering of the candidates carries the rows ahead of a row to the rows
ahead of the same row, so the numbers, and with them the table, stay (`Reordered`). `ListInv` adds
that the vendor sends each symbol once. Nothing is asked of the averages but that a series too
short has none.

`SizesAreSafe` is for every profile and order the validators let through (`RiskProfile`, `Order`),
not for the samples of the run: each limit is a floor of a quotient, the quantity is at most
each of them, and the factors come before the limits they could break. Without a profile the
code sizes nothing, and the property says nothing. `StressShrinksOrders` goes through the
chain one link at a time: the score, the bucket, the model's opinion and the scale are each
monotone in stress, and so is every floor. `SizingReadsNewestNews`: `NewestIsTrue`, as long as
nothing was taken in or scored since the newest run began, what it wrote is what it would
write now; `RowsAreSingle` makes the newest row of a scope unique.

Every property that a run finds to hold is proved but for the liveness properties. Model-checked only:

- every liveness property, `AlertsSettle`, `FillsGetSettled`, `PositionConverges`,
  `OrdersSettle`, `BreakerReacts`, `AuditMoves`, `DueGetsErased`, `AccessConverges`, `ResearchEnds`,
  `ArticlesEndScored`: fairness and ENABLED are outside the prover's reach;
- the properties of the runs that report a finding, which do not hold.

## 5. Not modelled

- Dashboard push, frontend, deployment: best effort, or without state that the
  rest relies on.
- The broker-specific translation of orders, positions and errors beyond what
  the pipeline distinguishes; TradeStation's account and order calls.
- Average prices and realised profit of positions (`_apply_fill_to_position`).
- Metrics and parameter scores of a backtest, training and replacement of the
  hidden Markov model, the two tiers that score articles: numeric or external.
- Live accounts: the mode switch reads `user.live_trading_enabled`
  (`brokers/views.py:245-248`), which is no field, so every account is a paper
  account and `place_order` never asks the live gate.
- The profile, onboarding and terms of a user; lists and health probes of the
  admin portal; rate limits; mails and notifications.

## 6. What is left

1. A composition of `FillStream` with the ledger, to replace the set of events.
2. The numeric parts named above, where a bounded reference definition would
   say something about them.

The modules that are proved about use no recursive operators.
