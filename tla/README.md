# Verification of btc_quant_framework

TLA+ models of the order handling, paper trading, safety, recovery, service and
research code of this repository, the TLC configurations that check them on small
instances, and proofs of their main properties for every instance. Paths below are relative to
`src/src/crypto_quant` unless they start with `scripts/`, `docs/` or `config/`.

## 1. The system

The framework researches BTC strategies on candles, trades them on a paper
account and drives a Binance futures *demo* account. It is no single server: it
is a set of scripts and dashboard buttons, and every one of them starts a
process. The processes share

- one SQLite file (paper account, orders, audit tables, exchange events,
  idempotency keys), where nearly every store method opens a connection and
  commits on its own, so that a step of the program is a *sequence* of commits;
- a few JSON and parquet files (kill switch, service state, dataset), rewritten
  in place without a lock;
- the exchange, which answers late, twice or never, and fills and triggers
  resting orders whenever it likes.

There are no threads with shared memory. What makes the system hard is therefore
interleaved *processes*, kills between two commits, answers that are lost,
events that are late or repeated, and snapshots that are old when they are used.

## 2. Inventory

| component (code) | state | operations | hard behaviour | what makes it correct | model |
|---|---|---|---|---|---|
| Order submission (`exchange/idempotency.py`, `retry.py`, `errors.py`, `resilient_executor.py`) | `idempotency_keys`, `resilient_order_attempts` | derive id, reserve, call with retries, log attempts, write the final status | two processes on one key, lost replies, kills | nothing is sent that the ledger does not know; a bounded number of orders per intent; submitted is for ever | `ResilientExecutor`, `SubmissionLedger` |
| Order lifecycle (`exchange/events.py`, `sync.py` `ingest_event`, `order_state_machine.py`, `partial_fill.py`) | raw events, order rows, lifecycle rows, transitions, protection plans | receive, upsert, compute the new state, append | late, repeated and missed events, two listeners, kills | the tables follow the exchange and claim no fill that did not happen | `OrderLifecycle` |
| Paper trading (`paper/*`, `risk/circuit_breaker.py`, `risk/protective_orders.py`, `execution/bridge.py`) | account row, orders, execution events, target decisions, equity curve | a step of the model runner, a step of the ensemble runner | kill between commits, forced repeats, two runners on one account | account explained by orders, a candle traded once, stops and loss pause honoured | `PaperTrading` |
| Demo execution (`exchange/target_position.py`, `target_execution.py`, `state_snapshot.py`, `pretrade.py`, `synced_target_execution.py`, `binance_futures_demo.py`, `safety.py`, `protective_orders.py`) | only the exchange's | snapshot, plan, check, send, place protection, cancel all | torn and stale snapshots, overlapping runs, half-sent plans | never short, bounded overshoot, an unprotected position does not grow | `DemoExecution` |
| Unsynced target execution (`scripts/demo_ensemble_target_execute.py`) | none | plan on the paper account, send | every re-run buys again: the paper account never learns of demo fills | overshoot of one capped order per run | `DemoExecution` |
| Recovery (`exchange/recovery.py`, `sync.py` `fetch_and_record_snapshot`, `recovery_executor.py`, `daemon/supervisor.py`, `deploy/service.py`, `alerts/*`) | reconciliation runs, recovery actions, heartbeats, alerts, status file | read, compare, derive actions, record them, beat, alert, sleep | account and exchange read at different times; any insert may raise, in the handler too | what lasts is reported; trouble leaves a heartbeat and an alert | `Recovery` |
| Live safety (`live/live_safety.py`) | kill switch file, validation report, event log | trigger, clear, validate, evaluate the gate | the gate reads seven sources one after the other while the operator writes | a gate that passes overlooked nothing that lasted | `LiveGate` |
| Pre-live workflow (`live/prelive_workflow.py`) | checklist, approvals, API audit | mark, reset, approve, audit, review | the review demands what the gate forbids | a review that passes overlooked nothing that lasted | `LiveGate` |
| Shadow monitor (`live/shadow_monitor.py`) | snapshots, drift report | refresh, compare, report | stale and offline snapshots | as above | `LiveGate` |
| Service manager (`ui/service_manager.py`, `scripts/manage_services.py`) | state file and process of each service | start, stop, restart, status | check-then-act between sessions, asynchronous SIGTERM, zombies, a probe that times out | the state file names every process that runs | `ServiceManager` |
| Realtime feed (`data/realtime.py`, `data/storage.py`) | kline table, status row, dataset file | connect, receive, upsert, merge, reconnect, give up | redelivery after a reconnect, two writers of the file | nothing saved is lost; the status row tells when it ended | `RealtimeFeed`, composed in `LocalServices` |
| Downloaders, data quality (`data/ohlcv_downloader.py`, `okx_downloader.py`, `quality.py`) | candle file, audit report | page, merge, save, audit | page boundaries while bars close | no hole, no bar of half its values | `CandleHistory` |
| Models and validation (`models/*`, `realism/validation.py`, `research/sequence_experiments.py`) | reports | cut folds and windows, train, calibrate, test | boundaries of purge, embargo and windows | purged folds keep labels out of what judges them; rolling windows keep the order of the rows, which is less than their docstrings say | `FoldValidation` |
| Strategies, exposure, backtests (`strategy/*`, `research/ensemble.py`, `research/signal_confidence.py`, `backtest/*`) | none while they run | decide at a close, step the equity, extract trades | shift and stop off-by-ones | trades account for the curve; holding limits hold | `Backtest` |
| Research pipeline, admission, daily report (`scripts/run_safe_research_pipeline.py`, `research/*`, `operations/daily_report.py`) | reports, leaderboard, admission snapshot | run thirty scripts in order, rank, snapshot | a script that fails leaves old or half reports | a candidate is admitted on evidence that is there | `ResearchPipeline` |
| Features, estimators, market realism arithmetic, execution simulator, risk manager, dashboard pages, interfaces | none | arithmetic, layout | none | | not modelled (section 14) |

How they interact: the paper runners and the event listener write the SQLite file
the recovery comparison, the gate and the dashboard read. The demo planner sends
through `BinanceFuturesDemoBroker` directly (`DemoExecution`) or through
`ResilientExchangeExecutor` (`ResilientExecutor`); the exchange answers with the
events that `OrderLifecycle` ingests. The dashboard and the service manager start
the same scripts an operator starts by hand, so any of them may overlap.

`PROJECT.json` lists every component with its status, and under "hazards" each
place where an ordinary test would hardly find a fault.

## 3. Order submission: `SubmissionLedger`, `ResilientExecutor`

`submit_intent(execute=True)` is a chain of commits: read the ledger
(`ReadLedger`), refuse (`DuplicateBlocked`) or upsert the pending row
(`Reserve`), call until success, refusal or `max_attempts` (`CallExchange`),
append one audit row per attempt (`LogAttempt`), write the status (`Finish`).
`reserve` reads and writes without a transaction around both, hence two actions.
`Crash` kills a process at any of them. A call without a reply leaves a request
*in doubt*: `Arrive` and `NeverArrives` decide on it at any later time.
An intent without an id of its own has the same key on every run (all runs are
taken to fall into one time bucket); one that carries an id (the planner's uuid)
has a fresh key each time.

`SubmissionLedger` is the abstract promise: requests leave only under an open
key, a key opens only when it is free, a closed key never opens again.

| run | instance | states | what it shows |
|---|---|---|---|
| `ResilientExecutor` | 2 processes, 1 intent, 2 attempts, 3 runs, 1 kill, all outcomes | 313,167 | `WriteAhead`, `SubmittedIsLive`, `AuditCoversResult` however processes interleave and die; a pending key is resolved unless a kill intervened (`PendingResolves`). Without overlapping runs the executor implements the ledger (`ImplementsLedger`); if moreover no call is interrupted, n runs leave at most n·(attempts−1)+1 orders (`ExposureBound`) |
| `ResilientTimeoutThenRefusal` | 1 process, 2 attempts | violation | a timeout followed by a refused retry is recorded `failed`, against `docs/EXCHANGE_RESILIENCE.md:57` |

The last of these is a documented promise the code breaks. Another one is
broken by construction: the planner gives every intent a random id
(`exchange/target_position.py`), so that a re-run submits again, although
`docs/EXCHANGE_RESILIENCE.md:45` derives one stable id from the intent.

Two processes and one key are enough for every read-write race on a row; the
third run lets a freed key be taken again after each of the outcomes; two attempts are
a lost answer and its retry (the bound is proved for any number). A behaviour
chooses at its start what the operator allows himself (`liberties`): to run two
scripts at a time, to interrupt a call. While two runs overlap the ledger is *not*
implemented (both may reserve the key), and an interrupted call frees its key
whatever its request did: that is why the refinement and `ExposureBound` name
the liberties they exclude.
Fairness: a started script runs on (`WF` of its steps); nothing is assumed of the
exchange.

Proved (`ResilientExecutorProofs`): `TypeCorrect`; `LedgerSafe` (`WriteAhead`,
`SubmittedIsLive`) for any number of processes, by `LedgerInv`, which adds what a
process in the middle of its call relies on: its row exists, and the order it is
about to report exists (`SubmittedIsTrue` states its second half by itself);
`AuditComplete` (`AuditCoversResult`) by `AuditInv`: what a process has logged so far
are rows of its key, so whatever result it is about to write is covered, whoever
crashed or overwrote whom. `LedgerImplemented` and `ExposureBounded` rest on
`OwnerInv` (as long as no runs overlap nobody changes the row between the read and
the update); the second counts with `ExposureInv` what every kind of finished run has
left behind.

## 4. Order lifecycle: `OrderLifecycle`

The exchange (`Accept`, `Trade`, `End`) emits one stream. A listener works through
`ingest_event` commit by commit: raw event (`Receive`), order row (`UpsertOrder`),
account event (`RecordPosition`), lifecycle row read (`LoadLifecycle`) and written
(`UpsertLifecycle`), transition (`AppendTransition`), partial-fill plan
(`AppendPlan`). The script ends after `--max-messages` (`MaxMessages`, `left`) or when
its connection breaks (`Disconnect`), and runs again only if somebody starts it
(`Listen`); what the exchange sent meanwhile is missed. `Crash` cuts an event
short, `Replay` (`scripts/demo_event_replay.py`) feeds an old one. Prices are left
out, quantities are small integers.

| run | instance | states | what it shows |
|---|---|---|---|
| `LifecycleStream` | entry + reduce-only exit of quantity 2, 1 listener of 3 messages, 1 loss | 686,664 | the last event heals the tables (`MirrorsExchange`), nothing moves backwards (`OnlyForward`), every end is learned if the listener is started again and again (`EndIsLearned`) |
| `LifecycleRace` | 1 order, 2 listeners of 2 messages, 1 loss, 1 replay | 1,429,057 | rows are explained by recorded events, no fill is invented, none is lost from the audit |
| `LifecycleLateEvent` | 1 order, 1 replay | violation | a late partial fill raises no warning, against `docs/ORDER_STATE_MACHINE.md:31` |

Quantity 2 gives one partial and one completing fill, the only cases
`TotalFilled` and `NeedsPlan` tell apart; one loss is enough because the
properties are about the events around it. An order sends up to five messages, so a
listener of two or three ends in the middle of its life. Fairness: a listener whose
socket is open takes the next message and ingests it, nothing more. Nobody is
assumed to start the script, so `EndIsLearned` is conditional: *if* a listener is
always started again (`[]<>(left[l] > 0)`), every end is learned or was missed.
Without that the end of an order may never reach the tables: after its tenth
message the script is over.

Proved (`OrderLifecycleProofs`), for any listeners, replays and kills: `TypeCorrect`;
`FillsAreReal` (`NoPhantomFill`) with `EventsTrue` (no event of the stream ever reports
more than is executed by now); `LifecycleAudited` (`LifecycleExplained`) with the fact
that a busy listener's event is recorded; `FillsAudited` (`FillsAccounted`). The last is
about a sum of deltas two listeners may compute from the same old row, so `AccountInv`
speaks of *contracts* instead: there is a set of contracts no larger than the recorded
sum, and every contract the tables or a listener at work claim is in it or about to be
counted.

For one listener that replays nothing: `MovesForward` (`OnlyForward`) and
`ExchangeMirrored` (`MirrorsExchange`), whatever is missed and whenever the listener is
killed or started again. `StreamInv` says what the exchange's stream is like (only the last event of an
order finds it closed, quantities only grow), `FollowInv` that each row comes from an
event handled before, and `ShownInv` that the tables show the latest event taken of
every order unless that one was lost. Both hypotheses are needed: the run
`LifecycleRace` reaches states that contradict either property.

## 5. Paper trading: `PaperTrading`

Both runners load the one account row, mark it to market, test the protective exits
on the last bar, decide, trade in memory, and then commit account, order, execution
event or target decision, and equity point one by one; each commit is an action.
A new candle (`NewCandle`), a kill (`Crash`) or a forced repeat (`Repeat`,
`--allow-repeat`) may come between them. Money and prices are integers (price about
100, one ATR is 4), a level of 0 stands for None.

`PaperTrading.cfg` (about 260,000 states): three candles, of which one opens, one
moves the trailing stop and one reaches the stop; one kill or one repeat. It shows
that orders explain the account, that a candle is traded once up to the kills, that
a held position survived every processed bar, that the loss pause and the daily loss
limit hold across restarts, that stops only tighten, and that the loops keep up
(`KeepsUp`). Fairness there is the weakest that helps: *some* runner goes on
stepping, because both loops catch every exception, sleep and run again.
The run takes steps of the two runners one at a time (`Concurrent = FALSE`); when
two steps overlap the account row is simply overwritten and `OrdersExplainAccount`
fails. Nothing in the code or its documents promises otherwise, so it is a listed
hazard and no finding.

Proved (`PaperTradingProofs`), for every series of candles, set of limits and number of
runners, killed and repeated at will:

- `OncePerCandleHolds` (`Concurrent = FALSE`): `ControlInv` counts, for every candle, the
  trades of each runner against what has been logged for it, what is on its way to be
  logged, and the kills;
- `StopsTighten` (`Concurrent = FALSE`), even for a bankrupt account: `LevelInv` follows
  the levels from the account row into a runner's memory and back;
- `TypeCorrect`, overlapping steps included, of the behaviours in which the model never
  enters with an account that is not worth one contract (`EntriesFunded`): `buy_delta` of a
  smaller account buys nothing and still attaches the levels, which `TypeOK` excludes;
- `StopsAreHonoured` (`StopHonoured`, `Concurrent = FALSE`), if moreover the account is
  worth something whenever the ensemble runner closes a position (`ExitsSolvent`): its
  rebalancing returns early from an account of no worth, and the position stays through its
  stop. `StopInv` says which bars the position in the file, or in memory, has survived,
  and that nothing was bought before the last sale;
- `OrdersBalance` (`OrdersExplainAccount`, `Concurrent = FALSE`, `EntriesFunded`): what a
  runner has decided is the stored account changed by its order and nothing else
  (`Settled`, in `Decisions`), so the row is what the saved trades add up to
  (`Balanced`), and without a kill the orders table holds these trades but for the one
  on its way (`Recorded`);
- `BreakerIsKept` (`BreakerHolds`, `Concurrent = FALSE`, `EntriesFunded`): `BreakerKnows`
  says what the account row remembers of the closed trades. Its loss counter is no less
  than any run of losses that is still going on (`LossesKnown`), its pause outlasts
  every streak the model closed (`PausesKnown`), its daily result is that of its day,
  and no trade is of a later day (`DaysKnown`). The model then enters only if the
  breaker allows it for the *stored* account, kills and repeats included.

`EntriesFunded` and `ExitsSolvent` are conditions on the prices, not on the program;
TLC found that both hold in every state of the instance of `PaperTrading.cfg`.

## 6. Demo execution: `DemoExecution`

A run of `scripts/demo_ensemble_synced_execute.py` reads the position, *then* the
open orders (`ReadPosition`, `ReadOrders`), plans and checks (`CheckPlan`) and sends
the intents one after the other, each of which the order-size guard may refuse
(`Send`); any step may be the last (`Stop`). The operator's scripts place a stop and
a take-profit (`PlaceProtection`) or cancel everything in two requests
(`CancelStandard`, `CancelAlgo`). An unsynced run
(`demo_ensemble_target_execute.py`) plans on the paper account and sends without a
look at the exchange and without a check (`PlanUnsynced`). The exchange fills and
triggers at will. Market and limit deployments are both initial states, and so is whether the exchange lists
conditional orders among the open ones (`listed`). Quantities are notional units at
one reference price; the guard values conditional orders at their trigger price
(`ref`).

`DemoExecution.cfg`: two runs, targets 0 and 3, an order cap of 2 (so a target takes
two orders, and protection for the whole position is above the cap), at most two
resting orders, sizes up to 4, one run that sends without having looked (`MaxBlind`;
3,085,164 states up to symmetry; for market orders position 7, the bound with one
such run, is reached). Two runs are the
least that overlap, and what more of them add is the parameter of the bound
`Stale`. It shows

- `LongOnly`: stops, fills, cancels and other runs never turn a planned sale into a
  short position;
- `ExposureBound`: the position exceeds the largest target by no more than the
  outdated snapshots explain: one cap per *other* run for market orders, and for
  limit orders one more per run, because an order that fills between the two
  reads is in neither of them, besides one cap for each run that sent without
  having looked at the exchange (`blind`). `LongOnly` and both bounds hold on every state, no
  fairness is needed: the scripts are finite and the exchange owes nothing;
- `NakedBound`: a position that never had protection stays within its first order and
  what outdated snapshots and blind runs add.

With `--execute` but no `--fetch-private` a run plans on a simulated flat account
and sends its purchase, although `config/config.yaml:446` sets
`require_private_snapshot_before_execute: true`: nothing reads that key. The model
has both kinds of run and counts the former in `blind`, with the unsynced ones.

Proved (`DemoExecutionProofs`), for any number of overlapping runs and both order types:

- `TypeCorrect` and `NeverShort` (`LongInv`: every sale in flight is reduce-only, every
  plan is well formed);
- `OvershootBounded` and `NakedBounded`, the two bounds. Neither is inductive: that a
  position is within its bound says nothing of the orders still to come. `BoundInv`
  counts them. A run has a *claim* on one order from the read that showed it room until
  it has sent its purchase or given up (`Claims`; `NakedClaims` are those that saw
  nothing to protect, or protection). Each claim and each resting purchase
  (`Purchases`) takes one order off what is left of the bound (`Left`), and a fill, a
  refusal, a kill or a cancel gives it back (`ExposureQuiet`, `Filled`). One of them may
  be worth less than the cap: what was left up to the target when its run read the
  position (`Worth`); this is why the first run costs no order of the bound.
  `RestingInv` says why a limit deployment costs two orders a run and not more: a run
  sends only if it saw no purchase resting, so those that rest come from different
  runs. TLC found all four parts (`PurchaseInv`, `RestingInv`, `ExposureInv`,
  `NakedInv`) to hold on the instance above before they were proved.

## 7. Live safety, pre-live review, shadow monitor: `LiveGate`

Seven scripts consult the same files and tables. A script is a sequence of reads
and writes (`Program`), and each of its steps is an action: `ReadKillSwitch`,
`ReadValidation`, `ReadCircuit`, `CountUnknown` and the verdict for
`LiveSafetyGate.evaluate`; `LookAtEvidence`, `ValidationVerdict`, `ValidationFill`
for the validation report; `Fetch` or `OfflineLook` and `OfflineAppend`,
`CompareSnapshot`, `CompareAccount`, `CompareTarget`, `MonitorVerdict`,
`MonitorFill` for the shadow monitor; `AddDefaults`, `ReadMonitorReport`,
`ReadPayload`, `LoadChecklist`, `LatestApproval`, `ReviewVerdict` for the review;
`KillSwitchTruncate` and `KillSwitchFill` for the kill switch command. Files are
truncated and then filled. `ReadCircuitFails` and `CountUnknownFails` are the two
reads whose exception the code turns into an answer. Beside the scripts the
configuration is edited, the paper loop steps, accounts trade, rows age, items are
marked and approvals decided (`OutsideStep`).

`steady[p]` is a history variable: the concerns of the list the documents give for
the script (`docs/LIVE_SAFETY_SHADOW_MODE.md`, `docs/SHADOW_MONITORING.md`,
`docs/PRELIVE_OPERATOR_WORKFLOW.md`) that have held ever since the script started.

Positions, exposures and equities are members of two small sets whose values are
further apart than the tolerances of `config/config.yaml`; a paper equity of 0 gives
no equity drift, as in `live/shadow_monitor.py:443`. A drift is a concern as long as
the *same* two values differ (`Gap`).

`LiveGate.cfg` (4,171,519 states): two scripts overlapping, of which one is a
readiness report (which evaluates the gate) or a review and the other a gate, a
validation, a monitor or a kill switch command (`MCKinds`), one outside change, one
failed read, three positions, two equities, the shipped configuration and one with
the live switches on and a key pasted in, an installation that is new, one that
earlier runs have put in order (a monitor report included), and one in order whose
real account has drifted from its snapshot and the snapshot from the paper account.
It shows

- `NoConcernOverlooked`: a script that passes had no concern that held from its
  start to its verdict. Stronger claims are false. A concern that comes and goes
  between two reads is missed, and a read that fails counts as no unknown order.
  The monitor reads snapshot, account and target one after the other
  (`live/shadow_monitor.py:374-376`), so two quantities that differ all the time, but
  not by the same values, may look equal: snapshot 1 is read, another script stores
  snapshot 2, the paper account moves from 0 to 1 and is read;
- `ReviewExcludesGate`: no configuration passes both the review and the gate, so
  somebody edits the configuration after the review, and no review can confirm
  what they did.

Two scripts are the least that can write what the other reads, and one change already
falls between any two reads. More scripts, changes and values are left to the proof
below, which bounds none of them; that a configuration whose only fault is a
pasted key cannot pass a review is also the theorem's. The scripts differ in kind, so
there is no symmetry. A script may stop anywhere (no fairness), so deadlock is not checked.

Proved (`LiveGateProofs`), for any number of overlapping scripts, outside changes,
failed reads, positions and equities: `GateTypeCorrect`, `NothingOverlooked` (`NoConcernOverlooked`) and
`ReviewAndGateExclude` (`ReviewExcludesGate`). The inductive invariant `GateInv` says of
each script what the property says only of finished ones: a concern that has held since
the script started is *still to be read*, or one of the checks made so far has seen it
(`GateWatch`, `EvidenceWatch`, `MonitorWatch`, `ReviewWatch`). That needs the order of
the steps left (`Ordered`: what a comparison needs is read before it), which steps only
one kind of script has (`StepsOfKind`), and, for the monitor, that a snapshot which keeps
differing from the account still differs in the copy it read (`MonitorSaw`).
`ConfigInv` carries the switches from the reads of the configuration to the verdict.

## 8. Services and the realtime feed: `ServiceManager`, `RealtimeFeed`, `LocalServices`

`ServiceManager` is a pid file protocol without a lock. A request reads the state
file (`ReadState`), probes the pid (`Probe`, on Windows `ProbeTimesOut`), may mark the
file (`Mark`, `MarkFill`), spawns (`Spawn`, `SpawnFails`) or signals (`Terminate`,
`TaskKill`), and writes the file again (`Truncate`, `Fill`). `Abandon` kills the request
at any of these steps, and what it has spawned goes on. On POSIX the signal is
not awaited and a dead child stays a zombie that still answers `kill 0` until its
parent reaps it (`Spawned`, `Reap`).

`RealtimeFeed` is the listener: connections (`Connect` to `GiveUp`), messages
(`Receive`), the merge into the dataset file (`LoadDataset`, `ReadFrame`,
`TruncateDataset`, `SaveDataset`), and the download script, which rewrites the same
file. `LocalServices` composes both: the manager's pids are the feed's listeners,
spawning one launches it, `taskkill` ends it wherever it is, after SIGTERM it goes
on until it dies.

`LocalServices.cfg`: one session of the dashboard and one command, two requests, two
processes, one candle (two messages), one reconnect, one download, both platforms.
The state constraint `UntilDoubtful` cuts a behaviour after the first overlap of two
requests, the first probe that timed out or the first request killed with something still
to write (`OwesRecord`), because every property excludes what follows; the state right after is still checked. It shows `RecordedIsReal` (no
service runs, or still dies, that the state file does not name), `DatasetWhole` and
`EndedIsTold`. Outside the properties, because the code does nothing against them:

- two requests that overlap may both start the service, and the second file hides
  the first process;
- a request killed between `Popen` and the end of `_write_json`
  (`ui/service_manager.py:184-224`) leaves a process no file names;
- a restart on POSIX finds the dying process, answers that the service already runs,
  and nothing runs afterwards;
- a merge and a download that overlap lose what the other saved; a kill during a
  save leaves a torn file, which every later merge fails on.

## 9. Recovery: `Recovery`

A pass reads the account, the position, then the open orders (`ReadAccount`,
`ReadPosition`, `ReadOrders`), compares and records (`RecordReport`), records one
action after the other with its alert (`Act`, `AlertAction`), beats and warns
(`Heartbeat`, `Warn`). `Raise` is any exception; the supervisor's handler
(`ErrorBeat`, `ErrorAlert`) may be killed but catches nothing itself. `Preflight`,
`BuildStatus` and `WriteStatus` are the service runner. Nothing a pass does reaches
the exchange: the actions a report can hold are blocked, manual or record-only
(`Outcome`), and the two cancel actions of `execute_action` are in no report.

The status builder swallows a table it cannot read (`deploy/status.py:68-72`) and
writes the file all the same: `BuildStatus` then sees no heartbeat, and
`TroubleHasAlert` asks of the status file that it shows the last heartbeat or none at
all, never an older one.

`Recovery.cfg` (3,075,472 states): a run of any of the four scripts, the supervised ones with two
iterations, beside an offline service with one; one change of account or exchange,
one exception. `MCCommands` and `MCIterations` bound each run by itself. It shows
`SteadyMismatchReported` (a mismatch that lasted through a private pass is in its
report, its actions and its heartbeat) and `TroubleHasAlert`. A mismatch of two
moments may be reported although there is none: the code reads account and exchange
apart, and the property is about troubles that last. Quantities are compared without
their sign (`exchange/recovery.py:66`): a short position equal to the paper
account's long one is no drift. A failed health check calls `alert_router.send`,
which does not exist (`deploy/service.py:76`), so the service ends without its alert.
The actions of a report come in a fixed order (`Warnings`), that of the `if`s of
`compare_recovery_state`.

Proved (`RecoveryProofs`), for any runs, iterations, changes and exceptions:
`TypeCorrect`; `MismatchReported` (`SteadyMismatchReported`) with `ReadInv` (what a pass
has read so far agrees with a trouble that lasts) and `ToldInv` (afterwards it is in the
report, and its action is recorded or still to be); `TroubleAlerted` (`TroubleHasAlert`)
with `BeatInv`, `LastInv` and `FileInv` (the last heartbeat of an iteration, what is
stored for it at each step, and what the only service has written after it, read or unread).

## 10. Research: `CandleHistory`, `FoldValidation`, `Backtest`, `ResearchPipeline`, `Research`

Scripts of the research side run alone and meet in files only, so one run,
`Research.cfg`, lets each behaviour choose one of four (`Research`):

- *a downloader* (`CandleHistory`): pages forwards (Binance, CCXT) or backwards (OKX)
  while bars close between requests (`BarCloses`), requests that fail for good, the
  merge, the audit. Six bars, pages of two, which gives full, short and empty pages,
  resumed and full updates. `CandleFileSound`: no hole is left, and with OKX only the
  last row can be unfinished. The forward downloaders resume after the last stored
  row and never read it again: an unfinished bar there stays for good;
- *an experiment* (`FoldValidation`): purged and embargoed folds, the three window
  loops, the dated split. Datasets of 6 to 17 rows with horizon 2, three splits and
  windows of 4, 2 and 3 rows reach every skip, the short last window and a last block
  of another size. `FoldsKeptApart`: the purged folds keep labels out of the test
  block and test labels out of training; the others promise the order of the rows
  only (train, calibrate, test); and no row is tested twice;
- *a backtest* (`Backtest`): every rule, the ensemble's vote, dynamic and confidence
  exposure, both engines, trade extraction, over six bars. Six bars are an entry, the
  holding limit, an exit and a re-entry. `TradesExplainEquity` adds up the curve from
  the trades and the entry bars, which the trade table leaves out; `HoldingBounded`
  is about single rules, an ensemble may hold longer than its members;
- *the pipeline* (`ResearchPipeline`): thirty scripts in order, two runs, two
  surprises (an exception, or a report of an unusual kind). A report is kept by the
  bands of metrics the admission policy scores. `LeaderboardEvidence` says what may
  be in the paper pool and how old its evidence can be. It names the exceptions the
  code has: the summary of the walk-forward calibration is written before its backtest
  (an exception between admits it on probabilities alone); admission runs before
  parameter search and ensemble, so their rows are of an earlier run;
  `run_purged_embargo_cv.py` always raises after saving, so that a run that does not
  continue on errors ends there.

`ResearchLookAhead.cfg` (expected violation) checks what the docstrings of the rolling
windows say. `models/walk_forward.py:42` trains "only on data strictly before the fold
test window", and `models/walk_forward_calibration.py:33-35` "avoids using future
observations to fit the calibrator"; but the label of a row is a price some bars later
(`features/labels.py:12`), so the last rows before a test window carry labels from
inside it. `WindowsUseThePast` says the former and TLC finds the latter: nine rows,
horizon 2, calibration on rows 4 and 5, test on rows 6 and 7.

Met while modelling and shown by no run of their own: `run_data_quality_check.py`
ends with status 0 when the check fails and nothing reads
`require_pass_before_training` (`config/config.yaml:610`); the admission reads
none of the columns of the sequence reports; the overfit score goes to 100 where the
policy asks for 0.65; an empty sequence table makes the v28 report raise;
`daily_admission_changes.csv` is rewritten only when something changed; the daily
report reads `reports/strategy_failure`, which nobody writes.

Proved (`ResearchProofs`), each for every size of the instance:

- `FoldsApart`, and `ResearchFoldsApart` of all research behaviours (`FoldsKeptApart`);
- `HoldingLimitKept` (`HoldingBounded`): a machine that has been in position for *b*
  closes has its last flat row *b* rows back (`HeldSince`), so that every window of more
  rows than the limit has a flat one (`NoLongRun`), and a trade is a run of rows in
  position (`TradesExtracted`);
- `EquityExplained` (`TradesExplainEquity`), for every rule, sizing, cap, cost, move and
  stop: `CurveInv` says that the first row is flat at the initial equity (`StartsFlat`),
  that a flat row after a flat one keeps its equity (`FlatStays`), frozen or not, and that
  the trades are those of complete rows. Then, row by row, what the table explains of the
  first *k* rows is the equity of the row in which the trade open at *k* ends
  (`Settles`), or of row *k* itself if it is flat, less the initial equity; the
  last row settles itself;
- `CandleFileKept` (`CandleFileSound`): the pages read so far continue the file without a
  hole, forwards, or reach from the cursor to the newest bar of the first page,
  backwards, where only that bar can be unfinished; and no page budget ends before the
  history does (`PagesCoverHistory`). `CandleInv` is this and the file of every
  finished download;
- `LeaderboardBacked` (`LeaderboardEvidence`): `PipelineInv` says of the run in progress
  which evidence is of this run: that of every step behind (`FreshBehind`) unless its
  script failed, and not that of the two scripts behind the admission (`StaleAhead`).
  `StepEffect` is what the thirty scripts, succeeding, failing or torn, do to the evidence, and
  `Placed` where the steps stand in the list.

## 11. Runs, bounds and fairness at a glance

| run | states | liveness | deadlock |
|---|---|---|---|
| `LiveGate` | 4,171,519 | none: scripts are finite and may be killed | not checked, scripts end |
| `LocalServices` | 9,518,658 | none: nothing in the code promises a reconnect | not checked, requests run out |
| `Recovery` | 3,075,472 | none: any step may be the last | not checked, runs end |
| `Research` | 358,284 | none: a script that raises is over | not checked, scripts end |

The runs with liveness (`ResilientExecutor`, `LifecycleStream`, `PaperTrading`) are
described above with the fairness they assume.

## 12. What is proved and what is only checked

| theorem | holds for | assumptions besides the named constants' |
|---|---|---|
| `ResilientExecutorProofs!TypeCorrect`, `LedgerSafe`, `SubmittedIsTrue`, `AuditComplete` | any processes, intents, attempts, kills | none |
| `ResilientExecutorProofs!LedgerImplemented` | same | none; says nothing of behaviours whose runs overlap |
| `ResilientExecutorProofs!ExposureBounded` | same | none; says nothing of behaviours with overlaps or interrupts |
| `OrderLifecycleProofs!TypeCorrect`, `FillsAreReal`, `LifecycleAudited`, `FillsAudited` | any orders, listeners, messages, restarts, losses, replays | none |
| `OrderLifecycleProofs!MovesForward`, `ExchangeMirrored` | any orders, messages, restarts, losses, kills | one listener, no replay |
| `PaperTradingProofs!OncePerCandleHolds`, `StopsTighten` | any candles, limits, runners, kills, repeats | the runners' steps do not overlap |
| `PaperTradingProofs!TypeCorrect` | same, overlapping or not | `EntriesFunded` throughout |
| `PaperTradingProofs!OrdersBalance`, `BreakerIsKept` | same | no overlap; `EntriesFunded` throughout |
| `PaperTradingProofs!StopsAreHonoured` | same | no overlap; `EntriesFunded`, `ExitsSolvent` throughout |
| `DemoExecutionProofs!TypeCorrect`, `NeverShort`, `OvershootBounded`, `NakedBounded` | any overlapping runs, targets, cap, number of blind runs, both order types | none |
| `LiveGateProofs!GateTypeCorrect`, `NothingOverlooked`, `ReviewAndGateExclude` | any scripts, configurations, changes, failed reads, positions, equities | none |
| `LocalServicesProofs!ServicesTypes`, `RecordIsReal`, `DatasetKept`, `EndIsTold`, `ServicesComposeParts` | any sessions, requests, kills, processes, candles, reconnects, downloads | none |
| `RecoveryProofs!TypeCorrect`, `MismatchReported`, `TroubleAlerted` | any runs, iterations, changes, exceptions | none |
| `ResearchProofs!FoldTypeCorrect`, `FoldsApart`, `ResearchFoldsApart` | any dataset, horizon, windows, splits | the embargo is at least the horizon (`FoldAssumption`, as in `config/config.yaml`) |
| `ResearchProofs!HoldingLimitKept`, `EquityExplained` | any bars, moves, costs, caps, weights, stops, limit | none |
| `ResearchProofs!CandleFileKept` | any history, page size, overlap | the page budget covers the history (`PagesCoverHistory`) |
| `ResearchProofs!LeaderboardBacked` | any number of runs and surprises | none |

The assumptions on constants stand, named, in the modules that declare them, and TLC
evaluates each on the instance it checks. They say what kind of number a constant is, with
few exceptions: the embargo and page budget above; at least one run and finitely many in
`DemoExecution` (the bound counts the others); `KindsAssumption` (a script is one of
`Program`); and in `PaperTrading` that slippage is less than any price and that a bar's close lies
between its low and its high.

`FoldsApart` rests on `FoldInv`: the rows tested so far end before the block or
window that comes next (`TestedBefore`), and a fold keeps a number no later fold gets
(`Numbered`); without these two, "no row is tested twice" is not inductive. The
lemmas `PurgedRows`, `WindowRows` and `DatedRows` carry the index arithmetic.

`RecordIsReal` rests on `ManagerInv`: `RecordedIsReal` speaks of the moments without a
request, and says nothing of those in between. `Promise` says what a request relies on
at each of its steps: what it has read is still true, nothing is up when it spawns, the
record it is about to write names the only process that can be up. It also says that the
file itself stays true until a service is spawned or the file is truncated, which is
what an abandoned request leaves behind (`AbandonKeeps`). While no two
requests overlapped, only the process started last is up (`OnlyUp(started)`), and that
is also what the feed rests on: `Matches` (a listener takes steps exactly while its
process is up) turns it into "one listener", and `DataInv` into "what a merge or a
download holds in memory contains all that was saved before, and no row of a candle
heard closed can be opened again". `ComposedSteps` is the lemma that every step of the
composition is one of each component, which `ServicesComposeParts` states of behaviours.

The sums of `OrdersBalance`, `BreakerIsKept` and `EquityExplained` are `Total` of the
module `Totals`: the sum of the first *n* values of a function, written as a recursive
function. What it computes is proved by induction over a set instead of an operator:
strict inclusion of finite sets is well-founded (a theorem of the library), so a set of
naturals that holds 0 and the successor of each of its members holds them all
(`InductiveSet`). From that, such a recursive function exists (`SumsExist`), any two of
them agree (`SumsAgree`), and a total grows by the value added (`TotalAdds`,
`TotalExtends`). `PaperTradingProofs` and `ResearchProofs` both state these lemmas.

Some models took another form for the proofs, with the same states: the merges of
`CandleHistory` and the rows of `Admit` are written as functions and records (not with
`@@`), the warnings of a recovery report as a concatenation, and the sums of `Backtest`
and `PaperTrading` with `Total` (not with folds). `PaperTrading` was corrected twice where
a proof failed: selling nothing returns the account as it is (`SellDelta`), and a daily
loss limit of 0 blocks entries on a new day too (`CanOpen`). A `MaxLosses` of 0 disables
the pause, as in the code.

Every proof is checked by TLAPS to the last leaf, and every invariant the runs check is
stated by a theorem. Only model-checked is liveness (`PendingResolves`, `EndIsLearned`,
`KeepsUp`): the prover handles neither fairness nor ENABLED.

Modules with theorems use no RECURSIVE operator.

Every property of a passing run has a mutant: a plausible wrong form of one mapped
definition (a dropped flag, a swapped order, an off-by-one) under which TLC finds
that property violated. The mutants stand in the modules next to what they
replace.

## 13. Plan

1. *Written*: all modules of sections 3 to 10.
2. *Proved*: the theorems of section 12. Next: `OrdersExplainAccount` after a kill, with
   the orders a kill loses named.
3. Larger questions: `LiveGate` with three overlapping scripts; the paper runners
   beside `Recovery`, which reads their account.

## 14. Not modelled

Feature columns, estimators, calibrators, metrics, robustness grids, funding and
liquidation arithmetic: floating-point computations without state, whose correctness
is no state property. The execution simulator (one demonstration script uses it), the
risk manager (a stateless yes or no for a whole run), abstract interfaces. HTTP,
WebSocket, ccxt and pandas: modelled only by what callers can observe. Dashboard
pages, HTML reports and plots: nothing reads them back. In the modelled parts:
previews (they change no state), `set_leverage` and the leverage cap,
`PaperStore.reset`, the `decisions` table, prices in the lifecycle, equity at or
below zero in the paper account, the drift trend
report, which checks make the health report fail, and the price and volume checks of
the data quality report.
