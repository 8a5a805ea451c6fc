# Verification of Astrolabe Quant in TLA+

This directory specifies the parts of the repository in which a mistake moves
money or shares or loses what the company has decided: the path of a live order
from proposal to broker, the dispatch of agent actions and the ledger of sessions
they live in, the paper broker and the files of its account, the regime tracker,
the parquet store with its ledgers, and the portfolio pipeline with its scheduler.
The specifications are written from the code (line numbers below are those of the
repository), checked by TLC on small instances, and, where it matters most, proved
by TLAPS for every value of their constants.

```
tlc -workers 2 -config LiveOrders_pair.cfg MCLiveOrders.tla     # model-check a run
tlapm LiveOrdersProofs.tla                                      # check the proofs
```

`PROJECT.json` lists runs, mutants, findings, theorems, the hazards they aim at and,
under `map`, the source lines that each definition stands for. An operator whose
comment starts with `Mutant:` is a plausible bug; it is used by no specification.

## 1. The system and its components

The repository is an A-share research and trading platform run by an "agent
company". Handlers of the web server are `async def` with synchronous bodies, so
one web process runs them one at a time; but every `astroq agent ...` command and
every cron tick is another OS process on the same SQLite ledger, kill-switch file
and parquet files. That is where the interleavings come from.

| component | state | operations | interacts through | hard behaviour | what makes it correct |
|---|---|---|---|---|---|
| Live order path (`agent_os/runtime.py`) | `actions` rows: status, decision, expiry; runs; reconciliation evidence | propose, approve, reject, cancel, expire, submit, dispatch | SQLite rows, one transaction per read or write; calls to the gateway | rows read in one transaction and overwritten in another; crash after the broker accepted; lost answers; repeated approval | no order without an approval; success only with an order; one order per approval |
| Kill switch (`runtime.py` 1905-2110, 3173-3217) | `live_kill_switch/state.json` | activate, deactivate, check | a file read by every submission | `write_text` truncates first; check and send are apart; a loop over rows others change | an engaged switch lets no later call send; nothing stays queued |
| QMT gateway (`broker/live/`) | the broker's order book (external) | preview, submit, reconcile, cancel | xtquant | answer lost after acceptance | never sends twice for one call |
| Paper broker (`broker/paper_*.py`, `matcher.py`, `exchange.py`, `fill_models.py`, `risk.py`, `order_sm.py`) | cash, positions, today's buys, quotes, peak, order book, daily counter | submit, cancel, set_prices, end_of_day, snapshot, restore | method calls; appends to the event ledger | T+1 across days and restarts; a counter raised per fill but reset per checked buy; fees rounded; partial fills at the close | shares bought today stay; limits hold; account and ledger agree |
| Event ledger (`broker/ledger.py`) | `ledger.parquet` | append, chain per order, reconstruct | locked append | a replay must reach the account | one legal chain per order; replay gives the holdings |
| Paper account files (`broker/persistence.py`, `scripts/execute_paper_trades.py`) | `state`, `nav`, `trades`, `ledger` parquet files | daily execution, load, save, appends | files shared by cron, command line and web | files written in different orders; unlocked append; whole-account save at the end of a day | books agree; no fill forgotten; ids unique |
| Portfolio web route (`web/api/routes/portfolio.py`) | a singleton broker per web process | order, refresh, reads | the same files | trades in memory only, and stale | what it fills is saved |
| Action dispatch and runs (`runtime.py` 872-1299, `tools.py`, `ledger.py`) | action rows, runs, run events | decide, dispatch, subprocess streaming, record_run, delete_sessions | SQLite, subprocesses | dispatch twice, death while running, a deadline against a late exit, event numbers read and used in two transactions | no guarded command without approval, one per approval; timelines readable; every call ends; no process left behind |
| Sessions, conversation, handoffs, work orders, evidence, programs (`runtime.py`, `ledger.py`, `web/api/routes/agent.py`) | sessions, messages, handoffs, work orders, evidence, autonomy programs | insert, rename, archive, prune, advance, stream | the ledger, which has no foreign keys | insertion against pruning, evidence cited by others, a program saved from a stale copy | no orphans, evidence goes with the rows that cite it, saved phases run once, a stream misses no row |
| Regime tracker (`cybernetics/regime_state.py`, `orchestrator.py`, `hybrid_decision.py`) | confirmed, pending, dwell count, last key; a JSON file | detect, apply, reset, load, save | the file, shared by processes; a tracker shared by threads | repeated and out-of-order days, lost updates, an edited dwell | no switch before `min_dwell` readings of the new regime in a row |
| Rebalance scheduler (`pipeline/scheduler.py`) | last date, regime, targets | should_rebalance, record_target | the pipeline | months compared without their year, gaps between prices, an overlap test on keys | the portfolio of the day is the one its schedule promises |
| Portfolio pipeline (`pipeline/`, `backtest/pipeline_runner.py`) | cash and holdings of a backtest | construct, adjust, route, fill | the daily loop | buys sized before sells are dropped; an order changed after its check | cash never negative, buys bounded |
| Parquet store and manifest (`data/storage/`) | parquet files, lock files, manifest | read, write, append, record | files | a manifest read, changed and replaced without a lock; an unreadable file replaced; failures between file and manifest | appends are not lost; the manifest describes the files |
| Ops ledgers (`data/ops/`) | parquet ledgers of audits and backfills | append_row, start, complete, fail, retry | the store | lock-free read-modify-write; a retry counted from the newest row | a repair reads as reported |
| Background jobs (`web/api/jobs.py`) | a dictionary of jobs | create, update, get, run in a thread | lock, websocket polling | late progress after the end | done is final |
| Providers, quality, features, market views | caches | fetch, clean, view | network, files | fallbacks | data frames only |
| Signals, research | none | compute | data frames | numeric | not state machines |
| Planning, reports, LLM | inserted rows, markdown | route, plan, render | LLM transport | text | not state machines |
| Web, command line, configuration, notification | settings | routing, parsing | HTTP, YAML, environment | I/O | appear as the callers |

## 2. The modules

| module | models | extends / refines |
|---|---|---|
| `ApprovalGate` | what the approval lifecycle promises about broker orders: authorise, place, ask to withdraw | abstract |
| `LiveOrders` | live path, kill switch and gateway, with processes that crash | implements `ApprovalGate` |
| `LiveOrdersProofs` | its theorems | extends `LiveOrders` |
| `SettledAccount` | what T+1 promises about shares: settled ones can be sold, bought ones settle overnight | abstract |
| `PaperBroker` | one broker object over days and restarts, with its ledger and the replay of it | implements `SettledAccount` |
| `PaperBrokerProofs` | its theorems | extends `PaperBroker` |
| `PaperAccount` | the account files and the processes that share them | composes the daily execution, submissions of paper_order actions and web servers |
| `PaperAccountProofs` | its theorems | extends `PaperAccount` |
| `AgentRuns` | action rows, their dispatch, the child process and the run that records it; fair processes | implements `ApprovalGate` |
| `AgentRunsProofs` | its theorems | extends `AgentRuns` |
| `AgentMemory` | sessions and the rows below them, pruning, autonomy programs, the session stream | |
| `AgentMemoryProofs` | its theorems | extends `AgentMemory` |
| `RegimeTracker` | the hybrid decision and the trackers of threads and processes with their file | |
| `RegimeTrackerProofs` | its theorems | extends `RegimeTracker` |
| `KeyedLogs` | what an appended file promises: a row stays until a later row of its key, the damage of the file, or an append that could not read it | abstract |
| `ParquetStore` | locked appends, the lock-free ledger of repairs, the manifest, faults and damaged files | implements `KeyedLogs` |
| `ParquetStoreProofs` | its theorems | extends `ParquetStore` |
| `PipelineBacktest` | the daily loop of a backtest: scheduler, constructors, risk adjuster, router, fills | composes scheduler and pipeline |
| `PipelineBacktestProofs` | its theorems | extends `PipelineBacktest` |
| `MC...` | symmetry sets and the constants of the runs | extend their module |

### LiveOrders

A process is in at most one call (`call[p]`): the step it is at, the operation, the
row it is about, the status it last read (`seen`), the order id it was given
(`ack`) and the rows left of a listing. One step is one ledger transaction, file
access or gateway call, so whatever a call has read may be stale when it acts.

| code | actions |
|---|---|
| `propose_live_order`, `propose_action` | `Propose`, `InsertAction`, `ProposalBlocked` |
| `get_action` and `_refresh_action_expiry`, with which every call starts | `StartCall`, `WriteExpired`, `Reread` |
| `_decide_action` (approve, reject) | `RefuseExpired`, `WriteDecision` |
| `cancel_action`: guard, then `_decide_action` reads again | `CancelGuard`, and the two above |
| `expire_actions`: listing, then an UPDATE per row | `ListExpired`, `ExpireListed`, `EndSweep` |
| `submit_live_order_action` | `SubmitUnapproved`, `CheckKillSwitch`, `PreviewLive`, `SendAccepted`, `SendRefused`, `WriteBlocked`, `WriteFailed`, `WriteSucceeded`, `RecordRun` |
| `dispatch_action` of a live row | `Dispatch` |
| `_write_live_kill_switch_state` (truncate, fill) | `WriteSwitch`, `Arm`, `Disarm` |
| `activate_live_kill_switch` and its scan of submitted orders | `ListQueued`, `CancelQueued`, `CancelRefreshed`, `ListSubmitted`, `CancelSubmitted`, `EndActivation` |
| environment: the 900 seconds of a card, a process that dies | `Elapse`, `Crash` |

Abstracted: intents, previews and the texts of evidence. A preview passes or blocks
nondeterministically. The gateway accepts (with or without the answer arriving)
or refuses. Two writers of the switch file that overlap may leave an unparsable
content; a reader treats it, like the empty file, as engaged, as the code does.

### PaperBroker

One call of the object is one step, except `end_of_day`, which appends one ledger
event per order it expires. Money is an integer in units chosen so that every
rate is exact; a cent is a number of units, so rounding to cents is a real
operation of the model (`Rounded`). `avg_cost`, a running average of divisions, is
kept as a fraction. Python's `round` sends exact ties to the even cent, `Rounded`
upwards: both are within half a cent, which is all that the properties use.

| code | definitions |
|---|---|
| `submit_order` buy: risk rules, cut to the cash, place, match, fill | `RefuseBuy`, `SubmitBuy` with `RiskPasses`, `Affordable`, `Fills`, `Place`, `Bought` |
| `submit_order` sell: T+1, cut to what may be sold | `SubmitSell` with `Sellable`, `Sold` |
| `cancel_order`, `_transition_order` | `CancelOrder`, `Transition` |
| `end_of_day` | `BeginClose`, `ExpireOrder`, `FinishClose` |
| `snapshot_state`, `from_state` around a restart | `Restart` |
| a new calendar date; the web process never calls `end_of_day` (`SkipsClose`) | `NewDay` |
| `set_prices` | `SetPrice` |
| `EventLedger.reconstruct_state` | `Replay` (a fold), which starts from `ReplayCash`, the 1,000,000 written into the code, whatever `InitialCash` is |

`bought`, `buys` and `close` are histories: what happened today, and the last quote of
the day before.

### PaperAccount

An account is the set of fills it accounts for, a trade is the fill it records,
and a fill is named by the place of its event in the ledger. Whole-file replacement
(`os.replace`) and locked appends (ledger, NAV) are one step; `append_trade`, which
reads and replaces without a lock, is two. The history `faults` says whether a
process died in a call, calls of two processes overlapped, or an order was posted
to the web server, so that a property can name the faults it survives.

| code | actions |
|---|---|
| `execute_daily` | `StartDaily`, then orders, a trade per fill, `AppendNav`, `SaveState` |
| `submit_paper_order_action` | `StartSubmit`, `LoadState`, one order, `SaveState`, `AppendNav`, trade, `UpdateStatus` |
| order and refresh routes of the web server | `WebOrder`, `Refresh` |
| one order of a broker object (`PaperBroker` in one step per ledger append) | `Refuse`, `CreateOrder`, `Fill`, `Reject` |
| `append_trade` | `ReadTrades`, `WriteTrades` |
| a process dies; a web server comes back with a freshly loaded broker | `Crash` |

`Starts` refuses nothing: no lock in the code keeps two calls apart.

### AgentRuns

As in `LiveOrders` a process takes one step per ledger transaction, here also inside
`record_run_event`, which reads the next sequence number in one transaction and inserts
in another. A run holds its row, status, events and the state of its child, a call the number of
`lines` that wait in its `output_queue`. `Tools` says what the registry has for a row.

| code | actions |
|---|---|
| `propose_action`; a registry or desk that loses a tool | `Propose`, `Withdraw` |
| `get_action` with `_refresh_action_expiry` | `Start` (`ReadRow`), `WriteExpired`, `Reread` |
| `_decide_action`, `cancel_action` | `RefuseDecision`, `CancelGuard`, `Decide` |
| the checks of `dispatch_action` and `command_for` | `Refuse`, `Block`, `MarkBlocked`, `Queue`, `SetRunning` |
| `dispatch_safe_proposed_actions`, `run_autonomy_step` | `StartSafe` |
| `_dispatch_subprocess_action`: Popen and its except branch | `Spawn`, `SpawnFails`, `Fault` |
| its reader threads and `drain_output` | `PrintLine`; `Drain`, a line at a time, until none waits |
| its loop: `poll`, drain, deadline, sleep | `Poll` or `SeeExit`, `Drain`, then `Timeout` or `PollAgain` |
| the last drain and the update of the row | `Drain`, `WriteEnd` |
| `record_run`, `record_run_event` | `FindRow`, `InsertRun`, `NumberEvent`, `InsertEvent` |
| `delete_sessions`, for one row | `Prune` |
| environment | `ChildExits`, `Elapse`, `Crash`, `Fault` (a ledger call raises) |

The deadline is tested only after the queue has been found empty (runtime.py:1240-1245),
and every line taken from it costs two ledger transactions: a command that prints while
its lines are recorded can keep the call from ever testing its deadline. `PrintLine` is
therefore a step of the environment that refills the queue at any time; `MaxOutput` bounds
the lines that wait and those that the run keeps, not those that are printed.

The text of commands and output is left out; exits are classified by what
`_dispatch_status_from_cli_result` makes of them.

### AgentMemory

Messages, handoffs and work orders are rows of one kind: they are inserted, cited and
deleted by session in the same way. A run belongs to its action. Evidence is created by anyone at any
time, and the ids that a row cites are stored without being looked up, as in the code; so
a row may cite what was never there, and evidence may be there that no row cites
(`compact_context`, a phase whose action its desk may not propose). Two histories say what a
property survives: `overlap`, whether two calls ever overlapped, and `unsaved`, the phases of
a program that were dispatched by a call which ended without saving it.

| code | actions |
|---|---|
| `create_session`; `update_session` with a title or a status | `CreateSession`; `Rename` or `SetSessionStatus`, then `WriteSession` |
| `create_evidence` | `CreateEvidence`; within a phase, `StartPhase` |
| inserts below a session (session looked up first) | `StartInsert`, `FindSession`, `InsertRow` |
| `record_run` (action looked up first) | `StartRun`, `FindAction`, `InsertRun` |
| `prune_memory`: archived sessions are listed, then `delete_sessions` collects and deletes | `ListArchived`, `Collect`, `DeleteSessions` |
| `create_autonomy_program` | `StartCreate`, `InsertProgram` |
| `run_autonomy_program`: a copy is read, every pending phase is proposed and dispatched until one fails or is blocked, the copy is saved once, at the end | `StartProgram`; per phase `StartPhase`, `FindSession`, `InsertPhaseAction`, `DispatchPhase`; `SaveProgram` |
| a call that raises (a refused scope, a ledger error) or whose process dies | `Abort`; a program's call then skips `update_program` |
| the session stream of the web server | `Open`, `Poll` |

One step stands for several transactions in two places: `Collect` for the SELECTs
at the start of `delete_sessions`, `Poll` for the queries of `session_stream_snapshot`.

### RegimeTracker

`Detect` reads the benchmark, takes the vote of rule and model (`Decision`), and compares
the dates at the head of `apply`. `Branch` changes the tracker of the host, which its threads
share without a lock; `Key` sets the last key; `Copy` reads the tracker again for the data of
`_save`; `Replace` renames the file that was filled with them over the state file. Threads of one
host could also meet within the branch and within the copy. The properties claim
nothing once they have overlapped (`Alone`), so no finer step is modelled; threads of
different hosts share only the file, and all their interleavings are. `Exit`, `Reset`, `LoseFile`, `NewDay` and `Configure` are the rest of the
world: processes restart from the file, the file is lost or unreadable, days pass (and a
caller may pass an earlier date), `min_dwell` is edited. Probabilities are percentages.
A tracker carries the readings it has seen as a history, against which counts are judged.

### ParquetStore

A file is a table from keys to rows, or `Bad`. An append holds the lock of its file over
`read`, `replace` and the manifest; the backfill ledger does the same steps without a
lock. Writing the file, hashing it, reading the manifest and writing it are four steps,
each of which may be the last one of a process (`Crash`) or fail (`FailWrite`,
`FailRecord`); `DamageFile` and `DamageManifest` leave something unreadable, which
reads as empty. `Misread` is a read of an intact file that fails: `ParquetStore.read` answers
every exception with its empty default, so an append then replaces the file by its row
alone, and the last step of `retry` meets a frame without columns and ends with a `KeyError`.
In `KeyedLogs` these are `Damage`, and `Miss` followed by `StartOver` (or `GiveUp`, when the
append does not reach its write); nothing else takes a row away.

### PipelineBacktest

One day of the loop is `NewDay` (prices of the day, and the regime of its month), then
`Skip` or `Rebalance`, then `Fill` per intent. `Due` is `should_rebalance` with all its
rules in the order of the code; `Targets` has the three constructors, `Adjusted` the risk
adjuster with the rules of `check_order`, `Lots` the rounding of the router, `TargetShares` the
shares of a target, none when the cash is negative. Signals and
volatility weights are inputs. Days count trading dates with gaps; a month has
`MonthDays` and a year `YearMonths` of them, so that months of two years have the same name.

## 3. The runs

| run | instance | what it shows |
|---|---|---|
| `live_pair` | two processes, one row, two orders, one approval, crashes | `SuccessIsBacked`, `SwitchStopsLaterSubmits` and the refinement `ImplementsGate` under every interleaving of all calls, with deaths at any step |
| `live_solo` | one process, two rows, three orders, two approvals per row | `OneOrderPerApproval`, `QueueIsEmptied`, `NewestOrderAsked`: what holds when calls do not overlap |
| `paper_days` | two symbols, two prices, sizes 1 and 3, every limit within reach, days without close | T+1 as a refinement (`ImplementsSettled`), `BuysWithinDailyLimit` |
| `paper_partial` | one symbol, partial fills, cancellations, closes, restarts | `ChainsAreLifecycles`, `NothingOpenAfterClose`, `ExactFillsReplayed`, `BuysAreFunded` |
| `paper_replaycash` | one symbol, two prices, whole fills | a violation, see below |
| `account` | two processes, a web server, one row, two orders, crashes | `FilesAreRecorded` whatever happens; `SucceededIsSaved` and `FillsNeverForgotten` without overlap; `OneFillPerApproval` without overlap or crash; `BooksAgree` and `FilledIdsUnique` without faults |
| `agent_runs` | two processes, one row, two runs, an approval, pruning | the refinement `ImplementsGate` and `TimelinesReadable` under every interleaving; `OneCommandPerApproval` and `RunsFitRows` with the overlaps they survive |
| `agent_live` | two fair processes, one run whose command may print for ever, a crash or a ledger fault at any step | `CallsReturn`, `RunningEnds`, `NoChildOutlivesItsRun` |
| `agent_memory` | two processes, two sessions, one evidence row, a program of two phases, two rows, four calls that may end at any step, a browser | `ReferencesKept`, `ProgramGoesOn`, `SignatureTellsRows`, `SessionsChangeAsAsked` |
| `regime` | two threads on one or two hosts, three views of the market, three days, dwells 1 and 2, four detections, restarts, losses, resets or edits, up to the first overlap of two threads of one host | `CountIsEarned`, `SwitchIsEarned` |
| `store` | two processes, one locked log and the ledger of repairs, two keys, two calls, one crash, failing write, failing read or damaged file | the refinement `ImplementsLogs`, `ManifestIsTrue`, `RepairsAreRecorded` |
| `backtest` | two stocks and a fund, five configurations, seven days with gaps of 1, 2 and 6 | `AccountIsSound`, `ScheduleKept`, `BuysBounded` |

`agent_runs`, `agent_memory` and `regime` have the largest state spaces, from one to three
million states. The `regime` run stops (`CONSTRAINT Alone`) where threads of one host overlap,
because its properties claim nothing beyond; the theorems are about every behaviour. Each passing property has a mutant, a plausible bug in a mapped
definition (the operators marked `Mutant:` in the modules), under which the same run
fails.

Bounds. Two processes are enough for every race in these calls, because each hazard
is one call acting on what another has just changed. Two orders are enough for a
duplicate, three for a second approval after a first order on another row. In
`PaperBroker` three orders of up to three shares at two prices reach the cut to the
cash, a fee that is rounded up and one that is rounded down, the least commission,
every risk rule, both price limits, a full sale and a partial fill; the cash of
each run was chosen so that the last share is affordable only just.
In `AgentRuns` two runs are what a second dispatch, a second approval and a run written
after a pruning need; `agent_live` has one, because liveness is about a call and not
about their number, and lets the command print for as long as it likes, since that is what keeps the
call from its deadline; one waiting line is enough for it. Of the kinds of tools (`ToolKinds`)
`agent_runs` has the free and the guarded ones, so that an approval is once needed for the row and once
for the tool; `agent_live` adds those outside the scope of a desk. A tool that the registry does not know is
refused at the same place as a guarded one without approval, and no run has it.
In `AgentMemory` two sessions let one row be cited from the other
side of a pruning; two phases are one done and one to come. In `RegimeTracker` a dwell
of two is the least that counts, and three days leave one to repeat, skip or go back to.
In `ParquetStore` one fault is enough because every later call starts from what the
fault left. In `PipelineBacktest` a gap of 6 is a whole year of two months with three
days, so the next price can fall into a month of the same name.

`MaxOrders`, `MaxApprovals`, `MaxRuns`, `MaxCalls`, `MaxEvents`, `MaxDay` and their like stop
the runs from growing for ever. Where they end a behaviour, and only there, the cfg
switches deadlock checking off (`agent_*`, `regime`, `store`, `backtest`); the code has
no call that waits for another, but for the file lock of `ParquetStore`, whose holder
releases it by returning or dying.

The run that ends in a violation checks a statement of the repository:

| run | statement | what happens |
|---|---|---|
| `paper_replaycash` | broker/ledger.py:9: the replay rebuilds cash | a sell pays stamp tax inside `calc_cost` and again in `_apply_fill`; the event has one of them |

Other statements that the code does not keep, met while modelling. The passing
properties are worded around them, so each is also the reason for a condition in one:

- docs/specs/07:755, a deactivated switch brings back no canceled card: `_decide_action`
  refuses only expired rows, so a canceled card can be approved again.
- docs/specs/07:526, :708, a decision or submission after expiry or activation does nothing: one
  that read its row before still completes.
- docs/specs/07:734, submitted orders are asked to be canceled: only the newest recorded
  one of an action is.
- acceptance-matrix:68, nothing is sold on the day of purchase: a restart forgets
  today's buys (`ImplementsSettled` is checked with `Restarts = FALSE`).
- broker/fill_models.py:189, `prev_close` is the previous day's close: the average cost
  is passed instead.
- broker/ledger.py:231, `trace_order` is the lifecycle of one order: a rejected submission is
  not saved (runtime.py:2619), and its id is given out again.
- docs/specs/04:227, concurrent writes of trades are locked: `append_trade` takes no lock.
- docs/specs/04:131, every fill updates trades and state: the web route saves neither.
- docs/specs/04:222-223, refused and underfunded orders are in the book as rejected: no
  order is created for them.
- broker/ledger.py:16, a NAV snapshot event is recorded daily: nothing records one.
- data/ops/backfill.py:234, `retry` increments the count of the repair: it does so on a
  new row, and the failed one is still listed as one to be retried.

Facts about the pipeline that a reader of the models should know, without a
statement they contradict:

- An order that the adjuster halves below one lot is lifted to one lot by the router
  (pipeline/risk.py:75, execution.py:99), which is why `BuysBounded` excepts one lot.
- The adjuster checks sells as if they were buys (risk.py:62), each target against
  the portfolio before any of them (risk.py:75), and against a peak that is always the
  equity of the moment (risk.py:42), so its drawdown rule never trips.
- The overlap test of the scheduler compares the keys of funds with plain symbols
  (scheduler.py:97), and `_today_buys` is keyed one way and read the other (execution.py:161).
- Equal weights are taken of the cash that is left, not of the equity (portfolio.py:56).
- The year trigger of one strategy keeps its year on the function object, across backtests
  of one process (backtest/run_all_strategies.py:122).

And about the agent company and the store:

- A command that prints without a pause postpones its own deadline, for ever if its lines
  come faster than they are recorded (runtime.py:1204-1245): `PrintsOn`.
- An append whose read fails drops every other row of its file
  (datahub_parquet.py:33-37, 81-93): `StartOver` of `KeyedLogs`.
- An exception in the loop of a program, such as a desk that may not propose the action,
  leaves the phases already dispatched pending, and the next run dispatches them again
  (runtime.py:1612-1664): `unsaved`.
- Evidence ids that a caller cites are never checked (routes/agent.py:213-219, 482-490), and
  evidence that no row cites is deleted by no pruning.

Fairness. `AgentRuns` has the only code that waits for something of its own: it polls a
child until it exits or its deadline passes. `FairSpec` gives each process weak fairness of
its next step, `WF_vars(Step(p))`: a process that lives is scheduled. Time is the other
part, `SF_vars(Timeout(p))`: a call that comes to test its deadline again and again, 20
milliseconds apart at least, finds in the end that it has passed. Weak fairness would say
less than the clock does, because the test is not enabled while output is drained
or the child is polled; strong fairness assumes nothing of a call that never gets to the test. Nothing is
assumed of anybody else: commands need not end or fall silent, persons need not decide,
rows need not expire, and a process may die at any step, after which its step is not
enabled. That the call still returns is the deadline's doing: the mutant without it fails.
`CallsReturn` and `RunningEnds` except the command that prints for ever (`PrintsOn`): there the
deadline is never tested, and the call does not return. A row left `running` by
a process that died stays so; `RunningEnds` excepts exactly these and the calls whose ledger
raised. All other specifications are `Init /\ [][Next]_vars`: nothing there retries or sweeps
on its own, so there is nothing they promise to do eventually. What is not done because
a process stopped is left undone, which the invariants describe.

## 4. What is proved

All theorems hold for every set of processes, rows, symbols, threads or files and
every value of the other constants. The only assumptions are the named ones of each
module (naturals, a positive lot, cent and base, disjoint sets), which TLC evaluates in
the runs, and, where stated, three that name what the code cannot survive (`~Restarts`,
`~Crashes`, and in `LiveOrders` `Alone`: there is one process) and one about the market
(`LotsPayFees`, below). Where a property only holds of calls that do not overlap or die, the
property itself says so, through the history `mishaps` or `faults`, and the theorem is about
every behaviour.

**LiveOrders.** `Inv` adds to the types that a call at a step about a row names one,
and that a call past the approval test read `approved`. Each action is first
reduced to how it moves its own call (`Moves`) and to one of eight effects on the data
(`Effect`); the invariants are then preserved per effect.
- `TypeCorrect`: types, from `Inv`.
- `SwitchStops`: while the switch blocks, calls in flight are among those recorded at
  the last write; the key is that passing the check requires a switch that lets pass.
- `AuthorisedOrders`: strengthened by "a call that acts on a row it read as approved
  has an approval behind it", which survives every overwrite of the row because approvals
  are never taken back.
- `BackedSuccess`: strengthened by the ids that calls still hold: in the book, of their
  row, not yet in any evidence and distinct between processes. Without that part
  recording a run could not be shown to keep evidence ids unique.
- `Refinement`: initial states and steps map to `ApprovalGate`.
- `EmptiesQueue` (`Alone`): what the only process has read of a row is what the row says,
  and the rows it has still to cancel are all the queued ones (`Tidy`, `Solo`).
- `ApprovalsPayOnce` (`Alone`, `~Crashes`): an approval that a row still shows has not paid
  for an order, unless the call that sent the order is about to overwrite it (`Paid`).
  A death between the two would leave both, so the assumption is needed.
- `AsksNewest` (`Alone`): the evidence of a row lists its orders newest first, an id that a
  call holds is newer than all of it, and the first one of every row the scan has passed
  has been asked (`Newest`).

**PaperBroker.** Fees are bounded by a lemma about `Rounded` (within half a cent), and
every buy or sell is reduced to its effect by `BuyCases` and `SellCases`.
- `TypeCorrect`: in particular positions, today's buys and the counter never go negative.
- `BuysFunded`: the exact cost of the order is in the account, a part costs no more.
- `DailyLimit` (`~Restarts`): filled buys of the day are at most the counter once it
  was reset today, and none otherwise.
- `SettledRefinement` (`~Restarts`): shares bought on the calendar day are at most those
  the broker remembers until the close, and at most the position. Both need the assumption:
  a restart forgets today's buys and the counter.
- `FillsReplayed`: while no fee exceeds the exact cost, and if the account did not start with more
  than the replay does (`InitialCash <= ReplayCash`), a replay of the ledger has the shares
  of the account and at least its cash (`ReplayInv`; a sell pays its stamp tax twice, so
  the account has less). The replay refuses what its cash does not cover, hence "at least". An event
  appended to a ledger of any length is one more step of the fold: `FoldLeft` is a recursive
  function over sets of positions, and what it does at each of them follows from well-founded
  induction over finite sets (the set of those where it fails has a least member).
- `Chains`: order ids of events are at most the counter, so a new order starts a new chain.
- `NothingOpen`: an active order has shares left, so `end_of_day` finds it.

**PaperAccount.** Every action is described by a lemma about the fields of its call.
- `TypeCorrect`: types, with `ShapeOK` (which steps each operation can be at).
- `RecordedFiles`: strengthened to what calls hold in memory and will write.
- `SavedSuccess`, `NothingForgotten` (without overlap): `SoloInv` says that one process
  at most is in a call, that it holds all that the account has, and what of its fill is
  already saved; crashes and web servers are allowed.
- `BooksAgreed` (without faults): `BooksInv` says at each step how far the files are from
  agreement. A submission saves account, NAV row and trade in this order; the daily
  execution the trade, and at its end NAV row and account. One formula covers both.
- `IdsAreUnique` (without faults): `Numbered` says which counter, of the call or of the file,
  is at or above the id of every filled order, at each step. The order of a match has
  an id above all of them, and a rejected submission drops its counter together with it.
- `ApprovalsFillOnce` (without overlap or crash): an approved row has no fill unless a
  submission of it is under way, and that one has none before its match (`OnceInv`).

**AgentRuns.** The proof has one lemma per step about what it does to the rows, the runs
and its own call, and one (`GoOn`) that lets a step of one process leave the facts about the
others alone. The inductive invariant `Inv` has five parts: the types; `RowsVouched`, a row
that reads approved was approved at some time; `Exclusive`, no two calls write events of
one run; `Fits`, what each call holds agrees with its step; `Readable`, what each run has so
far. `Exclusive` is needed because the number of an event is read in one transaction and
used in the next: `record_run` makes a run of its own for each call, and nothing else
keeps the numbers apart.
- `TypeCorrect`, `EventsAreNumbered`, `NoChildIsLeft`, `PrunedRowsStayEmpty`: parts of `Inv`.
- `TimelinesRead`: `Telling` says for each step of a call which events its run has so far and
  which it is recording. A run that a call has left is not touched again, and an exception in the
  middle of a recording leaves a beginning of a timeline, which reads as one.
- `RowsAndRunsAgree` (the agreement: as long as nothing went wrong): `Agreed` says that a row about
  which no call is under way agrees with its latest recorded run (`Settled`), and what a call
  still owes its row: between the update of the row and `insert_run` the row says already
  what the run will say (`Owes`). Its run is the latest of the row because no call overlapped.
- `CommandsPassTheGate`: the refinement of `ApprovalGate`, from `RowsVouched` and `Fits`.
- `ApprovalsPayOnce` (without overlap on the row): `Paid` counts the approvals of a row
  against its commands and the one that the running call may still start.

**AgentMemory.** `Inv` has the types and what a call, a row, the program and the browser are about.
- `TypeCorrect`: part of `Inv`.
- `StreamTellsRows`: whatever overlaps. Rows are only added or deleted with their session, so what was
  shown before is a part of what is shown now, and two finite sets of equal size, one in the
  other, are one set. This is why a count is enough for a signature.
- `References` (without overlap, though any call may end between two of its steps): a row that is
  there has its session, a run its action, and evidence is deleted exactly when the last row
  that cites it is. `Sane` says of the call in progress that what it has looked up is still there, and of a
  deletion, that its sessions are archived, since nobody else could restore them, and that
  what it has collected is still what only the doomed rows cite. Nothing is claimed
  about ids that were never created, or about evidence that no row ever cited.
- `SessionsAsAsked` (without overlap): the row a call read is still the row it overwrites.
- `ProgramsGoOn` (without overlap): a phase is dispatched again only if a call that dispatched it
  ended without saving, by an exception or by death; `GoesOn` says that the copy a call works on
  tells what was dispatched, `unsaved` apart, while the row may lag behind it until it is saved.

**RegimeTracker.** Each tracker and the file carry the readings that made them; the invariant
says of each of them, and of what a detection in progress has read, that the count is
the number of newest readings that agree (`Earned`), and that their days are in order (`Sorted`,
`UpTo` the last key, but for the host whose branch has counted a day that its key is still to
name: `InKey`). A file lost or overwritten drops readings and count together, which is why
`CountsAreEarned` survives it; it does not survive two threads in one tracker, and the
property excepts them. `SwitchesAreEarned` follows from the count at
the switch. `DecisionsAreVotes` is about the operator alone: for all probabilities the
hybrid decision is the regime of one of its two voters.

**PipelineBacktest.** `ScheduleIsKept`: between rebalances the last one is no older than the
idle limit allows, so two dates of months with the same name are less than a year apart
and the comparison without the year is right. This needs
`MaxIdle <= MonthDays * (YearMonths - 1)` where a configuration is monthly: the named
assumption, which the 28 days of the monthly strategies satisfy; the 365 days that
backtest/run_all_strategies.py:157 gives a drift schedule would not.

The other theorems follow an order from the signal to the account, with one lemma per stage:
what the alpha models, the constructors, the risk adjuster and the router may hand on.
- `BooksAlwaysBalance`, in any state and without a condition: `Accounted` says that the account is
  worth what it was in the morning less the fees since, that the orders in progress are of whole lots of
  quoted symbols, and that no symbol is sold twice or for more than is held, so the `Larger(0, ..)`
  of the fill never hides a loss. The worth of the holdings is a sum over all symbols, and
  a fill changes one summand (`Sums`, `OneByOne`).
- `AccountSound` (`LotsPayFees`): cash is never negative. The buy that the cash does not cover is
  passed over; a sale can only overdraw the account if its fee exceeds its worth.
  Nothing in the code excludes that at a price below some cents, where the least commission
  is more than the lot: `LotsPayFees` is the condition on prices and rates under which it cannot
  happen. `MCPipelineBacktest` has TLC evaluate it for the prices of the run.
- `BuysAreBounded` (`LotsPayFees`, without which an account in debt has no share to deploy):
  the buys of the first so many signals stay within as many parts of the money (`Within`), so all of
  them stay within the whole of it; halving and rounding never enlarge an order, but for the
  single lot that the property excepts.

A symbol is in a list of signals once: alpha.py scores the symbols of a universe in one loop, and
without it a symbol could be sold twice. This is one of the named assumptions.

**ParquetStore.** `AppendsLoseNothing`: only the holder of the lock of a log writes it, so the
frame about to be written is what the file holds with the new row merged in. Death releases
the lock. A damaged file is read as empty, which is `Damage` in `KeyedLogs`; the frame of a read that
failed (`blind`) holds the new row alone, and its log is among the `missed` ones until it is written
or the append ends. So the theorem says that an append loses no row of a file it could read.
- `TypeCorrect`: types and the bounds on counts.
- `ManifestTells`: two invariants. `Recorded`, as long as nothing was damaged: what a call has
  hashed is what it wrote, for a log because it holds the lock, for the ledger because it is in it alone
  (`OneInLedger`). `Latest`, as long as nothing went wrong: one process at a time records,
  and what it read of the manifest is the latest.
- `RepairsTold`, unless two programs wrote the ledger at once or it was damaged: each repair has one
  program that reports it (`Owned`); `Repairs` says what the ledger tells of all repairs, and
  what the frame about to be written has of them. Failing writes and deaths leave the ledger as it was,
  so what was reported before them stays.

Some theorems state properties that no run lists, because the ones listed there imply
or subsume them: the `TypeCorrect` of modules without a `TypeOK` in a cfg, `AuthorisedOrders`
(part of the refinement), `EventsAreNumbered` and `PrunedRowsStayEmpty` (parts of `TimelinesRead`
and `RowsAndRunsAgree`), `BooksAlwaysBalance` (the part of `AccountSound` that needs no
condition) and `DecisionsAreVotes`.

Only model-checked: `CallsReturn` and `RunningEnds`, because liveness under fairness and ENABLED
are outside the prover. Every other property of a passing run is a theorem. The theorems of the
library about induction over data take an operator as a parameter, which the provers here
cannot instantiate; where sums, folds and replays need induction, it is written out over sets (a least
counterexample of a finite set, `WellFoundedInduction`).

## 5. What is not modelled

- `run_live_reconciliation`, `run_live_monitor` and `run_live_smoke`: they read the broker
  and add evidence and runs, but change no row, file or order of the model.
- Reads and reports that record a run with one call: the run is that of `record_run`, with
  nothing before or after it that could go wrong. The texts of loops, desks and workflows.
- Slippage models, random draws of fill models (a nondeterministic choice instead),
  other asset classes and their exchanges, `frozen_cash` and `_today_sells`.
- A ledger append of the paper broker that raises in the middle of a fill
  (paper_orders.py:309), and unreadable account files (`load_state` answers them with a blank
  account; the mutant `LoadBlank` shows the effect).
- `--setup` and `--replay`, which delete account files but not the ledger.
- Reports: `generate_report` reads `index.json` first and rewrites it last, without a lock
  and by truncating it (reports.py:1365), and `run_report_rhythm` notifies after the index says
  that the report is there. Two processes can lose a row of the index, a reader can meet an
  empty file, and a death before the notification leaves a report that is never sent. This
  is the next component to model.
- Volumes and amounts of trade rows. They hold requested shares, not filled ones.
- The loop of `scripts/execute_paper_trades.py` (218-286) that drives the stages of
  `PipelineBacktest` over a paper broker, one strategy after the other; it refreshes its
  context once, before the first.
- `clear_memory`, which empties every table of the ledger in one transaction.
- Processes that a command starts and that keep its pipes open after it has ended, and a killed
  child that does not end within the second that `wait(1)` gives it.
- Background jobs and web sockets: the dictionary of jobs has its own lock and is lost
  with the process.
- The audit ledger (same append as the backfill ledger) and the text of the cron logger.
- Providers, data quality, features, market views, signals, scores, HMM and research: code over
  data frames without state between calls, or network I/O. They are most of the lines of
  the repository and no state machines.
- Web routing, the command line, configuration, notification, LLM transport, markdown.

The hazards in `PROJECT.json` carry a note wherever no property reaches them.

## 6. Plan

Done, in this order: `ApprovalGate`, `LiveOrders`, `SettledAccount`, `PaperBroker`,
`PaperAccount`, `AgentRuns`, `AgentMemory`, `RegimeTracker`, `KeyedLogs`, `ParquetStore`,
`PipelineBacktest`; proofs for all of them.

Next:

1. More of what the theorems leave to assumptions: T+1 and the daily limit for the days between
   restarts (in place of `~Restarts`), and one order per approval for processes that do not overlap
   on a row (in place of `Alone`), as `AgentRuns` has it.
2. The daily loop over the paper broker as a composition of `PipelineBacktest` and `PaperBroker`.
3. `PaperBroker` for several asset classes, and a fill whose ledger append raises;
   `PaperAccount` with `--setup`, and its file steps taken from `ParquetStore`.
4. `ReportRhythm`: the report index, the cadence computed from it, the notifications, two
   schedulers and deaths between their steps.
5. `Jobs`: strategy jobs and the socket that polls them (web/api/ws.py reads the status once
   for the message and again to decide whether to close), and table repairs, whose
   conflict test (system_data_health.py:143) looks for `running` while a repair that was
   just started is still `pending`.
