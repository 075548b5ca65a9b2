# Verification of the Seiltanzer terminal

TLA+ models of the program under `src/seiltanzer`, the TLC instances that check
them, and TLAPS proofs about them. The program is a decision-support terminal:
a FastAPI process that ingests market feeds, keeps the journal of one user's
trades, lets an AI review recommend a management action, and records what the
user reports having done at the broker. It never sends an order. What has to be
right is therefore the *bookkeeping*: how much of the position is left, which
command is still to be executed, which stop is active, when the trade is closed
and what its result is; that a recommendation is not shown once the position or
the market it was computed for has moved on; that the page does not show a state
older than what the user has just entered; and that the one file that holds all
of it can be restored.

## The system

| Part | Code | State | Operations | What makes it hard |
|---|---|---|---|---|
| Position ledger | `position_state.py` | `position_management_events` (append-only), `management_decisions`, `llm_shadow_manual_actions` | register / acknowledge a decision or an extended action, manual fill, terminal exit, break-even sync, supersession, publication with compensation | called by several threads with a trade read earlier through another connection; retries; its transactions are not those of the journal |
| Settlement | `trade_settlement.py` | writes `trades` and `journal_result_reconciliations` | `settle_from_ledger` | inside the ledger's transaction; explicit totals, legacy exits, unpriced fills |
| Journal | `journal.py` | `trades`, option forecasts, verdicts, market points, replays, human decisions, experiments | open, add closed, edit, delete, resolve, reconcile at start-up | checks outside its lock; edits under a running tick |
| Deletion lifecycle | `trade_delete_lifecycle.py` | `deleted_at`; patches `Journal` | soft delete, guards, `update_max_r` | two of three tables cleaned in one transaction |
| HTTP handlers | `app.py` | none of their own (local variables) | open, edit, close, fill, acknowledge, publish | each handler is a sequence of transactions |
| Market engine | `engine.py` | feed state, current tick | tick, `max_r`, 1.5R trigger, break-even | a thread that overlaps every handler |
| Live state and poll loop | `app.py` 662-764, 799-961 | published snapshot, revision, single-flight tasks | refresh, invalidate, publish, drain | a slow build against an invalidation; a failed task |
| Review jobs, review executor | `ai_review_jobs.py`, `ai_review_worker.py` | one job, one admission slot | start, poll, guard, expire | state read before an `await` and used after it |
| Snapshot materializer | `ai_snapshot_materializer.py` | snapshot, baselines, invalidation reason | watch, build, request refresh | requests that arrive during a build |
| Provider guard | `ai_provider_guard.py` | circuit state, budgets | call, trip, half-open | retries and timeouts |
| Feeds and caches | `data/`, `production_resource_guard.py`, `option_feed_resilience.py` | the instrument and its channels, generations, disk cache | switch, refresh, publish | slow providers answering out of order while the instrument changes and changes back |
| Storage lifecycle | `storage_*.py` | backups, manifests and a marker on disk | back up, seal, retain, drill, restore | a crash between two file operations; a full disk |
| Research (G1, edge discovery, macro) | `g1_*`, `edge_*`, `llm_edge_*`, `macro_*` | research tables | measure, train, evaluate | never changes a position |
| Numerics, policies, wording | `core/`, `ai_policy*`, `ai_verdict*` | none | pure functions | floating point |
| Client, scripts, vendored code | `web/`, `scripts/`, `tools/`, `OpenBuild-main/` | - | - | - |

How they interact: a *handler* reads the trade through the journal (lock and
connection 1), releases the lock, then calls the ledger (lock and connection 2)
with the dictionary it read. A *tick* does the same, with `max_r` and break-even
as its writes. A *review* is computed on a worker from a frozen snapshot, and is
published under both locks; the command it registers carries the geometry version
it was computed for. Every receipt that closes the trade goes on, in a second
transaction, to withdraw what is still pending, and in a third to freeze the
replays of the trade's reviews. A review reads a snapshot that a watcher thread has
built; every handler that writes invalidates the live state after its commit, and
the poll loop or a request builds it again. Nothing but SQLite and the files of the
storage manager survives a restart, and both are what the next start repairs.

`PROJECT.json` lists the components with what is modelled of each, and the hazards
of the code at their lines with the properties that cover them.

## Modules

| Module | Models |
|---|---|
| `PositionBook` | what the ledger promises: the exposure of a trade starts whole, every receipt takes part of it at most once, an exit takes the rest, nothing gives any back |
| `PositionLedger` | the ledger, the settlement, the `trades` row, the commands of a review and the handlers, at the grain of one transaction |
| `MCPositionLedger` | levels and symmetry for TLC |
| `PositionLedgerProofs` | the theorems about the exposure of `PositionLedger` and its refinement |
| `PositionReceiptsProofs` | the theorems about its receipts, results, stops and pending commands |
| `ReviewDesk` | what publishing a review promises to whoever reads the tables: at most one command on the desk, put there together with its verdict |
| `ReviewRecord` | a publication transaction by transaction, its compensation, the end of the trade, the human decision, the replays, and the start that repairs what it finds |
| `ReviewRecordProofs` | the theorems about `ReviewRecord` |
| `ReviewJobs` | the background job of a review, the polls for its result, and the admission lock of the one worker thread |
| `MCReviewJobs` | symmetry of the polls for TLC |
| `ReviewJobsProofs` | the theorems about `ReviewJobs` |
| `SnapshotMaterializer` | the watcher that builds the cached snapshot, the events that invalidate it, and a review from the gate to its publication |
| `SnapshotMaterializerProofs` | the theorems about `SnapshotMaterializer` |
| `LiveState` | the page's bootstrap state, the poll loop with its tasks, and the shutdown |
| `LiveStateProofs` | the theorems about `LiveState` |
| `BackupStore` | local backups with their guards, retention, the life of the service around them, drill and restore |
| `BackupStoreProofs` | the theorems about `BackupStore` |
| `MarketFeed` | the instrument's channels: private copies, generations, publication, the disk cache; the price refresh; the handlers and the loop that start them; the tick that prices the trade |
| `MCMarketFeed` | symmetry of instruments and requests for TLC |
| `MarketFeedProofs` | the theorems about `MarketFeed` |

`ReviewRecord` and `PositionLedger` describe the same commands at two grains: where
`PositionLedger` has the whole publication as one step (`PublishReview`) and the ledger
in full, `ReviewRecord` has the steps of the publication and the ledger reduced to
*exhausted or not*. `PublishesAtOnce` is what justifies the one step.

### PositionLedger

*State.* `trades` is the part of a journal row the ledger depends on: status,
levels (`geo`), whether 1.5R was reached (`max_r`), where the result came from
(`result_basis`) and what it says, `deleted_at`. `events` holds the rows of
`position_management_events` per trade in id order, with `fraction_before`,
`fraction_closed`, `fraction_after`, the stop and take the event confirms, its
`decision_id` (`key`) and whether it has an execution price. `commands` merges
`management_decisions` (policies of `BasePolicies`) and
`llm_shadow_manual_actions` (`ExtendedPolicies`); `IsLatest` and `Supersede` keep
the two tables apart where the code does. `held[h]` is what thread `h` has on its
stack: where it is between two transactions, and the row it read.

*Actions.* One action is one transaction, or one read that later transactions
use. `ReadTrade` is `Journal.get_trade`/`active_trade`; what follows uses
`held[h].row`, never `trades`, exactly where the code uses its dictionary.
`OpenCheck` / `OpenInsert` / `OpenLedger` are the three steps of opening a trade;
`ReadForEdit` / `EditLevels` / `EditSupersede` the three of an edit: the row it will
compare with is read under one lock, the edit takes it again and reads the row anew, and
the supersession comes only if the two differ (`kept` if they do not); an acknowledgement is
`ReadTrade`, then one of the `Acknowledge*` actions, `ManualFill` or
`RetriedReceipt`, then `CompleteAck`. `Record` is `_event`: the unique index on
`decision_id`, the insert and the settlement of the last fill, in the caller's
transaction. `PublishReview` is a whole publication: it registers the decision,
possibly replaces it by an extended action, and withdraws every other pending
command. `Restart` loses every stack and keeps the database. A tick is
`ReadTrade` and then `SyncBreakEven` and `ReachTrigger`, in the order of
`engine.py`.

*Abstractions.* Position fractions are multiples of `1/Unit`; an order whose size is
off that grid is not taken (`Portion` is empty). Prices are small integers and keep
only their order. R values are reduced to *priced* or not, which is what the result
status depends on. `_geometry_version` hashes the levels, the remaining fraction, the
barriers and `state_version`: the model compares the levels and the number of the
trade's events, of which the rest is a function. `state_version` is the id of the
newest event (a global AUTOINCREMENT), modelled as the number of the trade's events;
both change exactly when an event of that trade is written. An `INSERT OR IGNORE` that
ignores, and a receipt that is already recorded, leave the database as it is:
`RetriedReceipt` is what such a handler still does afterwards. An
`expected_state_version` sent by a client only adds a refusal. `MOVE_TO_BE` and
`TRAIL_GAMMA_FLIP` differ from `TIGHTEN_STOP` only in where the price comes from.
The `TAKE_EXIT` receipt of `strategy_terminal_guard.py` is an `EXIT` receipt; its
query for the newest decision does not leave `publication_failed` rows out, which can
only refuse more. The HOLD row that accompanies an extended action is never pending
and has no slot of its own. Continuing a pending stop reference is not modelled:
`execution_reconciliation` refuses the review first. The trailing
`position.state(...)` of the edit handler is `TouchLedger`. The deadline of a
`TIME_STOP` is the Boolean `due`, which `DeadlinePasses` sets. The `with self._conn`
of a helper called inside another transaction commits what is there; none of these
commits falls between an event and the status of its receipt, so the pair is one step.

### ReviewJobs

*State.* `job` is the `ReviewJobs` object: `job_id` (a number; `issued` counts them),
where its task is, the response of the finished task, `invalid`, and whether
`MAX_JOB_AGE_SEC` has passed since `started`. `slot` is `ReviewExecutor._admission`,
`calls` the functions that were submitted and have not completed, each with whether
anybody still awaits it. `polls` are the GET coroutines suspended in `poll`. `world` is
all that the delivery guard compares (the trade, its levels and executions, the quote);
two situations the guard accepts for one another are one value. `reply` is the answer
given in the step and nothing otherwise, `told` what the polls of a job were ever told:
both exist for the properties.

*Actions.* The job and the polls are coroutines of one event loop, so an action is what
one of them does between two awaits; the worker thread and the world run in between.
`Start` is the POST, `ReviewBegins`, `ProviderStageReturns` and `PublicationReturns` the
review between its stages on the worker, `PollAsks` a GET up to its await,
`PollTimesOut` and `PollResumes` the two ends of the three-second wait,
`PollDisconnects` a client that goes away. `WorkerRuns` is the function itself,
`WorkerCompletes` the completion of the future, whose callback releases the lock and
which wakes whoever still awaits it. `shield` and `run_in_executor` both leave a running
call alone when its awaiter goes, hence `Abandoned`.

*Abstractions.* The stages of a review before its publication are one: each submits,
awaits and may find the worker busy in the same way. A success always binds its guard
(`app.py:1592`), so the guard is not a variable of its own. The two bodies of a 409 have
the same control and are one answer. A job is cancelled only when the application shuts
down, which is part of `Restart`. The model does not order the wake-ups of two
coroutines, so it has more interleavings than the loop and none fewer.

### ReviewRecord

*State.* `base` and `ext` are the statuses of the two command tables, one slot per
review; `verdicts`, `humans` and `replays` the reviews with a row in the respective
journal table. `trade` is the row's status and `result_basis`, whether its ledger is
exhausted, and whether it has a `MANUAL_EXIT`. `pub` is the running publication with
what was pending when it began, `asking` a human decision between its check and its
insert, `ending` what the handler that ended the trade has still to do, `server` the
stage of the start. `stranded` and `unreplayed` are histories: which publication died
half-way, and whether a handler died between an exit and its replays. `edits` counts the
edits between their two transactions; `erased` and `skipped` are histories of the reviews
an edit deleted and of those whose replay raised. `recoveryError` is the `RECOVERY_ERROR`
of the running process.

*Actions.* `Begin` to `RecordVerdict` are the transactions of `app.py:326-445` and of
`decision_publication`; `PublicationFails` is an exception at any of them with the
compensation, `CompensationFails` one in which the compensation raises too. Receipts, the
closing form, `Withdraw` and `Resolve` are the transactions of the handlers. An edit of the
levels deletes the trade's snapshots, verdicts, human decisions and replays in the journal's
transaction (`EditLevels`) and withdraws the commands in the ledger's (`EditSupersede`), or
does not (`EditKeeps`: it fails, or compares with a row that another edit has made stale).
`Resolve` skips a review whose replay raises (`Replay`), and `RecoverRemainder` records the
exception of one trade and goes on. `Start` is `ReconcileClosures`, `ReplayRepaired`,
`RecoverRemainder`: the journal's and the ledger's reconciliation at start-up, with a crash
between any two. `Init` is a database found at start, `Found` the rows that older versions
left.

*Abstractions.* Whether a later stop has overtaken a superseded one is a free choice
(`Begin`), which is all of price and side that matters here. A partial fill changes
nothing this module tells apart and is left to `PositionLedger`. `register_shadow_action`
returning nothing is a review of the policy HOLD. What a compensation restores is carried
in `pub` as in the code, although it is always empty in the running system:
`execution_reconciliation` refuses a review while anything is pending. For the same
reason continuing a pending action is never reached.

### SnapshotMaterializer

*State.* `trade`, `published`, `market` and `quote` are what the events compare: the
active trade with the version of its levels, the publication and bar markers, the price
band with the chain and the instrument, and whether the quote has authority. `snapshot`
carries what its builder consumed, `baseline` what the check compares with, `invalidated`
the reason that is set. `watcher` and `request` are the two actors. `condemned` is a
history: an event has spoken against the snapshot that is kept.

*Actions.* `Watch` to `FailBuild` are `_run` and `_build_once`; the builder reads trade,
quote and publications in one step of its own, after the watcher has read the trade and
the markers. `Refused`, `Admit`, `CheckCached`, `ReadCached`, `Finalize`, `PublishReview`
and `StaleReview` are one request from the middleware's gate to the comparison that
refuses a stale decision.

*Abstractions.* The reasons are told apart as far as the code does (none, no active
trade, any other). The wake event is left out: it shortens a wait that ends after two
seconds anyway. One request is past its lock at a time (`ai_lock`, others get 429). A
frozen market input that is busy, or a reference model that is still pending, is a build
that fails. A refresh asked for while a build runs is cleared when the build ends, as in
the code; what was published meanwhile is found by the next check. `stop()` is never
called. The guard of `install_ai_snapshot_runtime_guard` is part of the model: `backoff` is
set when a build ends with an error, `HoldOff` is a round of the watcher that it cuts short
(the reason is recorded all the same), `EndBackoff` the end of its pause. Its middleware
refuses a request without a trade before anything is read. The wrapper of
`install_ai_snapshot_causality_refinement` adds fields to the snapshot and no state. The
comparisons of `_event_reason` (`305-329`) are skipped while a side is `None`: no quote yet, or a
marker that cannot be read. The model compares always, as if every marker were readable; with
one that is not, the code accepts more. A price without a value is a quote without
availability, which the comparison of the quotes finds first. `EditLevels` is an edit of the
take, which leaves the distance that is measured unchanged; an edit of entry or stop moves it
too, which is `EditLevels` and then `Move`.

### LiveState

*State.* `revision`, `current` and `error` are the fields of `live_state_snapshot`;
`current.journal` is the number of writes its builder had read, `current.tick` the number
that the tick which is part of it had read. `tickRead` is what the tick under way has read,
`newest` the tick that was published last. `refresh[c]` is one call
of `refresh_live_state`, by the poll loop or by a request; `tick`, `feed`, `poll`,
`server` are the tasks and the lifespan. `writing` are handlers that have committed and
not yet invalidated; `told` and `shown` are histories.

*Actions.* `Commit` and `Invalidate` are the two halves of a writing handler, `LeaveStale`
one that fails in between. `Enter`, `ReadJournal`, `Encode`, `Settle` are a build around its
lock and its worker, which runs on when the call is cancelled (`Cancel`). `TickReads` and
`TickEnds` are `tick_payload` around its reading of the trade and its position. A build by
the loop carries the tick that was broadcast (`AfterBroadcast`), one by a request the newest
when it has the lock (`Enter`). `Pass` is one round of the loop up to its first await,
`AfterBroadcast` the rest, `Drain` the `finally` block, `Shutdown` and `Close` the lifespan.

*Abstractions.* One feed stands for all of them, as the loop treats them alike. The
pause between two builds is the Boolean `cooled`. The passive loop is not modelled.
`Over` is the stutter of a process that has ended.

### BackupStore

*State.* A backup is a file and a manifest that is missing, *base* (already "verified")
or *sealed*. `live` is what `trades.db` holds, as the number of the last commit in it,
`aside` the databases a restore has moved away. `op` is the holder of the manager's lock
and what it has still to unlink, `proc` the life of the service, `marker` the shutdown
marker. `others` is the space other files take.

*Actions.* `Enter` to `Cleaned` are `create_backup` with the guards in the order the
program installs them (refinement, disk guard, sparse guard, availability guard), one
file operation per action; `Start` to `Stop` the lifespan of the service; `BeginDrill`,
`EndDrill` the drill; `BeginRestore`, `Preserve`, `Replace` the operator's restore.
`Crash` and `Interrupt` stop either between any two operations, `Fail` is an error of
one step.

*Abstractions.* Space is counted in copies of the database. Time is left out: the
background loop may back up at any moment. Single-slot rotation is not modelled because
the installed order never reaches it: the availability guard answers first. Neither are
errors of `unlink` itself, off-host copies, the backups of a schema's identity, temporary
files, the WAL, and `--no-preserve` (which throws the live database away on request).

### MarketFeed

*State.* `code` and `revision` are `instrument_code` and `_price_revision`; `price`, `field`
and `intraday` the published inputs, each an observation with the instrument and the
revision it was asked under, the time it was made, and whether it is a live tick
(`intraday` keeps only the set of instruments its bars are of). `disk` is `DiskCache`, the
newest copy per instrument of the two channels that are kept. `refresh[<<ch, who>>]` is
one call of a wrapped `refresh_*`: what it captured under `_intraday_lock` and what its
private view holds; `quote` the one `refresh_price` the lock admits. `trade` is the active
trade's instrument in the journal, `request` the handlers of an open and an edit, `tick`
what `tick_payload` has read, `point` the last market point.

*Actions.* `Capture`, the five `*Answers`, `Admit`, `Store`, `Publish` are
`_isolated_refresh` split where it releases `_intraday_lock`: the copy, the provider, the
first check, the writes to the cache, the second check with the assignments. The
publication lock of a channel is held from `Admit` to `Publish`, the heavy lock of the
resource guard from `Capture` to the end. `StartPrice` to `PublishPrice` are `refresh_price`:
the revision is read first, the instrument when the provider is asked, the bars grow on
the live object (`TickArrives`, `TrimBars`), and only the quote is compared with the
revision. `OpenArrives`, `RequestPrice`, `JournalOpens`, `Follow` and the refreshes one after
the other are `POST /api/trade`; `EditCommits`, `Follow` and the same refreshes `POST
/api/trade/edit`.

*Abstractions.* An observation stands for a value with its time stamps; two chains or two
daily series of different requests always differ. Throttled, skipped, empty and failed
calls of a provider are one outcome each with what they leave behind (the copy, dimmed or
too old). A second attempt at an option chain ends as the first could have. The cache keys of
two instruments differ, as their tickers do. The check and the insert of an open are one
step here, `PositionLedger` has them apart; at most one trade is open. The branches for
crypto instruments (no setup of the terminal has one) and for the demo market, the Bybit
fallback, and what a refresh computes from its bars are left out, and so is the shedding
of a refresh under memory pressure, which is a refresh that did not start.

## Runs

The `ledger_*` runs are instances of `PositionLedger` through `MCPositionLedger`.
`MaxEvents` bounds the events of one trade (a guard of `Record` and `TerminalExit`), so
the system may stop there and deadlock is not checked. `MaxJobs` bounds the jobs that are
started and `MaxBackups` the backups that are named, with the same consequence. In `MarketFeed`
`MaxRefreshes` bounds the refreshes of a channel the loop starts (a handler starts its own
beyond it), `MaxObservations` what the providers return, and each request is sent once:
without the price in `Polled` (`feed_daily`) the system may stop. Deadlock is checked in the other runs.

| Run | Instance | Shows |
|---|---|---|
| `ledger_fills` | 2 threads, 2 commands, 1 manual fill, Unit 4, 3 events | reductions, exits, stop moves, break-even, retries, result edits, deletes in every order: `TypeOK`, `LedgerChain`, `ReceiptMatchesLedger`, `FilledTradeIsClosed`, `AvailableResultIsPriced`, `ExplicitTotalKept`, `StopNeverLoosens` |
| `ledger_conditionals` | 2 conditional commands, 1 manual fill, Unit 4, 4 events | `ScaleOutKeepsItsSize`, `ReceiptIsFinal`, and `ImplementsBook` |
| `ledger_edits` | fair handlers, take commands on a short trade whose take is edited, 1 manual fill | `OldLevelsAreWithdrawn` (liveness), `ClosedTradeHasNoPending` |
| `review_jobs` | fair loop and worker, 2 polls, 2 jobs, 2 situations | `NeverResurrected`, `DeliveredWasCurrent`, `SlotIsHeldByItsCall`, `JobEnds` (liveness) |
| `review_record` | 2 reviews, 2 edits at once, rows of every version at the start, replays and recoveries that raise, crashes anywhere | `PublishesAtOnce` (refinement of `ReviewDesk`), `ActionableIsRecorded`, `ClosedReviewsAreReplayed`, `HumanBeforeReplay`, `StartupSettles` |
| `snapshot_cache` | fair watcher, 2 trades, 1 edit, 1 publication, 2 moves between 2 markets, 1 failed build, 1 request | `AcceptedIsCurrent`, `CondemnedIsNotAccepted`, `ServedTradeWasActive`, `CompletionIsAccepted`, `EventuallyReady` (liveness) |
| `snapshot_levels` | violation of `AcceptedHasLevels`: 1 trade, 1 edit | a snapshot of levels that were edited since is accepted |
| `live_state` | fair threads and loop, 1 request, 2 writes, 1 failed build, 1 failed tick | `RowsSeeWrites`, `SingleFlight`, `ClosesAfterItsReaders`, `GenerationsAdvance`, `StateReturns` (liveness) |
| `backup_store` | fair backup thread, 4 backups, 1 commit, room for 3 copies, one each of a squeeze, a fault, a drill and a restore | `ReplacedBeforeRemoved`, `LastCommitIsKept`, `NoHalfBackups`, `CleanMeansBackedUp`, `RecoveryPointAppears` (liveness) |
| `feed_daily` | 2 instruments, daily bars without the heavy lock, 1 refresh by the loop, 2 requests, 2 observations | `PublishedIsOfEpoch`, `DiskNeverGoesBack`, `ShownNeverGoesBack` |
| `feed_proxy` | 1 instrument, proxy, chain, IV surface, intraday, price and ticks, 1 request, 2 observations | `StreamTickStays` |
| `trade_is_priced` | violation of `PointOfTradeInstrument` | a trade's market point at another instrument's price |

*Why the bounds are enough.* Every hazard involves at most two actors between whose steps a
third transaction falls: two threads (or one thread and a review) and two commands produce every
such order. Unit 4 lets a half be halved once more; what closes everything is a manual fill, an
exit or a time stop (the receipt of an `EXIT` command is that of a half with another part); four
prices leave room between entry, stop and take for a command and a quote on both sides of it.
Three events are an opening and two fills, of which the second must start from what the first
left and may exhaust it, or an opening, a break-even stop and a stop command against it; four
are an opening, an order armed, another fill, and the fill of the order. One row is enough where
the property is about one trade; the proofs below cover any number. For reviews, two polls are
one that is suspended and one that changes what it checked; two jobs are one and its
replacement; two situations let the market move and come back. `ledger_edits` keeps to one
policy, as the supersession treats all of a table alike and the mutant that forgets the other
table is found with it; its two handlers are the two edits that overlap. The second thread of
`ledger_fills` moves the stop, by a receipt or by the break-even trigger, behind the row the
first has read; its levels stand still, and `StopsOnlyTighten` proves the property with edits
too. Two published reviews are one that is settled, dies half-way or is erased by an edit, and
one that meets what it left; two edits are one that erases the first and one that meets the
second. In `snapshot_cache` the second trade replaces the first under a running build, and two
moves take the price away and back. In `live_state` the second write arrives during the build
that followed the first; a call is a call, so one request beside the loop is the other holder of
the lock, which the proofs extend to any number. In `backup_store` four backups exceed the
retention of two while one is being made and one has failed. In `feed_daily` two requests switch
the feed away and back; together with the loop they are three refreshes of one channel, of which
two can have answered while a third publishes, and both requests refresh the price too. Two
observations are an older and a newer. The heavy lock is taken away: with it two refreshes of a
heavy channel never overlap, and what is claimed must not depend on a guard that is installed
for memory. `feed_proxy` is about what happens while the instrument stays, so it has one: the
chain may be the loop's or the handler's, and a tick falls between its spot and its publication.

*The one-fault bound.* `backup_store` allows one crash or one failed step per history, and
`ReplacedBeforeRemoved` depends on it: what breaks it is a crash while the files of a failed
attempt are being removed. The manifest of the newest backup may then be left without its
file; it still counts as a recovery point, and a full disk lowers the floor to one and
removes the last whole backup in its favour. `RemovedIsReplaced` proves the property for any
number of crashes if no step failed, and for any number of failures if nothing crashed. The
other safety properties of the run are proved for any faults.

*Fairness.* `FairSpec` of `PositionLedger` assumes weak fairness of the second transaction
of a handler that has made its first (`EditSupersede`, `CompleteAck`): the thread is
running and waits for nothing but a lock with a short critical section. It excludes
`Restart`, as a process that dies between the two does leave the command pending. Nothing
is assumed of users, brokers, reviews or ticks. `ClosedTradeHasNoPending` is checked under
the same specification for the same reason. `FairSpec` of `ReviewJobs` assumes that the
event loop resumes a coroutine whose await is over, that the worker ends the function it
was given (its provider call has a transport timeout, `detached_provider_timeout`, and its
locks short sections), and that time passes; nothing of clients, restarts or the market.
`SnapshotMaterializer` assumes `WF(Watcher)`, a daemon thread whose wait is two
seconds and whose builder computes, and `WF(EndBackoff)`, a pause of twenty seconds by the
clock. `LiveState` assumes that threads go on and end (`Refresh`,
`FeedEnds`, `TickReads \/ TickEnds`), that a handler goes on after its commit (`Answer`), that the event
loop runs what is ready (`Loop`, `Close`) and that time passes (`Cool`); nothing of requests,
writes or a shutdown. `BackupStore` assumes that the thread inside `create_backup` goes on
and that the background loop, which tries every minute, tries again; nothing of the disk,
of crashes or of operators. No liveness is claimed of
`MarketFeed`.

### Findings

* `trade_is_priced`: a tick reads the trade (`engine.py:316`) and the quote (`319`) and never
  compares their instruments; they differ while an edit is between its commit and its switch
  of the feed, and after an open that was refused once it had moved the feed (`app.py:1186`),
  until somebody edits or opens again. The snapshot of a review does compare them
  (`ai_verdict_base.py:260-269`); the market points and `max_r` do not.
* `snapshot_levels`: the head of `ai_snapshot_materializer.py` (`3-7`) and the trigger it publishes
  (`TRADE_EDIT_OR_REPLACEMENT`, `269`) name a trade edit as an event that rebuilds the snapshot;
  `_event_reason` compares the trade's id alone (`295`), and no edit asks for a refresh. An edit of
  the take during a build or after it leaves the snapshot of the old levels accepted. The review
  that reads it takes the present levels (`app.py:1425-1438`) and reprices its base controls with
  them (`ai_snapshot_market_refresh.py:86`); whatever else the build computed is of the old ones.
Known and contained in the models, without a run of their own (the hazards of
`PROJECT.json` name their lines); where a module states the property, its comment says that
it is known not to hold:

* `FeedsAreScheduled` (`LiveState`): `poll_loop` takes `tick_task.result()` (`app.py:918`)
  outside the suppression that the feeds and the build enjoy. One failed tick calculation
  leaves the loop; the server answers on, with no feed and no tick scheduled, and at
  shutdown the exception is raised a second time before `engine.close()`. `StateReturns` exempts
  a loop that has ended, so it is no answer to this hazard.
* `GeometryChangeSupersedes` (`PositionLedger`): the edit handler reads the previous row
  (`app.py:1279`) and edits (`1280`) under two acquisitions of the lock, and supersedes
  (`1286-1290`) only if what it wrote differs from what it had read. Handler A reads G1, B edits
  to G2 and supersedes, a review is published for G2, A edits back to G1: to A nothing changed,
  and the command for G2 stays pending, although a geometry change supersedes by
  `docs/TRADE_POSITION_STATE_CONTRACT.md:5`. The other half of that line, that the stale execution
  is refused, does hold. `OldLevelsAreWithdrawn` is the property without such an edit.
* `PageSeesWrites` (`LiveState`): the page asks for `/api/state?fresh=true` after a mutation because
  it needs "a generation built after the write" (`web/js/app.js:176`). The rows are; the tick that
  is part of the generation, with the trade, its remainder and its stop, was calculated before the
  build was asked for (`app.py:921-935`, or `711-712` for a request). A write that is answered
  meanwhile is not in it until the next tick. `RowsSeeWrites` is what the revision does guarantee.
* `DrillProvesRestore` (`BackupStore`): the drill compares a manifest's own hash only if there
  is one (`storage_restore_drill.py:254`), the restore requires it. A process that dies
  between the base manifest and its seal leaves a backup that passes the first and fails
  the second.
* `ReplaysSurviveCrash` (`ReviewRecord`): the exit and the replays are two transactions
  (`app.py:1239`, `1245`); a crash between them is not repaired at the next start, which
  looks at open rows and at totals of the old form only.
* `BarsOfInstrument` (`MarketFeed`): `refresh_price` appends to `self.intraday` of the live
  object after its network call (`feeds.py:791`, `830`, `850`) and compares the revision only
  for the quote (`654`); a switch in between leaves the new instrument with a bar of the old one.
* In the ledger and the reviews: two open requests may both insert a row; a tick may write
  `max_r` of levels that have just been edited; the supersession of an outdated command is
  rolled back with the refusal that discovers it; a delete withdraws the commands of one
  table of two; a poll whose wait outlives its job is sent on to the next job. The newest
  stop event survives an edit of the levels; what the active stop should be after one is
  stated nowhere, so `StopNeverLoosens` exempts that step.

## Proofs

`PositionLedgerProofs` proves, for every set of trades, commands, requests and threads,
every set of valid levels and every `Unit` and `MaxEvents`, from the assumptions
`PositionLedger` names:

* `TypeCorrect`: `Spec => []TypeOK`. One lemma per action; rows, commands and held rows
  are updated by a few shared operators (`Record`, `Receipt`, `Supersede`, `Settled`),
  whose typing is a lemma each.
* `LedgerIsChain`: `Spec => []LedgerChain`. Inductive together with `TypeOK`, because
  every event begins at `Remaining` of the ledger it is appended to and closes a
  nonnegative part of it. `LedgerSteps` classifies every step by what it does to
  `events`: nothing, an opening, or the append of one event to an ensured ledger.
* `OneEventAlways`: `Spec => []OneEventPerDecision`, from the guard of `Record` and the
  fact that events without a key share `NoKey`.
* `FilledTradesClose`: `Spec => []FilledTradeIsClosed`. Not inductive alone: a step
  that appends to a ledger of a row that does not exist yet would break it, so the
  invariant is `TypeOK`, the property, and `RowsBeforeLedgers` (a ledger that has
  events has a row, and so does a handler that holds one). `RowSteps` says what a step
  may do to a row, `HeldSteps` to what a handler holds.
* `LedgerImplementsBook`: `Spec => Book!Spec`. The initial state maps to the initial
  state; a step that appends an event with a key is `Confirm`, one without a key that
  closes something is `Exit`, everything else stutters.

`PositionReceiptsProofs` continues for the same constants:

* `ReceiptsMatchLedger`: `Spec => []ReceiptMatchesLedger`. The invariant adds that the key of an
  event names a command of that ledger's trade (`KeysOwned`), that an order is only ever armed for
  a conditional policy (`OrdersAreConditional`), and the property restated over the keys a
  ledger holds (`Backed`). Every step is one of three kinds (`CommandSteps`): quiet, with
  no command received and no key written; the publication of one review; or the receipt of one command, which
  writes its status and its event together.
* `ReceiptsAreFinal`: `Spec => ReceiptIsFinal`, from the same three kinds.
* `ScaleOutsKeepTheirSize`: `Spec => []ScaleOutKeepsItsSize`. `SizeInv` adds to the receipts'
  invariant that the fill of a spike order comes after its arm in the ledger and closes its
  fraction of what the arm found. A fill reads its size from the arm's event
  (`SizedByItsArm`), and no later event moves either of the two (`SizeStays`).
* `ResultsArePriced`: `Spec => []AvailableResultIsPriced`. The settlement adds up the fills that
  have a price and compares the sum with the whole. That the fold the code is modelled by is
  that sum, and that the fractions of a chain account for what is no longer left, is
  induction over the length of a ledger; it is done from the well-foundedness of the naturals,
  with sets where the library's theorems take operators (`NumbersByInduction`, `FoldIsSum`,
  `ChainAccounts`).
* `TotalsAreKept`: `Spec => ExplicitTotalKept`, with `TotalsAreUsers` (a manual total is
  recorded as the user's), from `RowSteps`.
* `StopsOnlyTighten`: `Spec => StopNeverLoosens`. The active stop is that of the newest event
  that confirms one (`NewestAfterAppend`), and what each receipt appends has passed the
  comparison with the stop of the ledger it is appended to (`StopSteps`).
* `ClosedTradesAskNothing`: `Uninterrupted => []ClosedTradeHasNoPending`, for one life of the
  process, as in the run: a restart loses the second transaction. `PendingInv` adds that
  a command has a row (`CommandsHaveRows`), so that a trade which is opened under a number
  has no old command waiting.

`ReviewJobsProofs` proves, for any polls, situations and number of jobs, and without
fairness:

* `ReviewTypeCorrect`, inductive with `StagesReturn` (a stage of the review has no
  outcome of a validation).
* `SlotFollowsCall`: `Spec => []SlotIsHeldByItsCall`; `CallSteps` classifies every step by
  what it does to the calls.
* `NoVerdictAfterEnd` and `VerdictWasCurrent`: `Spec => []NeverResurrected` and
  `Spec => []DeliveredWasCurrent`. Neither is inductive. `VerdictInv` adds what a poll
  relies on while it is suspended: whoever was told of an end was told of a job that is
  replaced, expired or invalid (`EndsAreFinal`); a suspended validation of the kept job
  means the job is done, so what it froze no longer changes (`Validations`); an awaited
  call compares with just that (`CallsServePolls`); and a validation that passed did so in
  a situation its poll has seen (`PassedWasSeen`).

`ReviewRecordProofs` proves for any number of reviews: `TypeCorrect`, `Recorded`,
`OneCommand`, `HumanFirst`, `ImplementsDesk`, `StartupIsSettled`, `ClosedAreReplayed`. The
invariant `Inv` says that a review that has not begun is in no table (`Fresh`), which table
a policy may be pending in (`Kinds`), that a running publication has found the desk empty,
has nothing to restore, and has only its own rows so far (`Alone`), that the desk holds one
command at most (`One`), that an actionable command is recorded or stranded, and that a
human decision under way is for a review that is not replayed (`Asked`). What an edit has erased
counts as recorded for the desk, which only forgets commands; an erased review whose command
is pending has an edit still under way, or is stranded (`LeavesOnRecord` says which steps keep
that). `ImplementsDesk`
follows action by action: the commit of the verdict is `Publish`, a failure that leaves a
command behind is `Strand`, a receipt `Clear`, and the rest stutters. What closes a trade
needs a second invariant, `Over`: a row that a running process sees is settled, or its
recovery error is on record (`Final`, `Whole`); a closed one is replayed, skipped, about to be, or
left so by a process that died
(`Replayed`); and a publication runs on an open row (`PublishedOpen`), so that no verdict
appears after the replays.

`SnapshotMaterializerProofs` proves `TypeCorrect`, `AcceptedSnapshot`, `CondemnedSnapshot`,
`ServedSnapshot` and `CompletedSnapshot`, for any markets and bounds. The argument is that
the anchor of the publications is never newer than what the builder read (`Anchored`,
`Cached`), so that an anchor equal to the present leaves no room for a publication in
between; that a condemned snapshot is invalidated until it is replaced or forgotten
(`Condemned`); and that a request between its check and its read has seen every active
trade, the one of the snapshot it may be given among them (`Seen`).

`LiveStateProofs` proves `TypeCorrect`, `ServedRowsSeeWrites`, `ErrorIsCurrent`, `OneBuild`,
`ReadersEndFirst` and `NoReaderGoesBack`, for any finite set of requests. `Core` is what a
build that has read the journal relies on: if its revision is still the current one it has
read every write that was told, and it has read whatever was ever shown, because reading
and publishing happen under one lock (`ReadsInTime`, `OneHolder`). Nothing is claimed of the tick a
state carries. `Quiet` says that a loop
that is over left no thread behind, and a stopping server no request.
`ErrorIsOfThisRevision` (a reader is never failed by the error of an earlier revision) is
proved and has no run.

`BackupStoreProofs` proves `TypeCorrect`, `CommitsSurvive`, `BackupsAreWhole`,
`CleanIsBackedUp` and, for faults of one kind, `RemovedIsReplaced`, for any sizes and any
number of faults. `Attempt` describes what the holder of the lock has made so far and what
it has still to unlink (every other backup is whole or was left by a crash); `Recoverable`
is the restore's and the start's share of the last commit. `Succession` is why removal is
safe: what was ever sealed, or is listed by a manifest, is whole or has a newer backup that
is (`Succeeded`), and whatever is being unlinked has a newer one that is whole and stays
(`Outlived`). Both leave the attempt under way out of account, as it may still fail, so a
copy that was published and pruned for is never what the older ones rely on until it is
sealed. It is inductive because the newest settled backup is whole and no budget drops it
(`NewestIsWhole`, `NewestIsKept`).

`MarketFeedProofs` proves `TypeCorrect`, `PublicationIsOfEpoch`, `ShownIsKept`,
`DiskGoesForward`, `ShownGoesForward` and `TicksStay`, for any instruments, channels,
requests and bounds, with or without the heavy lock. Nothing published is inductive alone.
`Epoch` says what a refresh that may still publish relies on: a revision that is still
current names the instrument it was asked of, and everything captured or answered under it
is of that revision. `Order` is why the disk and the page advance: of the refreshes of a
channel only the newest generation can be current (`Generations`), one at a time is between
the two checks (`Exclusive`), no observation is newer than the clock (`Times`), what is
about to be written is newer than what is there (`Writes`), what an answer took from the
disk is still there or replaced by something newer (`Backed`), and a refresh never holds
less than it copied (`Advancing`). `ShownIsOnDisk` is part of it: a failed fetch falls back
on the disk, so the page goes forward only if the disk is ahead of it. The proxy is
published by two channels and needs an invariant of its own, `Spots`: what a chain would
publish for it is the copy it took unless neither is live (`SpotOf`), so its indication
never replaces a live tick; and as long as a refresh of the proxy may be published, a live
tick on the page is the one it copied, and what it answered is no older than that
(`TickOf`).

Proved and without a run of their own: `OneCommandAtATime` (`OneCommand`), `ShownIsOnDisk`
(`ShownIsKept`), and the type invariants other than the ledger's.

Every safety invariant and every action property that a passing run checks is stated by a theorem.
Two of them say less than `Spec => P`: `ClosedTradesAskNothing` is about one life of the process,
as its run is, and `RemovedIsReplaced` is about faults of one kind, where its run bounds their
number by one.

Only model-checked: liveness (`OldLevelsAreWithdrawn`, `JobEnds`, `EventuallyReady`,
`StateReturns`, `RecoveryPointAppears`), which needs the fairness of actions and their
`ENABLED`, out of the provers' reach.

## Not modelled

* *Provider guard.* Circuit breaker, budgets and retries end in one of three outcomes of a
  review's stage, which `ReviewJobs` has.
* *Journal.* Forecasts, market points and experiments: data of the research side, which no
  trading decision reads.
* *Passive loop* (`app.py:977`). Its task is cancelled at shutdown and its thread is not
  awaited; what the thread does belongs to the research side.
* *Market engine beyond its reads and writes, numerics, policies, wording, the parsing of what a
  provider returns.* Functions of data over reals, and I/O.
* *Bybit fallback, volatility indices, correlation.* `refresh_bybit` checks the instrument
  without the lock and assigns after it (`feeds.py:595`); the next refresh repairs it.
  A throttled or failed refresh of the proxy publishes its older copy over a chain's newer
  spot (`feeds.py:547`): both are indicative, and `StreamTickStays` is what the code claims.
* *Off-host backups and schema backups.* Copies of what `BackupStore` has made.
* *Research (G1, edge discovery, LLM edge, macro data).* Pipelines over archives; they
  never write the trading state. Most of the repository's lines are theirs.
* *Client, scripts, vendored code.*

What would add most next: that a request which switches the feed is answered, under the
fairness of the locks it takes; the provider's circuit breaker as a component under `ReviewJobs`;
a refinement from `ReviewRecord` to `PositionLedger` itself instead of the shared abstraction;
the variant that bounds the steps of each liveness property, whose descent is a safety property
and could be proved.
