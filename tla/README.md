# Orqflow, modelled and proved in TLA+

Orqflow runs robotic processes: a bot takes *transactions* (rows of `tbl_queue`)
for one application after the other, logs in, calls the project's processing
function, and records what came of it. *Master* bots fill the queue from an
input source. This directory holds the TLA+ modules that describe that
machinery, the TLC configurations that check them on small instances, and proofs
that TLAPS checks for every instance. Paths below are relative to the
repository's root unless they start with a module name.

## 1. Inventory

| Component | Source | State it keeps | Operations |
|---|---|---|---|
| Workflow graph | `framework/graph.py`, `framework/nodes.py` | the node to run next | nine nodes, six routing functions |
| Process scheduler | `framework/runtime/process_runtime.py` | active step, application, limit, `session_batch_count`, last outcome and texts | activate the first / next step, count a finalised row, run a transaction |
| Execution initialisation | `framework/runtime/execution_init_runtime.py` | `execution_init_reason`, `application_logged_in` | choose a reason, reset the session, advance |
| Application login | `framework/runtime/application_runtime.py` | `application_logged_in` | reuse a session, log in, fail |
| Transition hub | `framework/runtime/transition_runtime.py` | `retry_count`, `wait_count`, `next_action`, `txn` | finalise, retry, wait, switch, end a batch, end |
| Master queue schedule | `framework/runtime/queue_runtime.py` | `master_queue_run_count`, `master_queue_last_run_at` | due?, record a run, wait |
| Queue claims and marks | `queue_runtime.py` (`DatabaseQueue`), `share/common/sql` | `Processing_Status`, `Bot_Name`, `Bot_Comment`, `CTO_Details` | fetch next, mark final, any eligible? |
| Master queue creation | `queue_runtime.py` (`create_master_queue`) | `tbl_input`, `tbl_queue`, summaries | load inputs, create queue sets |
| Connection guard | `database_connection.py`, `queue_db.py` | connection, the driver's cached transaction flag | validate, reconnect outside a transaction |
| Start-up, clean-up | `framework_lifecycle.py`, `cleanup_runtime.py`, `cli.py` | whole runtime | initialise, end, exit status |
| Input row preparation | `queue_runtime.py` lines 523-712, 938-1004, `share/common/excel.py` | the source workbook, which people edit; `tbl_input`; the input summary | map processors, check required values, insert, skip, reject |
| KeySteps parsing | `process_runtime.py` 205-298, `queue_runtime.py` 715-772, the hook selection of three modules | `KeySteps.xlsx`, read once | ordered steps, distinct applications, hooks and modules |
| Configuration | `framework/config.py` | none after start | load and merge layers |
| Named SQL | `queue_db.py` 143-172 | none (pure) | split a file into named statements |
| Logging, Excel and API readers, project hooks | the rest | none that decides | - |

How they interact. One process runs one graph; the nodes share one dictionary,
`runtime_config`, and call each other only through it: a node leaves
`next_action` and `execution_init_reason` behind and a router reads them, often
several nodes later. The database is the only thing processes share. There is
no locking between bots beyond SQL transactions and no heartbeat: what an
interrupted run leaves In Processing is found by the next one, because In
Processing is fetched before anything else.

What is hard, and what has to be true of it:

- *One entrance for many purposes.* Start, batch end, application switch, retry
  and refresh all pass through `execution_init`. A retry carries a row through
  it and must come out with the same row, application and retry count.
- *Values that outlive their row* in the shared dictionary: texts, CTO details,
  retry count, session flag.
- *Crash and restart* between claim and final mark, answers to a commit that
  are lost, and exceptions that leave a node uncaught.
- *Rows arriving* between two queries whose answers are combined.
- *Several bots, several masters* on one database, and connections that go away
  in the middle of a transaction.
- *Two interpretations of one file*: pandas and Decimal sort the same sheet;
  pandas reads a column of numbers with an empty cell differently from one
  without, load after load.
- *Time*: the interval is measured on a clock that can be set, and looked at
  only between sleeps.
- *Progress*: bounded waits, batch ends and refreshes form cycles that have to
  end, or to serve every application; a session keeps a due master run waiting.

PROJECT.json lists each of these at its line, under "hazards".

## 2. Modules

| Module | What it is |
|---|---|
| `TransactionLifecycle` | abstract: what the framework promises about a row (create, claim, finalise, abandon) |
| `Scheduler` | one bot process, node by node, with arriving rows, crashes and restarts |
| `SchedulerInvariant`, `SchedulerProofs` | its inductive invariant, in named parts, what follows from it, and that `Scheduler` implements `TransactionLifecycle` |
| `BotFleet`, `BotFleetProofs` | several bots on one queue, at the grain of SQL transactions; a bot alone on its applications implements `TransactionLifecycle` |
| `QueueSession`, `QueueSessionProofs` | the same bots statement by statement, on connections that fail; implements `BotFleet`, whose theorems thereby hold of the statements |
| `QueueSets` | abstract: what master queue creation promises about `tbl_input` and `tbl_queue` |
| `MasterQueue`, `MasterQueueInvariant`, `MasterQueueProofs` | several masters creating queue sets, statement by statement; they implement `QueueSets`, and their summaries are true |
| `InputLoad`, `InputLoadProofs` | the source workbook and its way into `tbl_input`, in front of `MasterQueue`; its loads are the `Load` steps of `QueueSets` |
| `Schedule`, `ScheduleProofs` | when a master run is due, with the clock |
| `KeySteps`, `KeyStepsProofs` | the sheet and everything that interprets it |
| `ConfigLayers`, `ConfigLayersProofs` | the merge of three configuration files |
| `MC...` | instances for TLC |

Three refinements stack up for a row of the queue: statements on a connection
(`QueueSession`) implement transactions (`BotFleet`), which for a bot alone on
its applications implement the lifecycle; and the nodes of one bot
(`Scheduler`), with crashes and restarts, implement the same lifecycle.
`KeySteps` and `Schedule` open up what `Scheduler` takes as given, the constant
`Steps` and the flag `masterDue`.

### Scheduler

`rt` is `state["runtime_config"]` with the source's field names; `step` stands
for `active_process_step_index` (from 1, 0 for None) and, through `Steps`, for
the active application and limit. `node` is the node about to run. Each node is
one action: `FrameworkInit`, `ExecutionInit`, `MasterQueueCreator`,
`MasterQueueWait`, `GetTransaction`, `LoginApplication`, `ProcessTransaction`,
`TransitionHub`, `End`. An unconditional or purely local router is part of the
action before it; `RouteAfterExecutionInit` is an action of its own because
`route_after_execution_init` asks the queue and the clock, and rows may arrive
in between. `TransitionHub` is one action although it queries the queue: rows
that arrive inside it can only be missed, as if they had arrived after it.
The claim in `GetTransaction` is one action for the same reason (one bot).

Data is abstracted to what the properties tell apart. A row is its ID. A text
(`last_error`, `last_message`, `cto_details`, `Bot_Comment`, `CTO_Details`) is
the row whose processing produced it, or `NoRow` when it is blank, missing or
about no row; so "whose text is this" is a question the model can answer. A
transaction of another process ID, or an orphan queue row, is not a row of the
model, as the SQL leaves it out. `masterDue` says whether the interval has
elapsed. What a project hook or the processing function does is a choice over
everything it may return or raise. A requested action other than `APP_SWITCH`
is never looked at, so None stands for all of them. `batch_count`, `first_run`,
`last_result` and the timestamps decide nothing and are left out.

`Crash` stands for a kill and for every exception that leaves the graph (the
queries of the routers and of the hub, a failing `_mark_final`, the recursion
limit of LangGraph, `driver.stop()`). `Restart` starts a process on the queue
as it is. `RowsArrive` is another master bot. `session` and `attempts` are ghosts:
they remember what the code does not (the application last logged in to, the
attempts at the held row) so that properties can compare it with what the code
believes.

### BotFleet

The same claims and marks for several bots: SELECT (`SelectNext`), UPDATE and
COMMIT (`MarkInProgress`), UPDATE and COMMIT of the final mark (`MarkFinal`).
Everything a bot does between claim and mark is the place "working". Rows
arrive, and bots die anywhere and are started again, at any time.

### QueueSession

What `BotFleet` takes for one step are two or three statements on the
connection a bot keeps for its whole life. `conn` is the connection, `inTx` the
driver's cached flag, `pending` what the open transaction has written. In front
of each statement stands `ensure_database_connection` (`MayExecute`): MySQL
replaces a lost connection, but not while `inTx` is set; SQLite never does. The
constant of a project, its `backend`, is chosen in `Init` and kept: with MySQL a
read opens a transaction and a write locks a row, with SQLite only a write opens
one and it locks the file. Statements may raise, commits may be applied and
raise, connections may go away, a process may end at any point; after an
exception the bot does nothing but end, as no caller catches it and goes on.
`has_eligible_transactions`, whose answer is `Scheduler`'s subject, is there
because its read has to be ended before a wait.

### MasterQueue

`create_master_queue` at the grain of SQL statements. `conn`, `inTx` and `tx`
are the connection, the driver's cached flag and what the open transaction has
written; a lost connection drops `tx` and keeps `inTx`, which is what
`ensure_database_connection` is about. A statement, a commit or a rollback may
raise, a commit may be applied and raise all the same, a connection may be lost
and a process may die at any point. The database is MySQL: row locks
on `tbl_input`, unique `Input_Identifier`. Each row that reaches the INSERT is an
element of `Inputs`; what happens to a row before that is the subject of
`InputLoad`. `QueueSets` is what the masters promise together: an input is loaded
once, and gets its mark and its whole queue set in one step, once.

### InputLoad

The workbook (`book`) is edited between and during the loads, rows being added
or cells changed; `StartLoad` is the preparation and the checks that raise
for the whole source (an invalid mapping, a missing column), `LoadRow` one
turn of the loop of `_insert_input_dataframe`, which books the row in
`summary` as inserted, skipped or failed. `IsWidened` is what pandas does:
a column of numbers that has an empty cell is read as floating-point numbers,
so an identifier is the case and the form it is read in. A row that is edited
while the load runs is seen by the next load, as the DataFrame was read before.

### KeySteps

One worksheet, written row by row, then read: `FrameworkInit` is
`load_process_steps` and the choice of the FRAMEWORK_INIT hook,
`MasterQueueCreator` is `_extract_distinct_process_applications`, `Session` is
what `execution_init`, the login and the row of one session look up: with a reset,
first the hook of the application that is left (`ResetHook`), then, after a retry for the
same step and otherwise for the next one, the login hook and the process module
(`Begin`). A reset hook or a master's parser that raises ends the run. A cell is a number (in halves, so that fractions occur), blank
or text; a module is the number of its row. A sort is its result: `InOrder` is
the listing of the rows in which each stands before those that come after it. That
there is one, for the order of pandas as for the other, is proved as a lemma, and that the
orders are total is what it takes.

### Schedule

`clock` is `datetime.now`; `Tick` lets time pass while the bot works, creates
the queue, runs a reset hook in `execution_init` or sleeps, `SetClock` is somebody who sets
the clock, in either direction. The other actions are the places at which the clock is
looked at, or a sleep begins or ends, and what brings the bot to them: `session_batch_count`
is counted as rows are finished, and set to 0 where a session is reset. `BatchCount` is the
largest of the steps', or 0 when one step has none; a step with a smaller one ends its session
earlier, as `FinishRow` may at any row. The ghost `overdue` counts rows fetched while a run
is due, and the ghosts `since`, `free`, `forward` and `back` measure
real time since the last run, since the bot last did something, and what was
done to the clock meanwhile. `RetryRow` sets `overdue` to 0, which is where the
promise of `LateRowsAreLimited` ends.

### ConfigLayers

`layers` is what the three files hold, `merged` what `_load_layered_config` has
made of those read so far. A file is a function from paths of keys to what stands
there, so that sections may lie in sections to any depth; `Paths` is any set of
paths with their prefixes. `Merge` is `_merge_config`, said path by path: the recursive
code goes down for as long as both sides have a dict, and puts the override's value,
with everything below it, where it stops. So the merged tree has the
override's value at a path exactly when the code stopped at one of its prefixes.

### Operators named `_Faulty`

They are not part of the models. Each is the definition that follows it with one
slip a programmer could make (a missing reset, a dropped filter, `>` for
`>=`). PROJECT.json pairs each property with such a slip, and TLC finds the
property violated when the definition is replaced by it: the property depends on
that line of the code.

## 3. Runs

| Run | Instance | Shows |
|---|---|---|
| `scheduler_once` | 3 rows, applications a, b, a; steps a (limit 1), b (none), a (limit 2); 1 retry, 1 wait; master, not periodic; 2 processes; fair | nine safety properties, the refinement of `TransactionLifecycle`, and `Termination` |
| `scheduler_periodic` | 2 rows, the same steps, periodic master, time passing twice, 2 processes, fair | `EligibleIsServed` with due runs, refreshes and waits; `EndIsFinal` |
| `scheduler_cto` | 3 rows, 2 steps | violated: `CtoDetailsAreOwn` |
| `fleet` | 4 rows, 3 bots: one on a, one on a and b, one on c; any number of deaths, fair | a bot alone on an application is safe there, implements the lifecycle, and finishes its rows unless a row of a is handed back and forth for ever |
| `session` | 2 rows, 2 bots with a common application, MySQL or SQLite, any number of faults | nothing is open while a bot works or waits; the statements implement `BotFleet` |
| `queue_sets` | 2 masters, 2 inputs, 2 applications, 2 faults, fair | queue sets, summaries and progress of master queue creation; the refinement of `QueueSets` |
| `queue_sets_failure` | the same | violated: `QueueSetFailureIsRecorded` |
| `inputs` | workbooks of up to 2 rows, texts, 4 mappings, 1 fault, fair | only mapped rows are stored, every row of a load is accounted for, every loadable case arrives |
| `inputs_numbers` | the same with numbers, no fault | violated: `OneInputPerCase` |
| `keysteps` | every sheet of up to 3 rows from 32 row values, any number of sessions | steps and master agree on the applications; sessions call the modules of their applications |
| `config` | every three layers of a section with a key and a section of its own | the last layer that speaks about a setting decides; empty values take nothing away |
| `schedule` | no interval or 3 ticks, waits of 2 ticks, `BatchCount` 2, 14 ticks, the clock set by 2 | runs are spaced, due runs are not overslept, and a `BatchCount` of 2 bounds the rows in front of them |

Why the bounds are enough. Three rows of which two share an application give a
batch to end, a row left over by an interrupted process, and a newer row that
must wait for it; three steps give a limited and an unlimited one and an
application that occurs twice, so that advancing and matching by application
differ. One retry distinguishes first attempt, retry and last failure; two
processes give one interruption to recover from, and the state of the queue it
leaves does not depend on how many went before. `MaxRuns` bounds processes,
`MaxMasterRuns` how often time passes, `MaxFaults` faults; the fleet and the
sessions need no bound. `wait_count` is not counted beyond `WaitLimit` in
`Scheduler`, with which alone it is compared there; `Schedule` counts it. Two
rows of a workbook give a repeated case, and a row that fails in front of one
that does not; `MaxRows` and one fault leave room for a load that fails and one
that follows it, as the workbook is loaded any number of times. Three rows of a
sheet give two processes of one application with another between them, or a
process with both its hooks; a section in a section, each with a key, gives over
three layers every order in which a setting, an empty value and a section can meet, at
the place of the setting and above it. Fourteen
ticks are four intervals and the waits around them. For the safety properties
the proofs of section 4 remove the bounds; the liveness properties rest on the
instances. Symmetry is not
used. `CHECK_DEADLOCK FALSE` is set because a process that has ended, with no
runs left, is meant to stop; the fleet and the masters come to rest in the same
way, a configuration is loaded once, and in `Schedule` time ends with its bound.

Fairness. `Scheduler!FairSpec` says that a process that can take its next node
takes it: the graph is a sequential loop, hooks return, sleeps end. It asks
nothing of crashes, restarts, arriving rows or time. `BotFleet!FairSpec` says the
same of each bot, and does not ask that a dead bot comes back.
`MasterQueue!FairSpec` also asks that runs are repeated (`StartRun`): a
periodic master, or an operator who starts a failed one again, does so; without it no
input that met a fault would ever be queued. `InputLoad!FairSpec` is the same for
the loop over the rows and for the beginning of a load; it asks nothing of the people who
edit the workbook, nor that a load succeeds. `QueueSession` and `Schedule` state safety
only: what a bot gets done is shown in `Scheduler` and `BotFleet`. No fairness is asked of a choice: that
an outcome is a success, or a statement does not fail, is never assumed beyond
the bound on faults.

### Where the code differs from its documents

- `scheduler_cto`: a row that fails at login for good is stored with the
  `CTO_Details` of the row finished before it; `Orqflow_Requirement.md:806` asks for
  transaction-specific data to be cleared.
- `queue_sets_failure`: a connection lost in a queue set ends the whole
  run, because the rollback raises too; `docs/excel_master_queue_plan.md:126` says the
  failure is recorded and later inputs go on. No queue set is damaged by it, and
  the next run makes up for it (`QueueSetsAreComplete`, `EveryInputIsQueued`).
- `inputs_numbers`: with numeric Case_IDs, a case loaded as `P_12` comes again as
  `P_12.0` once the source has a row without a Case_ID, and is stored, and queued, a second
  time; `Orqflow_Requirement.md:604` calls `Input_Identifier` the idempotency key.

Met while reading, and in the models, but without a run of their own:

- A due master run waits for the session to end. With a `BatchCount`, and without
  retries, at most so many rows go before it (`LateRowsAreLimited`). A step without a limit
  that is fed rows without end, or a retry in every batch, keeps it waiting for ever:
  `Orqflow_Requirement.md:656` and `docs/excel_master_queue_plan.md:20` have a run
  whenever the interval has elapsed, `docs/graph-flowchart.md:55` has such a step process all
  eligible work in one session. No property says that a due run takes place: in an
  instance with finitely many rows it would, for want of rows.
- Two bots with a common application can hand one row of it to each other for ever, each
  selecting it again before the other marks it, as `fetch_next` prefers what is In
  Processing and neither UPDATE asks whose it is. Everything behind that row waits, rows
  of an application that one of them alone serves included. `SoleBotRowsAreHandled` is
  stated with this exception, and the instance of `fleet` has such a bot.

- A retry resets `session_batch_count`, so that a step may finalise more rows than
  `BatchCount` in its turn; `docs/graph-flowchart.md:56-57` counts finalised rows and
  not retries, `Orqflow_Requirement.md:177` asks for the reset. `BatchWithinLimit` is what
  holds for each session.
- Two bots with a common application work on the same row;
  `Orqflow_Requirement.md:887` asks to prevent it without saying how. `SoleBotWorksAlone`
  and the refinement show what is safe: one bot per application.
- With numeric Processors one blank cell takes the mapping from every row
  (`str(7.0)` is no key); `docs/excel_master_queue_plan.md:77` says that it rejects that
  row only.
- A process row without a Sequence, which `Orqflow_Requirement.md:375` requires, is
  scheduled last; the master's parser raises on the same row, at its first run.
- A section that no earlier layer has is taken over with the empty values in it;
  `docs/codex-hadoff.md:287` says they are ignored.

## 4. Proofs

All theorems hold for every value of the constants, under the named assumptions of the
modules: rows are natural numbers and `NoRow` is none of them, there is at least
one step, limits are natural numbers, `NoApp` is no application, applications
in `AppList` are distinct, a mapping names no blank ID, `WaitSeconds` is positive, the rows of
a sheet are made of cells, and with a path its prefixes are paths, none of them empty; no setting is
`"none"`, `"empty"` or `"dict"`, the model's names for what is no setting.

**Scheduler** (`SchedulerProofs`). None of the safety properties is inductive.
Whether the row in hand survives `execution_init`, say, depends on why the node was
entered, which was decided two nodes earlier. `InductiveInvariant` adds what is missing:
where a row is in hand and why (`HoldingFollowsNode`), how `attempts` and `retry_count`
relate (`RetriesAreCounted`), that a logged-in session is the active one
(`SessionIsActive`), where the session has room for a row (`BatchHasRoom`), whose text is
about to be stored (`TextIsOwn`), and that each way to the end either has asked the
queue or has recorded a failure (`EndIsAccountedFor`). One lemma per action shows that it
keeps the invariant. From it follow `TypeOK`, `HeldRowIsActive`, `NothingHeldBetweenRows`,
`ProcessedInOwnSession`, `BatchWithinLimit`, `OneInProgressPerApp`,
`CleanExitLeavesNothingOpen` and `CommentsAreOwn`. The module begins with the facts about
record updates that its lemmas share.

With `held` mapped to `rt.txn`, every step of the scheduler is a step of
`TransactionLifecycle` or leaves it alone (`SchedulerImplementsLifecycle`);
`RowsFailAfterAllRetries` is the action property `FailedAfterAllRetries`,
`EndStaysFinal` the invariant `EndIsFinal`.

**BotFleet** (`BotFleetProofs`). A bot has only rows of its own applications, and a row that a
sole bot has is not final yet (`RowsAreOwn`); with it `SoleBotWorksAlone` is
inductive, and `SoleBotFinalStays` follows. `SoleBotsKeepLifecycle` maps the rows of a sole
bot, whatever the others do, to `TransactionLifecycle`.

**QueueSession** (`QueueSessionProofs`). The invariant says what the open transaction of a bot
holds at each place (`PendingFollowsPlace`): nothing where it works, waits or is between rows;
its own mark after an UPDATE, unless the connection is gone. With it each commit, answered or
not, is a claim or a mark of `BotFleet`, and everything else a stutter (`SessionsImplementFleet`).
`Facts` is `BotFleetProofs`, said of the fleet that the sessions implement: its theorems carry over, so
that a sole bot works alone (`SessionsWorkAlone`), its final rows stay (`SessionsKeepFinalRows`)
and its rows follow the lifecycle (`SessionsKeepLifecycle`) statement by statement, on connections
that fail. No run checks these three on `QueueSession` itself; they follow from what the runs
`session` and `fleet` check.

**MasterQueue** (`MasterQueueProofs`). `QueueSetsAreComplete` needs to know what an open
transaction holds at each place of the run: nothing, one input, the first rows of a set,
or all rows and the mark; and that a transaction the server has dropped
cannot be continued, because the guard refuses statements while `inTx` is set. At
most one master can hold the mark of an input (the row lock), and it holds it only while
the input is still new. `QueueInvariant` says this, and is inductive.
`RunInvariant` adds what is needed about the loop over the selected inputs, for
`SummaryStaysTrue`; `MastersImplementQueueSets` maps the commits.

**InputLoad** (`InputLoadProofs`). `BookedOnce` says that in front of the row being loaded every
row has one heading, and behind it none; from it follows `LoadsAccountForEveryRow`.
`StoredRowsStayMapped` is an action property. That a case is stored once is no theorem: with texts for
Case_IDs the unique index sees to it, with numbers it is false (`inputs_numbers`).
`LoadsImplementQueueSets` says what holds in either case: an `Input_Identifier` gets into `tbl_input` once and
stays, each in a step of its own, which is all that `MasterQueue` builds on.

**Schedule** (`ScheduleProofs`). `ClockAddsUp`: the clock has moved since the last run by the real
time and by what was done to it. `OverdueFollowsNode`: how long a due run can have been
overlooked at each place, in terms of the waits that `wait_count` has counted. `LateFollowsCount`: rows
fetched while a run is due are those of the session, as no other begins while it is due.
Every interval, wait, wait limit and batch is covered.

**KeySteps** (`KeyStepsProofs`). Worksheets of any length, over any rows. Every variable that the code
fills by sorting is a sorted listing, so the first part is about those. `SortedExists`: a finite set has a
listing in the order of any strict total order, each member standing at its rank, the number of
members that do not come after it; that these ranks are 1 to n, each once, is a
counting argument (an injection of a finite set into one of its size is onto). `SortedListsAll`: such a
listing misses nothing. `PandasOrders` and `DecimalOrders` show that the two comparisons are strict total orders,
the second only on rows whose Sequence is a number, which is what the master requires. `KeyStepsInvariant` then says which
listings `steps` and `queued` hold, and that the last session was that of the active step, whose application the
next reset leaves (`SessionIsActive`). `ParsersAlwaysAgree` compares the listings with each other;
`SessionsRunTheirOwnModules` is an action property, and rests on one lemma about what a step of `Session` calls. `KeyStepsTypes` includes what `Scheduler` assumes of its `Steps`: at least one, with
limits that are natural numbers.

**ConfigLayers** (`ConfigLayersProofs`). `MergedSetting` says what one merge does to a setting at any
path; it rests on `SectionsAbove` (above a setting everything is a section) and on the first prefix at which the merge
stops, and `MergeKeepsTrees` on the same. The invariant is that `merged` is a tree and
`LastLayerWins` holds of the layers read; it is inductive only with the tree.

Where a proof would go by induction, over the places of a listing or along a path, it takes a
least element instead: `LeastElement` in both modules comes from the well-foundedness of < on Nat, which
the library states without an operator parameter. For that reason no module with a theorem has a recursive operator: `Merge` and the sorts
are said by what they return. `Merge` was compared, when it was
written, with the recursion over nested dicts that `_merge_config` is, on every two files of the
instance of `MCConfigLayers`; no run repeats that comparison.

Only model-checked: the liveness properties (`Termination`, `EligibleIsServed`,
`SoleBotRowsAreHandled`, `EveryInputIsQueued`, `LoadableCasesArrive`), which are beyond the
prover.

## 5. Not modelled

- *Masters on SQLite*: the guard there never reconnects, so that their runs are those of
  `MasterQueue` that fail at the next statement; the lock on the whole file is described for
  bots only.
- *Snapshots of MySQL*: reads see what is committed when they are made. Each SELECT of
  a master whose answer is acted on is the first of its transaction; the reads of a bot
  end with a commit, which is `NothingOpenBetweenStatements`.
- *The contents of `Case_Number` and `Case_Json`*: `InputLoad` keeps whether the required
  fields are there.
- *How the paths of the configuration files are found* (bootstrap file, folder, machine
  name): string handling without a state.
- *Named SQL*: `parse_named_sql` splits a constant text once at start; a model would
  repeat the parser.
- *The interval as a number*: a Decimal that goes through float into `timedelta`; `Schedule`
  counts in ticks.
- *LangGraph's recursion limit*, the driver, and the project's hooks are choices of outcomes:
  the limit is one of the causes of `Crash`.
- *Logging* decides nothing; `share/common/api.py` is a stub for a project to fill.

## 6. Plan

Done: the scheduler, the fleet, its sessions, the master queue, the source in front of it,
the sheet, the schedule and the configuration, with their runs and refinements; every
invariant and action property that a passing run checks is a theorem. What could follow:

1. A measure on the states of `Scheduler` that every step between two fetched rows lowers: the
   part of `Termination` that is a statement about steps.
2. Masters on SQLite, with `QueueSession`'s locks, as a second backend of `MasterQueue`.
3. `InputLoad` and `MasterQueue` composed: the rows that reach the INSERT are the `Inputs`. Their
   common abstraction, `QueueSets`, is in place.
4. `Scheduler` with `Schedule`'s clock in place of `masterDue`, and `LateRowsAreLimited` for the limit of
   the active step instead of the largest.
