# quant_data_center: verification project

`quant_data_center` downloads Chinese stock data (Baostock, AkShare, Sina, Eastmoney), keeps it as
parquet partitions, builds derived tables from them and runs all of it once a day from one
orchestrator. It has no server and little shared memory. What makes it hard is that every step can
fail or die half-way, is repeated, and decides from records of earlier runs (a state file,
checkpoints, a ledger of content hashes, a lock directory) what it may leave out. Most modules here
ask the same question of a different record: **is what the record says true of what is on disk,
whatever happened in between?**

Paths are relative to the repository; `src/` is its Python package.

## 1. Inventory

| Component | State it keeps | Operations | What is hard | Correct when |
|---|---|---|---|---|
| Process lock, `src/utils/process_lock.py` | a lock directory with `owner.json` | acquire, take over a stale lock, release | several processes and hosts; mkdir, inspect and remove are separate system calls; pids are reused | two processes never work under one lock; nothing is left behind; acquisition ends |
| Daily orchestrator, `src/tools/run_update_daily.py`, `config/daily_workflow.yaml` | state file: status per step and key (natural date, market date, run) | plain, forced, partial and back-dated runs; skip, block, degrade, start, time out, kill, resume | crashes between any two writes of the state file, orphaned children, a market date that moves at 18:00 | recorded successes are true; the exit code is honest; failures block their dependents only; later runs recover |
| Derived build, `src/sources/derived/`, ledger `src/storage/partition_manifest.py`, `manifest_rebuild.py` | derived partitions; ledger rows with source signatures | plan, materialise, sign, stage, swap, record, clean up; full, incremental and explicit builds; ledger rebuild | data and row are written apart, on both the source and the derived side; failures and partial swaps | what the planner passes over is up to date; a full build repairs everything |
| Baostock daily update, `src/sources/baostock/update_daily*.py` | per code: unadjusted, adjusted and factor partitions; checkpoints | dispatcher and thread pool; factor, daily and refetch tasks; metadata batch | a drain that submits while it drains; tasks waiting for tasks in one pool; lookback window, revised bars, fetches that fail, checkpoints flushed in batches | every task is handled once and in order; histories have no holes; checkpoints are never ahead of the files |
| Baostock client, `src/sources/baostock/client.py` | a session and the socket the library keeps for the process | log in, query, read pages, invalidate, try again, log out | requests and answers carry no number; answers come late, short or not at all | a frame has all pages of its own query and no other |
| Pipeline lifecycle, `src/pipeline/lifecycle.py`, `src/storage/metadata_store.py` | batch of metadata rows, metadata tables | add, flush, put back | threads add while one flushes; a flush that fails keeps its rows for the next one | a later row of a key is never overtaken by an earlier one |
| ParquetStore, data registry, DuckDB views, `src/storage/parquet_store.py`, `data_registry.py`, `duckdb_store.py` | partitions, `*.tmp.parquet`, dirty marks, an inventory of all data sets | upsert, refresh the inventory, clean up temporary files | read-merge-replace with locks of one process only; a cleanup that finds the temporary file of a live writer | no row is lost; the inventory describes the files |
| AkShare kernel, `src/sources/akshare/pipeline/execution.py`, `core/runtime.py` | task pool, concurrency controller, circuit breaker, timeout pool, report lock | plan, submit, call, time out, retry, collect, write, skip | the circuit and timeouts race with late answers; a call that hangs keeps its thread | every task gets one outcome; an open circuit is respected; a run ends |
| Capital-structure queue, `pipeline/capital_structure_pending.py`, `eastmoney/modules/capital_structure_em.py` | a file of codes to refresh | enqueue, drain | filled by factor tasks of one process while another drains it | a refresh that is owed is not forgotten |
| Spot quote, `pipeline/spot_quote.py` | daily bars, checkpoints of snapshots | plan a trade date, fetch, fall back, store | the day is resolved from a calendar that may be behind, the quotes are of the moment | bars are closes of their day |
| Financial report, `sina/modules/financial_report_sina.py` | state date, pending rows, stored periods | incremental and full runs | a state date advanced by partial runs, reports that come late, files written in place | a report that is due is found again until it is stored |
| Other AkShare modules (daily bar, valuation, forecasts, disclosure, delist) | partitions and checkpoints | plan, fetch, write | run by the kernel | as the kernel |
| Valuation percentile, `src/sources/baostock/valuation_percentile.py` | percentiles per security, checkpoints | compute in full, append, merge; full, partial and forced runs | two algorithms for one number; history rewritten under appended rows | rows are the percentiles of the bars as they are |
| Qlib sync, `src/sources/qlib/sync.py` | source directory, archive, calendar, partitions, state rows | check, download and resume, replace, convert | a run may stop between any two of them | the recorded status is true |
| Market session, `src/commands/baostock.py` | a manifest nobody reads | one of two kinds of Baostock run | - | - |
| Repair tool, `src/sources/baostock/repair_tool.py` | - | replace a range of bars, store factors | passes by what records rely on | - |
| Catalog, schemas, validators, adapters, utilities, CLI | none that another part depends on | - | - | - |

How they interact: the orchestrator takes the process lock and starts every other component as a
child process; they share the file system only. Source updates (Baostock, AkShare) write partitions
and, through `ParquetStore`, the ledger rows of those partitions. The derived build takes its own
process lock and reads partitions and ledger. Within the Baostock update, the main thread calls the
provider, and the tasks of a thread pool write files and metadata; a task asks the main thread for
another fetch through its result.

The AkShare update is started by the orchestrator and also by the Baostock update, which drains the
queue its factor tasks have filled. Every update ends by refreshing the inventory of the data sets it
wrote.

All hazards found, each at its line, are listed in `PROJECT.json` with the properties that would catch
them going wrong. Where a property names a hazard as its exception it does not catch the hazard; the
note of the hazard says so, and what the property then shows is that there is no other way.

## 2. Modules

| Module | Models | Instances, proofs |
|---|---|---|
| `ProcessLock` | `process_lock.py`, one action per file-system call | `MCProcessLock`, `MCDailyUpdate`, `ProcessLockProofs` |
| `DailyRun` | `run_update_daily.py` with its state file and children | `MCDailyRun`, `MCDailyUpdate`, `DailyRunProofs` |
| `DerivedBuild` | incremental and full builds of one curated dataset, its sources and the ledger | `MCDerivedBuild`, `DerivedBuildProofs` |
| `CodeTasks` | abstract: what the dispatcher promises to the tasks of each code | - |
| `UpdatePool` | dispatcher and thread pool of the Baostock update; implements `CodeTasks` | `MCDailyUpdate`, `UpdatePoolProofs` |
| `BaostockDaily` | what those tasks leave on disk and in the checkpoints, for one code | `MCBaostockDaily`, `BaostockDailyProofs` |
| `BaostockClient` | session, retries and pages of the provider connection | `MCRecords`, `RecordsProofs` |
| `MetadataBatch` | the batch of metadata rows and the tables it is flushed to | `MCRecords`, `RecordsProofs` |
| `DatasetStore` | upserts of several processes, inventory, cleanup of temporary files | `MCRecords`, `RecordsProofs` |
| `ValuationPercentile` | both computations of percentiles and the update that merges them | `MCRecords`, `RecordsProofs` |
| `QlibSync` | download, source directory, calendar, partitions, status | `MCRecords`, `RecordsProofs` |
| `AkShareKernel` | one module's run: task pool, circuit breaker, timeout pool, report lock | `MCAkShare`, `AkShareKernelProofs` |
| `CapitalQueue` | the queue of refreshes between the factor update and the AkShare update | `MCAkShare`, `AkShareProofs` |
| `SpotQuote` | spot quotes stored as the bars of a day | `MCAkShare`, `AkShareProofs` |
| `FinancialReport` | which reports an incremental run finds | `MCRecords`, `AkShareProofs` |

They compose by assumption. `DailyRun` has one orchestrator at a time, which is what `ProcessLock`
is for. `DerivedBuild` takes from `DailyRun` the order of steps (constant `Orchestrated`: source
writers and builds do not overlap, a failed writer is run again before the next build).
`BaostockDaily` lets the tasks of a code follow one another, which is `CodeTasks`, and `UpdatePool`
is checked to implement it. `CapitalQueue` joins the factor tasks of one update to the drain of
another: its `StoreChanged` is the factor task of `BaostockDaily`, and its `RefreshFetches` and
`RefreshWrites` are a run of `AkShareKernel` with one task. `SpotQuote` and `FinancialReport` are what
the kernel's `record_result` does for two of its modules; that one run of a target works at a time is
the report lock of `AkShareKernel`, and for spot quotes the order of steps in `DailyRun`.

Modules that share no state are checked side by side: `MCDailyUpdate`, `MCAkShare` and `MCRecords`
extend several of them and choose in `Init`, by a variable `part`, which one a behaviour is about;
the others keep their initial state. So a state space is the sum of the parts, not their product, and
each part is the specification its own module gives.

**ProcessLock.** `dir` is the directory: the process that made it (a ghost the code cannot see) and
the owner its JSON names. A process tries, inspects, removes, makes, writes the owner, holds, unlinks
and removes. `robbed` remembers the processes whose directory somebody else removed. `PidReused`,
`LockTick` and `LockCrash` are the environment. `_remove_stale_lock` renames the directory away before it
removes it; the rename is the step. A holder's `rmtree` is two steps, `UnlinkOwner` and `RmDir`.

**DailyRun.** `file` is the state file, `mem` what the running orchestrator has in memory, `last` a
history of the last execution under each key. One action per stage of the loop body: skipped before
`--start-at`, skipped for a success, blocked, recorded as running, launched, ended, retried or
recorded. Children end with any of the exit codes that the code tells apart; a timed-out child may
leave processes that cannot be killed (`stuck`). The orchestrator may be killed between any two
actions; its child then lives on. Left out: a corrupt state file, state keys of an older format,
rejected options, a wrong answer about a pid, grandchildren. All failed rows that set the exit code
give the code 1 here.

**DerivedBuild.** A partition is the *provenance* it was built from: the version of each of its
sources and its master row. `part` is the truth and `sig` the record. Sources change content first
and ledger row second. Reading the rows of a security's sources is one step, the signature is taken
in another. Left out: `--changed-since` (it only adds to the plan), source partitions with no rows,
how rows are computed. The two derived datasets follow one protocol; one is modelled.

**UpdatePool.** The main thread is a place in the loop and a stack of calls (`submit_background`,
what is left of a `drain_completed`, the record step that ends a `collect_completed`), since a drain
may dispatch a request, which submits, which may drain. Results are recorded in submission order
(`recorded`). A thread takes the oldest task; a daily task that waits for its factor task keeps its
thread. Tasks catch every exception, so a future never raises; a failed fetch is submitted like a
successful one. Codes are distinct, as the code pool makes them; the same code passed twice with
`--code` is left out.

**BaostockDaily.** A bar is one of a few versions, a file a function from days to bars, adjusted bars
the bars and the set of dividends they were computed from. The two adjusted datasets are computed in
the same way and are one here. Checkpoints are keyed by dataset, mode and end date. The batch flushes
at any point (other codes fill it) and at the end; a crash, or a last flush that fails, loses it. A
fetch may fail, a write may fail before or after it took place. The provider publishes a bar a day,
may add a dividend and may revise a bar. `local`, `stale` and `cut` are histories that properties
use to say exactly where a promise ends. A day may begin during a run, but a run reads nothing after
its own date, so `NewDay` happens between runs. Left out: days on which a stock has no bar, code
lists, the stock-basic target before the loop. (The calendar is in `SpotQuote`.)

**BaostockClient.** `inFlight` holds the pages on their way over the present socket; `Invalidate` closes
the socket and so drops them. Each attempt sends, reads page after page, and may lose its connection,
get an error code, be cut short by the library or exceed the row limit. Timeouts count as lost
connections: the answer is then still in flight, and only a new socket keeps it from being read by the
next query.

**MetadataBatch.** Rows not yet taken, rows a thread is storing, and the tables. `AskFlush` is the
threshold in `add`, `TakeRows` the locked exchange of the lists, `CommitRows` one transaction,
`CommitFails` its exception, which puts the rows back in front. Status rows are left out: they follow
the checkpoints under a shorter key. Keys with a NULL part are found by no `=`, so their rows pile up.

**DatasetStore.** Per process an upsert (read, temporary file, replacement with retries, mark) or a
refresh of the inventory (read and scan, write). A partition has several rows, and an upsert writes
the whole of what it read with its own row in it; upserts are numbered in the order they read.
`replaced` is the history of replacements, each with the upserts that had read by then; `told` the
upserts whose caller got a result. Two upserts of a partition overlap if the second had read it before
the first replaced it (`Overlapped`). `behind` names the data sets whose inventory row two processes
got in each other's way over.

**ValuationPercentile.** The Fenwick tree, the rolling counts with their eviction and the sorted
lists of the append-only way are operators; `PercentileOf` is the definition they are compared with.
Around them the update plans, computes, selects and merges, while bars are added and restated.
Securities and fields are computed apart; batches and the process pool are left out.

**QlibSync.** A release is a number with a last day, a size and symbols. The archive is the set of
releases its bytes came from and how many. Source directory, calendar and partitions are written in
that order; the run may stop, fail or be killed between any two steps. Every symbol has values
(the code writes no partition for one without any). The provider adds days: a later release does not
end earlier than the one before (`QlibAssumption`). If it could, a release published between the
metadata request and the download could leave a row that says `upstream_not_ready` of the first one,
though it was ready. `unsynced` says that a run touched the source or the calendar and no sync has come
to its end since; what a run says in that time is the subject of `InterruptedSyncResumed`.

**AkShareKernel.** `pending` and `batch` are the futures of the main thread, `phase` where each fetch
is and `fetched` how many of its statements were answered, `calls` and `underway` the queue and the threads
of the timeout pool, `hung` the threads of calls whose caller gave up. `circuit` is closed, open or expired; `late` counts calls begun since it opened.
The controller of `valuation_eastmoney` is in `pace`. A run finds the report lock free or left over.
Sequential modules are a pool of one thread. Left out: cooldown arithmetic (a cooldown passes at some
time), request delays, what is written. A task makes `Statements` calls of `runtime.fetch`, one after
the other: three for a financial report (`client.py:164`), one for the other targets. Each asks the
circuit and has attempts of its own; whatever ends one of them throws away what the others brought.

**CapitalQueue.** The file is a function from codes to the status of their row. Each read and write of
it is a step; a process holds its own lock in between, which keeps out no other process. A structure
that was fetched is the number of changes announced at that time. `missed` and `overwritten` name the
codes a refresh is lost for; the first includes the factors the repair tool stores.

**SpotQuote.** The clock moves through the three parts of a day the code tells apart. A bar is the
trading day whose close it is, or `Live`. The plan resolves a date; the fetch gets what the market
shows then; bars are stored one by one, and one that is there is kept. `excused` holds the days that
may have closes of another one (the calendar lacked a trading day up to the candidate, `--end` named
another day, or the market moved between plan and fetch), `exposed` those that may have prices of a
session (the session went on and the calendar lacked its day, or the market moved).

**FinancialReport.** One report period per code; a disclosure row has a date and a priority. `run`
holds the plan, its tasks and failures. Incremental runs may be limited to some codes. `lost` holds the
codes a run that was cut, a late disclosure or a first run's lookback leaves behind.

## 3. What the runs check

| Run | Shows | Bounds, and why they are enough |
|---|---|---|
| `daily_update` | lock: at most one process relies on it unless one was robbed, no directory is left over, acquisition ends. Workflow: true successes, `exit = 0` means done, one child, blocking, recovery. Pool: bounded, no nested drain, inputs at hand, complete records, termination, refinement of `CodeTasks` | lock: three processes on two hosts: a holder, a robber and a third that profits; every lock is at once past its stale age. Workflow: all 18 steps as shipped, two days, one failure or kill. Pool: three codes (up to nine tasks and the flush), two threads, room for four: the pool fills and refetches come while it is full |
| `lock_race` (violation) | `MutualExclusion` fails: see findings | lock as above, not yet stale |
| `daily_repair` | exit code; runs that ignore the state leave every step newer than its inputs | one step of each kind, three days with a holiday, five kinds of run, one fault |
| `daily_stale` (violation) | `DerivedAfterUpstream` fails: see findings | two steps suffice |
| `build` | passed over means up to date; a full build repairs; all becomes current | two securities with one source partition each; three changes and a failure |
| `build_torn` (violation) | `PlannerSeesEveryChange` fails: see findings | one security, one source |
| `baostock` | no holes, no lost days, agreement of files, checkpoints never ahead, every day done in the end | three days, a window of two, two versions of a bar, both kinds of session, any two troubles (failed call, crash, revision, run for an earlier date) together |
| `baostock_stale_factor` (violation) | `SkippedIsAdjusted` fails: see findings | as above, one trouble, factor-only runs added |
| `akshare` | one outcome per task, the right one, and an open circuit that holds; a run that got the lock returns and removes it, whatever calls never return; no refresh or close forgotten or wrong but for named causes | kernel: three tasks of two statements; a sequential run, one of two workers, and one of two with the controller and `stop_on_circuit_open`; two timeout threads, two attempts, a threshold of one failure, one cooldown: a third call waits behind two hung ones, a late answer meets an open circuit, a task answered once is refused at its second statement. Queue: two processes, two codes, two changes: one to lose and one to overwrite. Spot: three days of which the second is a holiday, three runs: plan, fail, repeat |
| `spot_session` (violation) | `SessionRunsStopped` fails: see findings | spot quotes as above |
| `records` | rows, inventory, outcomes, status, percentiles and answers complete and in order, reports found, but for named causes | store: two processes, two data sets, two keys, three upserts: two that overlap, and one more of the other key or after them; processes and data sets are interchangeable (`SYMMETRY`, sound since no liveness is checked). Batch: two threads, two keys (one with a NULL), five rows, flushed by two: a failed flush beside a full batch. Qlib: three releases, the second without a symbol, the third of another size. Percentiles: three bars over two years with a leap day, values of both signs, a missing one, ties, a window of one year, one restated bar, two runs. Client: queries of one, two and too many pages, three calls of three attempts. Reports: one code (others matter only by the failures that hold a run back), four dates, two priorities, two disclosures, a lookback of one and a retention of two: a report can leave the window and still be due |
| `qlib_interrupted` (violation) | `InterruptedSyncResumed` fails: see findings | Qlib as above |

Each property has a mutant in `PROJECT.json`, a plausible mistake in one of the modelled definitions
under which TLC finds the property violated; the mutated definitions stand before the real ones,
marked `Mutant:`.

Liveness needs fairness:

- `AcquireEnds`: the file-system calls of a live process happen (weak fairness), and the removals of
  stale locks, which the loops try again after each failure, do not all fail for ever (strong fairness
  of the removals taken together, since a failed one goes back to the start of the loop).
- `EventuallyClean` (checked as `WorkflowEventuallyClean`): the loop goes on and children end; runs are
  started again, as cron does. A child ends by itself or by its timeout.
- `EventuallyCurrent`: a build goes on; daily builds are started again (strong fairness, since one can
  start only between two others); a writer that has replaced a file writes the row, or its step is
  run again.
- `RunEnds` (checked as `PoolRunEnds`): threads that can run do, and a provider call returns.
- `EventuallyDone`: a run goes on, days pass, and the session is asked for again for the last day
  until it is passed over (strong fairness, since a run is in the way of the next).
- `UpdateEnds`: the main thread goes on, and a fetch asks the circuit, hands over its call and, if
  no answer came, times out (weak fairness, as threads that can run do). Nothing is assumed of the
  provider or of the threads of the timeout pool: the run ends even if no call ever returns.

Failures are bounded by counters in all of them: the claims are about what happens after the last one.

### Findings

Six checks are expected to fail; each states what the documentation or a test says.

1. `lock_race`: a lock directory that has no `owner.json` yet is taken for stale. The second process
   removes it between the first one's `mkdir` and `_write_owner`, and both enter.
2. `daily_stale`: a run before 18:00 and one after it on the same day. Market steps run again under
   the new market date; the derived steps are keyed by the natural date and are skipped.
3. `build_torn`: the builder promotes a partition and fails before its row is written. If the source
   returns to the content of the old row, the planner passes over a partition with the wrong content.
   (`SkippedIsCurrent` shows that this is the only way.)
4. `baostock_stale_factor`: a failed factor fetch falls back on stored factors and the adjusted bars
   are recorded as successful. A factor-only update then completes the checkpoints of that day, and
   the code is passed over with bars that lack the dividend. (`SkippedIsDone` shows that
   apart from a run for an earlier date, which shortens a file, nothing else leads there.)
5. `spot_session`: README.md:259 says that a spot-quote run between 08:00 and 18:00 is broken off before
   it calls the interface, so that prices of a session do not get into the daily bars. The code breaks
   it off only if the local calendar says that today is a trading day (`spot_quote.py:508`). A calendar
   without the row of today, as a partial update of the day before leaves it, or an empty one with
   `--end`, lets the run through, and live prices are stored. (`SpotBarsAreCloses` shows that apart from
   a market that changes between plan and fetch nothing else leads there.)
6. `qlib_interrupted`: `test_qlib_sync.py:219` says that a sync left half done is resumed. The calendar is
   written before the partitions (`sync.py:147`), and the next run asks only the source and the calendar
   (`sync.py:102`): after a sync cut off in between it records `checked_current` and resumes nothing.
   (`QlibStatusHonest` shows that the next sync that comes to its end makes it good.)

### Other behaviour worth knowing

Met while modelling; we know of no statement of the repository that these contradict. The properties
name them as exceptions or the models leave them out.

- A forced percentile run with a start behind the last stored row leaves a gap that later default
  runs, which append, never fill; and a full run passes a security over if the checkpoint of the same
  source dates succeeded, though bars between them were restated.
- The factors a repair stores are not seen as a change by the next update: its refresh of the capital
  structure is never queued. Nor is that of a task whose enqueueing failed.
- While a provider session has expired and the client believes it is logged in, error codes answer
  all attempts of a call: only lost connections lead to a new login (`client.py:191`).
- Two processes that update the inventory, the queue or one partition at a time overwrite each
  other; each guards them with a lock of its own only. The process lock of the daily run is what keeps
  them apart, not these locks.
- `--end` of the spot quote stamps today's quotes with an earlier day, and a calendar that ends before
  the last trading day gives them the day it ends with.
- A financial-report run that is killed leaves its lock file, and every later run is refused until it
  is removed by hand; one killed while it writes the pending or state file leaves a file that stops
  incremental runs.
- A Qlib run killed during the download leaves its archive, and the next download goes on from it,
  whatever release is then offered. A release of the same size or smaller is taken to be there already.
- Checkpoint rows with a NULL date are inserted anew by every run.
- `append_event` and `publish` of the registry, `_query_daily_bars` and `load_qlib_feature_series` are
  called by nothing.

## 4. What is proved

TLAPS proves these for all values of the constants (any processes, workflow, calendar, securities,
sources, bounds) under the assumptions each module names.

**ProcessLockProofs.** `TypeCorrect`. `Exclusion`: the invariant `Creator` says that a process
that relies on the lock and has not been robbed made the directory that is there; two such processes
would be one. `Cleanup`: when a directory is there, a process that will remove it is alive or has
died, and an owner's name belongs to a process still inside (`RemoverAround`, `OwnerAround`).
`StaggeredExclusion`: mutual exclusion itself, under `StaggeredSpec`, where no process starts in the
middle of another's acquisition and no body outlives the stale age: the condition under which the
lock is what its users take it for.

**DailyRunProofs.** `TypeCorrect`. `SuccessTrue`: by `Truth`, which says that successes in the file
*and* in memory are true, and that while a step is under way neither holds an old success for it
(without this part a forced rerun that is killed would leave one). `OneChild`: by `StuckLast`, a
process that could not be killed ends the loop. `ExitCode`: by `Honest`, which relates the failures
counted so far to the rows written so far at each place of the loop. `ZeroIsDone`: by
`RequiredSettled` (without `--start-at` the loop passes over an optional step only, so that a
required one is done, failed or blocked) with `Truth` and `Honest`. `BlockedByFailure`: by
`BlocksFit`, which keeps the verdict over each step in line with the rows of its dependencies.
`FullRunFresh`: by `InOrder` (a step has seen the last of its dependencies when it starts, and what
is launched later is no dependency of it) and `NoStrayProcess` (a process that outlives its step ends
the run). These last two rest on `OrderAssumption`, that the workflow file lists a step after its
dependencies, which the code does not check; a workflow in another order would break them.

**DerivedBuildProofs.** `TypeCorrect` (with `Shape`: what is staged belongs to the security it is
staged under). `SkipIsSafe`: by `Consistent`, the conjunction of `LedgerTrue` (source rows are right
unless being written), `Quiet` (nothing changes under a build), `StagedNow` (what is staged is
current) and `SigTrue` (a partition is what its row says, unless torn). `FullRepairs`: by
`FullBuild`, which follows every security through a full build. The last two assume `Orchestrated`;
without the daily order they do not hold.

**UpdatePoolProofs.** `PoolTypes`, `MemoryIsBounded` and `DrainsAreNotNested`, by one invariant,
`PoolInv`: besides types it has the `Shape` of the call stack (a drain, perhaps below the collection
of a result and the submission it asks for, over nothing or over one submission that waits for room)
and the room each of these frames may rely on. Without the shape, a submission inside a drain could
find the pool full and drain again. `TasksFindTheirInputs`, `ReturnsWithEverything` and the refinement
`DispatcherKeepsTheTurns` (the pool implements `CodeTasks`), by `TurnInv`: a task is in one place
(`Once`); where the loop is says what has been submitted (`Placed`); a code's frames are there from
the turn of its daily task until they are released, and a daily task that has begun has its factor
task behind it (`InTurn`); and every code the loop has been at has what it needs, or a task that
brings it (`Served`). Each step is then a step of `CodeTasks` for the code of its task, or none.

**BaostockDailyProofs.** `HistoriesAreWhole`, `SuccessMeansAgreement`, `PassedOverIsStored` and the
action property `DaysAreKept`, by `DailyInv`: what a run has fetched covers its days (`Frames`), what
it has reported is on disk (`Reported`), its factors are those on disk and all there are unless a
fetch has failed (`Priced`), stored factors are never behind the adjusted bars (`Based`), and a row
that says success is true of the files, whether it is still in the batch or already in the table
(`Honest`). `Honest` speaks of the rows of every day, the property only of those that a run goes by: a
run for one day completes rows that a later run reads beside older ones. The proof first failed, on the
history `stale`, which a run for an earlier date had cleared though the bars of the last day were
still without the dividend; only the small bounds of the run had hidden it. `stale` now ends when the
last day is computed again.

**AkShareKernelProofs.** `OutcomesAreRight`: by `KernelInv`, which places every task (not submitted
and without an outcome; pending; or with its one outcome), says what each phase of a fetch knows of its
attempts and result, and that a waiting call is in the queue once and has no thread.
`OpenCircuitHolds`: by `BreakerInv`, an account of the calls still allowed: those begun since the
circuit opened and those left to the fetches that had passed it (`CallsLeft`, a set of pairs of a
fetch and an attempt) together never exceed the bound. The failure that opens the circuit leaves its
own fetch without a call, and `WorkersInv` says that there are no more fetches than workers. A fetch at
the start of its next statement holds no call, and the answer that took it there closed the circuit.
`OutcomesAreRight` is for any number of statements: a fetch under way lacks one (`FetchInv`), so that
`ok` means all of them, and a refusal at any of them leaves the task without a result.

**AkShareProofs.** `RefreshesAreKept`: by `Queued` (whatever copy a process will write has the
refresh, or is known to be older than it) and `Fetched` (a structure fetched before the last change is
made up for); assumes that `NoCode` is no code. `BarsAreCloses`: by `SpotHeld`, what the quotes in
hand are worth at each stage, closes of other days and prices of a session told apart, and a lemma on
the last trading day of a set, for which no bound on the days is needed. `NoReportIsForgotten`: by
`ReportInv`. A report whose date is behind the last run can be found in the pending file only, so that
its row there must outlast it (`PendingLasts`), in a run's list of tasks as well (`TasksAreDue`); and
what an incremental run has found and done with is stored or pending again (`NothingDropped`), but for
what `lost` names.

**RecordsProofs.** `RowsKept`: by `RowInv`, what a pending upsert has read and which replacements it
will overlap when it replaces the partition itself; a row of any key survives the replacements after
it because each had read it, or overlapped it. `InventoryFollows`, by `CopyAgrees`, which says row by
row what the copy of each process is worth. `LastOutcomesWin`: by `BatchInv`; one thread at a time has
rows in its hands (`OneFlush`), the table, those rows and the ones waiting are together what was
added, in order (`InOrder`), and so are the checkpoint rows of each key, of which the last is kept
(`Outcomes`). It rests on `DedupedFacts`: `Deduped` keeps one row of each key, its last.
`StatusIsHonest`: by `QlibInv`, above all `Download` (what is downloaded is not older than what was
asked for, nor than the source) and `NotReady` (the release a row names is no later than the source's,
so that a run which skips the download repeats no falsehood); with the assumption on the provider of
section 2. It says nothing of the time between a sync that was cut off and the next one that comes to
its end (`unsynced`), in which the sixth finding lies. `AnswersAreWhole`: by `Reading`; between calls
nothing is in flight, and within an attempt what was read and what is in flight are the first pages of
the query, in order.
`PercentilesStayFull` is for any bars, leap years and windows, in four parts. The tree: `LowBit` is
defined by halving, as the bit it models is, so that `NodesOf` (the nodes above `i` are `i` and those
above `i + LowBit(i)`) follows; with it `TreeAddIs` and `PrefixSumIs` say that a tree counts the bars
of a set. The windows: `Good` says that samples in order and three such trees describe a set of bars,
and `RollingGood` that after each row the set is the window of that row, since later dates have later
anniversaries, on leap days too. The percentiles: `CountedPercentileIs`, `AllHistoryIs` and
`AppendOnlyIs` bring the three formulas of the code to `PercentileOf`. The update: `PercentileInv`
adds to the property what a planned task is and that rows stored have bars; a changed bar leaves the
rows before it alone (`SamePercentile`), and a merge keeps only rows that held (`WrittenStep`).

Where a proof needs the first or the last of a set of numbers it takes it from the library's theorem on
well-founded orders (`WFMin`). So do the proofs about recursive functions: the function defined and the
one claimed cannot differ first (or last) anywhere.

Only model-checked:

- liveness (`AcquireEnds`, `EventuallyClean`, `EventuallyCurrent`, `RunEnds`, `EventuallyDone`,
  `UpdateEnds`), which is out of the prover's reach;
- the six checks that are expected to fail, which are counterexamples.

## 5. What is not modelled

- Adapters that rename columns and parse numbers, the catalog, schemas and row checks, the command
  line, logging, paths and configuration: no state another component depends on.
- View definitions and the HTTP server, which only read; `append_event` of the registry, which
  nothing calls; the market-session manifest, which nothing reads.
- The range replacement of the repair tool: an arbitrary range, replaced by hand, may leave holes and
  bars adjusted with other factors than the rest, so that no promise of `BaostockDaily` survives it.
- The other AkShare modules as modules of their own: each is a plan, a fetch and a write that the
  kernel runs, with no state beyond partitions and checkpoints. The one-off audit of AkShare histories.
- The computation of rows other than percentiles: adjusted bars are the pair of what they are computed
  from, derived rows their provenance.
- The Baostock library below its client, and the provider behind every adapter: environment.
