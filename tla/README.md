# A verification of golangci-lint: its concurrent core, its commands and its tools

TLA+ modules for the parts of this repository in which goroutines, threads and
processes have to agree (the action scheduler, the package analysis runner, the
cache directory that processes share, the Rust supervisor and the Go worker that
it starts, the benchmark harness), and for the commands whose results depend on
long chains of decisions: `run` with its linters, processors, lock and exit
code, `migrate`, and repeated runs over one cache. Every definition is a
translation of code under `src/`; `PROJECT.json` maps each one to its lines.
Paths below are relative to `src/`.

## 1. The system

### 1.1 Components

| Part | Sources | State it keeps | Operations | Modelled by |
|---|---|---|---|---|
| Action scheduler | `pkg/goanalysis/action_scheduler.go` | per package: ready list, remaining dependencies, completed channel, counters, first error; shared: a bounded pool of workers | `runActionGraph`, `launchReady`, `complete`, `result`, `runWorker`, `close` | `ActionScheduler`, contract `ActionGraph` |
| Analysis DAG | `runner.go` | actions with horizontal and vertical dependencies | `prepareAnalysis`, `makeAction`, `buildActionFactDeps` | `ActionDag` |
| Package analysis, facts cache | `runner.go`, `runner_loadingpackage.go`, `runner_action.go`, `runner_checker.go`, `runner_action_cache.go` | per package: types, errors, dependents; per action: pass, error, result, facts; fact bundles on disk | `analyzeRecursive`, `analyze`, `loadWithFacts`, `persistFactsToCache`, `decUse`, `extractDiagnostics` | `PackageAnalysis` |
| Issues cache, package cache | `runners.go`, `runners_cache.go`, `internal/cache` | issues per package on disk, package hashes, salt | `runAnalyzers`, `loadIssuesFromCache`, `saveIssuesToCache`, `computePkgHash`, `initHashSalt` | `ResultCache` |
| Disk cache | `internal/go/cache/cache.go` | index and data files with their times, `trim.txt` | `Put`, `GetBytes`, `Trim` | `DiskCache` |
| Supervisor | `rust/crates/golangci-supervisor/src/lib.rs`, `main.rs` | cancellation cause and timestamp, process group, memory monitor, report | `run`, `run_direct`, `cancel_with`, `terminate`, `stop`, `finish_*` | `SupervisorCore`, `DirectRun` |
| Worker transport | `worker_transport.rs` | listener, session threads and channels, `ready`/`complete`/`acknowledged` | `accept_worker`, `supervise_session`, `read_worker_events`, `finish_worker_status` | `WorkerRun` |
| Go worker | `pkg/commands/worker.go`, `internal/processexit` | connection, terminal channel, `open`, process state | `serveWorker`, `executeWorkerRun`, `executeWorkerCommand` | `GoWorker` |
| Run command, lint runner, package loading | `pkg/commands/run.go`, `pkg/lint` | exit code, lock file, deadline, packages, issues | `execute`, `acquireFileLock`, `Load`, `narrowToChanges`, `Run`, `processLintResults`, `setupExitCode` | `LintRun` |
| Result processors | `pkg/result/processors` | counters, nolint directives, edits | one `Process` each | `Processors` |
| Configuration | `pkg/config` | none at run time | search, flags, `Load`, `Validate` | `ConfigLoader` |
| Linters database | `pkg/lint/lintersdb`, `pkg/lint/linter` | the catalog | `Build`, `GetEnabledLintersMap`, `GetOptimizedLinters`, `Validate` | `LinterCatalog` |
| Migration | `pkg/commands/migrate.go`, `internal/migrate` | source, backup and new file | load, check, back up, create, encode, clean up | `Migrate`, `LintersV1`, `SettingsTables` |
| Benchmark harness | `scripts/bench` | workloads, caches, worktrees, samples; per execution: process tree and goroutines | `run`, `runTimingMatrix`, `runProfiles`, `runCompatibility`, `executeControlled` | `BenchPlan`, `BenchMatrix`, `BenchExecution` |
| Worker protocol codec, cache program, lifecycle recorder, scheduler metrics, formatter runner | | | | planned or not modelled |
| Linters, formatters, printers, other commands, site scripts | the rest | none of interest | | not modelled |

`PROJECT.json` lists them all with a reason for each that is left out.

### 1.2 How they interact

`runner.analyze` starts one goroutine per package. A goroutine waits for the
goroutines of the imports, takes a slot of `loadSem`, loads the package, and
calls `runActionGraph`, which hands the package's actions to the pool that all
packages share. A failed graph cancels the context of every other package. At
the end `decUse` counts down the users of the package and of its imports and
frees what nobody needs; `extractDiagnostics` walks what is left.

Facts and issues go through `internal/cache` to the cache directory, which every
golangci-lint process of the user reads, writes and trims without a common lock;
`saveIssuesToCache` closes the cache, which trims it.

The supervisor starts the Go program in a process group of its own. In a direct
run it only polls the process; in a worker run it also listens on the loopback
interface, authenticates the worker by a token and exchanges
`hello / ready / run / lifecycle / complete / shutdown / shutdown_ack`. Signal
listeners and the memory monitor request cancellation through an atomic cause.
Whatever ends the run, the main thread then cleans up the process group, joins
the monitor and the session threads, and writes one report.

`golangci-lint run` loads a configuration (`ConfigLoader`), takes the lock file
that all runners of the user share, selects linters (`LinterCatalog`), loads and
narrows packages, runs the linters one after the other and sends their issues
through the processors; the exit code collects what happened on the way.
`golangci-lint migrate` writes a file that a later `run` loads. The benchmark
harness starts two builds of the program over prepared workloads, with
goroutines that kill, cancel and measure each process.

### 1.3 What is hard here

The hazards are listed in `PROJECT.json` at the line where each one bites. They
are of nine kinds.

* *Accounting across a select*: an action is handed over in the instant in which
  the run is stopped (`action_scheduler.go:156`).
* *Errors that are not looked at*: `errors.Unwrap` of a plain error is nil, so
  `action.analyze` runs on failed dependencies unless the cancellation comes
  first (`runner_checker.go:93`); load errors cancel nothing.
* *Shared memory freed by the last user*, in any order of finishing.
* *A verdict that is read twice*: the cause is published before its timestamp
  and read again after the cleanup.
* *Files written by several processes at once*, any of which may be killed
  between two system calls or have its file removed while it writes.
* *An exit that overtakes messages*: the worker may be gone before the
  supervisor has read its last records.
* *A stored answer that is no longer true*: issues and facts of earlier runs,
  under a key that must cover whatever they depend on; answers of runs that
  failed or were killed.
* *An order of filters*: issues are dropped, counted, merged and fixed by some
  twenty processors, and each relies on what those before it left.
* *Cleanup after any failure*: a truncated configuration, an edited source, a
  worktree, a process tree.

What makes each part correct, in one line: the scheduler gives every action a
worker exactly when its requirements have results and outlives none of them;
the analysis runs analyzers on complete, good, live inputs and reports what it
could not do; the cache answers with what was stored or with a miss; the
supervisor's exit code, report and process group agree; the
worker's outcome is believed if and only if it was proven; a run exits with 0
only after a complete, shown analysis of code that compiles, and with or without
a cache or narrowing it shows the same; a migrated file runs the same linters;
the harness measures what it says and leaves nothing behind.

## 2. The models

### 2.1 ActionGraph and ActionScheduler

`ActionScheduler` has one action per step between two points at which another
goroutine can interfere. `pc[p]` is the place of package `p`'s goroutine in
`run()`: `loop` (loop condition), `launch` (head of `launchReady`), `select`,
`await` (the receive at the end), `result`, `done`. The three branches of the
select are `Launch`, `SelectReceive` and `SelectDone`; when several are possible
TLC takes each, as Go may. Slices and channels are sets since their order is a
race or comes from a map. Workers are interchangeable and only counted.

`ActionGraph` is the contract for the caller in four variables. It keeps one
surprise of the code: after a cancellation a call may still start one action,
if its goroutine was already in the select (`live`). `ImplementsActionGraph`
checks the refinement; `live` is the only variable that has to be computed.
`PackageAnalysis` INSTANCEs the same contract and thereby composes with any
scheduler that satisfies it.

### 2.2 ActionDag and PackageAnalysis

`ActionDag` defines the actions, their edges and the loaded packages from the
import graph and from the analyzers' `Requires`. What the recursive visits of
the code find (`markAllActions`, the dfs of `runner.analyze`,
`markDepsForAnalyzingSource`, `visitAll`) is `Reachable` of `Reachability`, a
recursive function over levels. `PackageAnalysis` then has, per
package goroutine, `Enter`, `Join`, `Skip` or `Acquire`, one of three `Load`
actions, the graph (`StartAction`, `FinishAction`, `ReturnGraph`), `Persist`
with the cancellation, `DecUse` (one step per call, since the locks are taken
package by package; `calls[p]` is the set of pairs of a user and a package whose
count is still to be taken down) and `Release`; `Extract` ends the run.

Abstractions: the facts of an action are the set of packages they describe;
type checking is its outcome (`Broken`, `Unparsed`, `BadExport`, `NoVersion`);
an error is known by whether `errors.Unwrap` opens it. The load mode is
`LoadModeTypesInfo`; the whole-program mode differs only in keeping the types.
The package `unsafe` is left out. The initial content of the cache is any set
of bundles for imported packages; a bundle written in the run is `whole` or, if
its analyzer had failed, `partial`. `Again` is another process over the same
cache: everything in memory starts anew.

### 2.3 SupervisorCore and DirectRun

`SupervisorCore` has the actions that both kinds of run share. The main thread
is `pc`; the monitor and the requesters have places of their own. `cancel_with`
takes two steps, `Request` (mutex and compare-and-swap) and `Stamp` (timestamp
and unlock), since `cause()` is read without the mutex in between. The group is
its leader and one bit for all other members. `Faults` says which system calls
may fail. `DirectRun` adds the three steps of the polling loop and
`finish_status`. Time is abstracted: a deadline has passed or it has not, and
may pass between any two steps. The supervisor's signal handling thread is
`Listeners`: each delivers one signal at any moment.

### 2.4 GoWorker and WorkerRun

`GoWorker` is `serveWorker` from dial to exit. The lint command is a goroutine
that returns or, any number of times, calls `processexit.Exit`; `Claim` is the
mutex that lets the first outcome through. `WorkerRun` EXTENDS both sides and
adds the listener's backlog, the authentication, the session's two threads and
their channels. The worker is `"go"` (GoWorker, which may also crash while the
command runs, or hang) or `"any"`: a program that knows the token, writes up to
`MaxRecords` records of any kind in any order, closes or exits at any moment.
`Decoys` are other local processes that connect. A record is its kind and code;
`"error"` stands for any record that does not decode. The wait status keeps the
low eight bits of an exit code (`ExitStatus`): for a code above 255 the status is
not the code that was announced, and `finish_worker_status` calls it a
disagreement.

### 2.5 DiskCache

One action per system call of `copyFile`, `putIndexEntry`, `GetBytes` and `Trim`
that other processes can notice. An output ID is a hash, so a value stands for
its ID; a data file is described by how it compares with its value (absent,
empty, shorter, the value, as long but different, longer). `orphan` are the
writers whose file was removed: what they write is lost. `cut` are the writers
whose file was truncated by another: their last byte may follow a hole. Reading
a file and writing the first part of it are single steps; a copy that is caught
in the middle is one that is cut or killed after its first part. `markUsed` of a
data file is two steps: `OutputFile` looks at its time and at the clock, `MarkUsed`
sets the time that was taken, unless the call fails, which the code ignores. For
the index file, whose time no property is about, it is one step with the read.
`world`, fixed at the beginning, says what may happen besides storing and reading:
failing calls, kills, trims, passing time, a process suspended while it decides to
trim or marks a file, data files that were longer than their output from the
beginning. The clock
counts ticks, and the three intervals keep their order of use but not their
ratio. Executable entries, `GetFile`, `GetMmap` and the verify mode are left
out: nothing in the program uses them.

### 2.6 ResultCache

`runAnalyzers` over several runs: `LoadIssuesFromCache`, `RunAnalyzers` on what
is missing, `SaveIssuesToCache` package by package (with `SaveFails` and
`KilledWhileSaving`), and between the runs the user edits a package, changes
settings, linters or the version of an external package, or moves the module.
SHA-256 is the tuple of what is written to it, so that two keys are equal when
the same bytes are hashed; the issues of a package are everything the analysis
depends on, with the file they are in. `HashSources` keeps the build ID of
external packages and the relative name of files inside the module; `Outside`
are packages with a file elsewhere (cgo). Nothing is edited while a run reads.
A package that does not compile cancels the analysis of those that have not
started, so a run with compile errors has analyzed any part of the others. With an
error of an analyzer that is not about types, or after a cancellation from outside,
the run has no issues and saves nothing (`AnalysisFails`).

### 2.7 LintRun, Processors, ConfigLoader, LinterCatalog

A runner is a process with a place `rpc`, an input (a tree, a configuration,
flags, what each linter would find) and a result. Its actions are the calls of
`execute` and of the hooks around it; with `faults` each may fail, the deadline
may pass at any moment (`RExpire`) and the process may be killed (`RKill`). The
lock is the file that a path names and the files that are locked: `RUnlock` and
`RRemove` are two steps, and a runner may hold a lock on a file that has been
removed. `Processors` has one operator per processor on the sequence of issues;
all run in one goroutine. `SortResults` keeps the comparison that takes a line
of zero for equal to all. `FixerOutcomes` is a set, since Go's maps are walked in
any order. `LinterCatalog` has the whole catalog with the options that decide
when a linter runs; `ConfigLoader` the search, the flags, the adjustments and the
validation. The name of the default group is decoded from the file and checked
only when the linters are selected: `RSelectLinters` fails for one that
`Manager.build` does not know. `Loops` (shared with the harness) has the loops that
append to a slice as recursive functions, so that they can be reasoned about.

### 2.8 Migrate, LintersV1, SettingsTables

The command is a sequence of system calls on the source, the destination and the
backup of either; each may fail, the process may be killed between two, and the user
may repeat it. The extension decides which file viper finds, what the destination is
called and whether an empty file decodes: YAML and JSON end with `io.EOF`, while an
empty TOML file is an empty table, which fits the version 1 schema and becomes a
version 2 file with nothing of the old one (`"bare"`). `MUse` is the run that loads
the result with `ConfigLoader` and `LinterCatalog`. `LintersV1` has the 109 linters
of version 1 and the filters that compute what version 2 must enable and disable;
`V1Runs` is the reference, what version 1 would have run. `SettingsTables` has the
keys of all settings in version 1, in the migrated file and in the loader, and the
moves between them: it is data, and longer than the other modules because the three
files it stands for are. Values are left out.

### 2.9 BenchPlan, BenchMatrix, BenchExecution

`BenchPlan` turns options and a manifest into the list of steps that the nested
loops go through; `BenchMatrix` executes the list with every outcome of the file
system, git and the process, and unwinds the deferred calls after the first error. A
source is the number of its edit and whether `--fix` has rewritten it, a cache the
set of sources it has seen. A scenario that mutates runs in a worktree of its own
only in the compatibility mode (`Isolated`); measured or profiled, it runs `--fix`
in the workload itself and rewrites its files, or not. The directory of a cache is
joined from names and cleaned as `filepath.Join` does (`JoinedPath`), since
`validateName` accepts `.` and `..`. `BenchExecution` is one step of that list in
detail: the main goroutine, the killer, the canceller and the memory sampler, and
for a parallel case two of each with the handshake of `ready` and `start`. The tree
of a process is its root and one more member, which may outlive it.

`MCBench` and `MCCommands` put alternatives into one specification: in each
behaviour only one of them is active.

## 3. What is checked

| Run | Question | Bounds |
|---|---|---|
| `action_scheduler` | Does every call keep its contract, and does the pool drain? | 3 packages (a join with an edge into another package, a cycle behind a free action, no actions), 7 actions, 2 workers; 42 thousand states |
| `package_analysis` | Does an analyzer ever run on failed, freed or missing inputs; is a clean report complete; does it end? | 2 initial packages over a chain of 2, 3 analyzers, plain errors and panics, any cache; 80 thousand states |
| `package_analysis_load_failure` | Is a load error, which cancels nothing, still honoured, and do compile errors show again? | two runs over two chains: a preloaded package over one that cannot be loaded; a package with syntax errors and no export data; 62 thousand states |
| `package_analysis_lost_error` | *violated*: is every load error reported? | a chain of 3 |
| `package_analysis_repeated` | *violated*: does a second run show the failure of the first? | a chain of 3, two runs |
| `direct_run` | Do exit code, report and process group agree, and does it end when it must? | 2 signals, 5 environments, 3 exit statuses, all faults, fair; 130 thousand states |
| `direct_run_survivors` | *violated*: see section 5 | one environment |
| `worker_run` | Is an undisturbed worker ever failed by a race, and can a hanging one keep the supervisor? | GoWorker that may stop anywhere, a decoy (not with a memory limit), deadlines, one of a signal, a timeout and a memory limit, fair; codes 1 and 300 (one that an exit status can show and one that it cannot); 441 thousand states |
| `worker_run_any` | What does the supervisor take on trust? | any 4 records, all faults; 3.6 million states |
| `disk_cache` | What can processes do to each other's entries? | 2 processes, 3 calls, one action with two outputs (one of length zero), 4 worlds; an interval of 3 between trims, of 2 between marks, and 2 ticks of the clock; processes are symmetric; 5.3 million states |
| `bench` | Does the harness measure what it says, clean up, and end? | 9 command lines, 19 manifests (5 valid, 14 with one broken field each; one that measures fixes, one whose caches coincide), any step failing; one execution in each mode or two in parallel, one with a second process; 270 thousand states |
| `commands` | Does a migrated file run the same linters; is exit code 0 earned; do narrowing, nolint and the cache hide anything? | 1,476 version 1 selections, 2,304 exclusions, every settings key, 2 migrations with kills; some 2,600 inputs of one runner, two runners with a lock; 4 packages, 3 runs, 2 changes over a cache; 159 thousand states |

Why the bounds are enough to be of use. The scheduler's decisions depend on one
package's graph and on whether some worker is free: a join needs four actions,
the cycle three, and two workers for two busy packages make the pool both short
and contended. In the analysis the interesting counts are two users of one
package and a package between a failing one and the root; the two import graphs
have both, and a second run shows whatever the first left in the cache. In the
supervisor two requesters of the same kind and one of another suffice to order
winner, loser and reader. The shortest accepted session has four records
(`ready`, `lifecycle`, `complete`, `shutdown_ack`), so `MaxRecords` = 4 contains
every accepted session of that length and every deviation from it. `MaxCode`
scales `i32::MAX` down so that `worker_run_any` has a code beyond it; in
`worker_run` it leaves room for one that eight bits do not hold. In the disk
cache two processes can remove, truncate and overwrite each other's files, and
the third call lets one of them come back to what the other left. For the issues
cache three runs and two changes allow a change and its reversal; the chain has a
dependency that is neither direct nor the package itself. The inputs of `migrate`
take every pair of an enabled and a disabled set from representatives of each
group (default, slow, merged, renamed, removed, formatter, custom); those of
`run` vary what one group of processors depends on and keep the rest.

The type invariants (`TypeOK`) are kept in the modules; those of the scheduler,
the package analysis and the disk cache are proved, the others were checked while
the modules were written and are in no run.

### Properties

*Scheduler.* `NothingOutlivesTheCall`, `OkMeansComplete`,
`UnschedulableMeansCycle`, `NoLaunchAfterFirstError` (an action property),
`ImplementsActionGraph`, and `PoolDrains`.

*Analysis.* `RunsOnGoodDeps` depends on the order of `cancel()` and of the
importers' graphs: the code that looks like the guard (`errors.Unwrap`) is not
enough. `FreedAfterLastUse` bounds `decUse` from both sides. `InputsComplete`
concerns packages that are partly cached. `CleanReportMeansAnalyzed` follows the
error to the report after `decUse` has cut the graph. `ErrorsShowOnRepeatedRuns`
follows it into the next run: true for what does not compile, false for an
analyzer that failed. `Terminates`: no slot is held while waiting.

*Supervisor.* `NoProcessLeftBehind`, `VerdictStands` (report, exit code, latency
and peak come from one decision), `StopsWhenAsked`.

*Worker.* `HonestRunSucceeds` (for codes that an exit status can show) and
`CompletionIsProven` are the two halves of the protocol's correctness.
`JoinsOnlyTheDead` and `SessionEnds` exclude the deadlock of main thread, reader and
worker. `StateKeptWhileRunning` is about the Go side.

*Disk cache.* `ReadsAreWritten` holds in every world. `StoredStaysReadable` is
what the comment in `putIndexEntry` promises of a second write, for both files;
failing calls, trims and the `O_TRUNC` for a file that is too long can each undo
a `Put`, and TLC shows how when they are admitted. `OneTrimPerInterval`: trims
begin at least `trimInterval` apart, unless calls fail or a process is suspended
between its looks at `trim.txt`; it needs the second look, under the lock.
`TrimSparesRead` (an action property) needs the additional `mtimeInterval` in the
cutoff, and that marking a file as used neither fails nor is suspended.

*Runs.* `ExitCodeIsHonest`; `CleanExitMeansItCompiles`, in spite of exclusions,
nolint, diff, limits and narrowing; `NarrowingHidesNothing` compares with an
analysis of all packages, both for runs that need types; `UnusedDirectivesHideNothing`
removes what nolintlint calls unused and compares; `RunnersFinish`, whoever holds
the lock. `CachedIssuesAreFresh`: a run over a cache answers as one without,
whichever runs before it were cancelled, failed or were killed while saving.

*Migration.* `MigrationKeepsLinters` (both ways, except for the merged
staticcheck), `MigratedConfigLoads` (with every moved setting), and
`V1ConfigSurvives` (without `--skip-validation`, and but for a TOML file that is
converted in place a second time, see section 5).

*Harness.* `SamplesAreAsLabelled` (a warm sample has its sources in the cache, a cold
one has an empty cache; not when a name is `.` or `..`, nor after a measured
scenario has fixed the workload), `WorkloadRestored` (edits are undone unless a
write failed, and what `--fix` has rewritten is left only by a mutating scenario
that is measured in the workload itself), `WorktreesAccountedFor`,
`KilledIsReported`, `OrphansAreCounted`, `ExecutionEnds`.

For each property `PROJECT.json` names a mutant: a plausible bug (the `Mut...`
definition beside the original) for which TLC reports a violation.

### Fairness

`PoolDrains` and `Terminates` assume that the Go runtime runs every goroutine
that can run (one weak fairness condition per goroutine) and that analyzers
return; nobody needs to cancel. `StopsWhenAsked` and `SessionEnds` assume that
the operating system runs the supervisor's threads, that clocks advance and
that a kill takes effect. They assume nothing of the Go process: not that it
ends, nor that it connects, reads or writes. `RunnersFinish` assumes that a
process that has not ended goes on; nobody needs to time out or be killed.
`ExecutionEnds` assumes the Go scheduler and the deadline of the run, and nothing
of the benchmarked process; the memory sampler needs strong fairness, because its
select between a ticker and the stop channel may take the ticker any finite
number of times. System
calls may fail in `direct_run`; a kill that fails makes `terminate` wait for a
process that may never end, and `StopsWhenAsked` names this as the only way.
`worker_run` has no failing calls.

Deadlock is checked in every run except `bench` and `commands`, where processes
end and the harness exits; in the others the last step is explicit.

## 4. What is proved

TLAPS checks the theorems below, for every value of the constants that satisfies
the named assumptions of the modules; TLC evaluates these assumptions in every
run. Each inductive invariant was checked by TLC on small instances before it was
proved, except for the parts that TLC cannot evaluate: `CacheInv`, which speaks of
all earlier sources, and the conjuncts of `MatrixInv` about all steps of the plan.

| Module | Theorem | States | Under |
|---|---|---|---|
| `ActionSchedulerProofs` | `TypeCorrect` | `TypeOK`; counters never go below zero | `SchedulerAssumption` |
| | `CallsAreClosed` | `NothingOutlivesTheCall` | |
| | `RunningIsExact` | `RunningCountsInFlight` | |
| | `NoLateLaunch` | `NoLaunchAfterFirstError` | |
| | `OkIsComplete` | `OkMeansComplete` | |
| | `UnschedulableIsCyclic` | `UnschedulableMeansCycle` | |
| | `Refinement` | `ImplementsActionGraph` | |
| `PackageAnalysisProofs` | `TypeCorrect` | `TypeOK` | `DagAssumption`, `AnalysisAssumption` |
| | `GoodDeps` | `RunsOnGoodDeps` | |
| | `FreedInTime` | `FreedAfterLastUse` | |
| | `CleanReport` | `CleanReportMeansAnalyzed` | |
| | `InputsThere` | `InputsComplete` | and no bad export data, every package loadable, one run |
| | `FirstRunErrorsShow` | `ErrorsShowOnRepeatedRuns` | and one run |
| | `IssuesFresh` | `CachedIssuesAreFresh` | `CacheAssumption` of `ResultCache` |
| `DirectRunProofs` | `NothingLeftBehind` | `NoProcessLeftBehind` | `CoreAssumption` |
| | `VerdictIsKept` | `VerdictStands` | |
| `WorkerRunProofs` | `NothingLeftBehind` | `NoProcessLeftBehind` | `CoreAssumption`, `SessionAssumption`, `WorkerAssumption` |
| | `CompletionProven` | `CompletionIsProven` | |
| | `JoinsTheDead` | `JoinsOnlyTheDead` | |
| | `StateKept` | `StateKeptWhileRunning` | |
| | `HonestSucceeds` | `HonestRunSucceeds` | and codes between 0 and `MaxCode`, nobody else sends SIGKILL |
| `DiskCacheProofs` | `TypeCorrect` | `TypeOK` | `CacheAssumption` of `DiskCache` |
| | `ReadsWritten` | `ReadsAreWritten` | |
| | `StoredStays` | `StoredStaysReadable` | |
| | `OneTrim` | `OneTrimPerInterval` | |
| | `TrimSpares` | `TrimSparesRead` | |
| `CommandProofs` | `V1Survives` | `V1ConfigSurvives` | none |
| | `HonestExitCode` | `ExitCodeIsHonest` | none |
| | `CleanExitCompiles` | `CleanExitMeansItCompiles` | `LintAssumption` |
| | `KilledReported` | `KilledIsReported` | `BenchAssumption` |
| | `OrphansCounted` | `OrphansAreCounted` | |
| | `SourcesRestored` | `WorkloadRestored` | `MatrixAssumption` |
| | `NoStrayWorktrees` | `WorktreesAccountedFor` | |

`SupervisorProofs` and `ReachabilityProofs` hold the lemmas that several of these
share.

### 4.1 Scheduler

The only assumption is a finite set of actions, `PkgOf` and `Deps` of their types
(the graph may have cycles) and a positive pool size. None of the invariants is
inductive. `IInv` adds to the types:

* `ResultsInv`: what is on its way has a result, and is in one place only;
* `CountInv`: `running` counts the actions in flight, `completed` those received;
* `IdleInv`: a call that is not open has nothing in flight;
* `ErrInv`: the first error is set exactly when a received action failed, and
  exactly then is the run stopped; `stopped` is never ahead of the run context;
* `StartedInv`: what is ready or was started has all its requirements received
  without error;
* `RemainingInv`: `remainingDeps` never falls below the number of requirements
  that are waited for. It is exact only until the run is done, because
  `complete` stops decrementing then; with equality alone the invariant would
  not be inductive, with the inequality alone a cycle could not be concluded;
* `PcInv`: what each program point may rely on.

`NextIInv` has one lemma per action. `CompleteStep`, shared by both places that
receive a result, is the largest. `AtResult` collects what is known when the
loop has ended: without error and cancellation `remainingDeps[a] > 0` holds
exactly for the actions that never ran. Those then are the cycle of
`UnschedulableIsCyclic`: each of them waits for another of them.
`Refinement` maps `live` as the module defines it and shows each step to be a
step of `ActionGraph` or a stutter.

### 4.2 Recursion, and visits of a graph

The library's induction theorems cannot be instantiated by the installed provers;
the induction here is the existence of a least natural number (`LeastNatural`),
from which follows `InductionOverNat` for sets of numbers. `RecursionExists` shows
that a function given by its value at 0 and by a step exists on every `0..n`:
without it nothing is known of a recursive function, since `CHOOSE` could have
nothing to choose. It is the base of all loops in the proofs of the commands.

`ReachabilityProofs` then shows that `Reachable(start, next)` is the least set that
contains `start` and is closed under `next`, for finite graphs: its levels exist
(`LevelsExist`) and stop growing after as many steps as there are nodes
(`LevelsGrow`: a level that grows has one more element).

### 4.3 Package analysis

Assumed are finite sets of packages and analyzers, imports and requirements
without cycles (Go refuses both; the compiler for imports, `analysis.Validate` for
requirements), at least one configured analyzer and at least one slot. `IInv` has
eight parts. Those that carry the argument:

* `OrderInv`: below a package that may start an action everything is done and
  settled, that is without failure or not loaded at all. It holds because `analyze`
  cancels the context *before* the package counts as done, and `ActionGraph` starts
  nothing after that. `GoodDeps` follows from it, not from the check of
  `errors.Unwrap`;
* `CountInv`: the dependents of a package are the users that have not yet called
  `decUse` on it (`Users`), and one more only for a package that was skipped after a
  cancellation. To be inductive this needs the calls that are under way, each with
  its user, and that no call is under way twice;
* `TypesInv`: types that are missing were freed, belong to a package that does not
  parse, or to one that was skipped;
* `ReportInv`: a report is made when every goroutine has ended. `FailuresExtracted`
  shows that each failed action is then still found: `decUse` cuts the dependencies
  of an action only when it was called, and in that case nothing below it has
  failed.

`NeverUnschedulable` shows that the scheduler's cycle error cannot occur for
acyclic requirements. `InputsThere` adds `FactInv`: who may still be asked for facts
has them for everything below. Its hypotheses are needed, TLC refutes it without
them: `loadImportedPackageWithFacts` forgets the cached facts of a package whose
export data cannot be read, a package that cannot be loaded has none, and a run over
the cache of a failed one inherits the facts that are missing there.
`FirstRunErrorsShow` is about the first run only: `package_analysis_repeated` is
the counterexample for the second.

### 4.4 Supervisor and worker

`CoreInv` of `SupervisorProofs` is kept by the actions that both kinds of run
share: `ProcInv` (what of the process group can be alive at which place),
`CancelInv` (the request that set the cause is the one whose time is taken),
`MonitorInv` (a cause `rss_limit` has a peak above the limit, which is stored
first), `ReportInv`. `DirectRunProofs` adds `VerdictInv`: the completion that was
decided is the one that the report and the code tell, whatever was requested
during the cleanup. Statuses are those that `wait` can return: a code or a signal
other than zero.

`WorkerRunProofs` adds `GoInv` (the Go side), `StreamInv` (what the reader has
passed on is a prefix of what was written, and which records it can have accepted)
and `ControlInv` (what main has taken from the channels). They hold for streams
of any length. The first form of `CompletionIsProven` turned out to be false in
the attempt: it said that the acknowledgement is the next record after the
completion, which is true up to the four records of `worker_run_any` and not beyond,
because the reader accepts further lifecycle records between the two. The property
was restated; TLC and TLAPS agree on the new form.

`HonestSucceeds` needs a second invariant, `HonestInv`, for runs that nobody
disturbs: what the worker has written is determined by its place (`WrittenInv`),
the session is at the corresponding point of the dialogue (`SessionInv`), and the
outcome is the worker's (`OutcomeInv`). The property is about codes that are their
own exit status: `OutcomeInv` cannot hold beyond, because the supervisor compares
the status with the code that was announced. The hypotheses of the theorem say that
exit codes are between 0 and `i32::MAX`, as `finish_worker_status` requires, and that
the worker is not killed by somebody else, which the property could not tell from a
kill by the supervisor.

### 4.5 Disk cache

`FilesType` and `ProcType` are the types. `WriteInv`: an index file names what
somebody has stored for its action, and so does an answer. `CalmInv` is for the
worlds without failing calls, trims and damaged files: no file is removed or
truncated, a data file only gains bytes, and it is complete when its index entry is
written. `TrimInv`: what Trim and `markUsed` took for the present is recent when it
is used, so that `trim.txt` only moves forward, by `trimInterval` at least, as long as
no call fails and nobody is suspended between the two looks at it. `UseInv`, for the
worlds in which neither happens (`Timely`), bounds how far the time of a data file is
behind its last use: by `mtimeInterval`, the allowance in the cutoff. A reader that
has looked and not yet marked is among its cases. Of the intervals only
`mtimeInterval > 0` is assumed. `MaxTime` and `MaxCalls` are any numbers.

### 4.6 Issues cache

`CacheInv` says of each entry that it was found in *some* sources whose key is the
one it is stored under; runs that are cancelled or fail store less of the same or
nothing. `HashExists` shows that the recursive hash is defined for
imports without cycles, `HashTellsApart` that equal hashes come from equal contents
in the whole closure of a package: the set on which two hashes agree is closed
under imports. `HitIsFresh` combines them. That SHA-256 has no collisions, that
all a package's issues depend on is in its closure, the salt and the analyzers'
names, and that nothing is edited during a run is part of the model (section 2.6).

### 4.7 Commands

*migrate.* `BackupFirst`: without `--skip-validation` only a version 1 file gets past
the check, it is never the destination but for a TOML file that is converted in
place, and nothing is created, encoded or removed before the backup is complete. The
exception is the second conversion of such a file, when the first was killed after it
had emptied it. The number of migrations, the files beside the
configuration and the place of a kill are arbitrary.

*run, the exit code.* `Fits` says what a runner may know at each place. The
conjunct that carries `HonestExitCode`: an error is logged together with a code or,
after a panic, together with an error of the linters, which becomes a code only in
`processLintResults`; and the deadline is looked at last.

*run, compile errors.* `CompileInv` adds `ErrorsFit`: while a package that was given
does not compile, either the group of linters with typecheck is still to run, or a
compile error is among the issues, and later among those that are shown. Its parts:

* `TypecheckRuns`: whatever is enabled, typecheck is in one of the groups, and that
  group is not skipped for an old version of Go;
* `NarrowingShows`: a package that does not compile stays when linters need types;
* `LintersShow`: its error is then reported, and comes without edits;
* `BeforeFixerShows`: each processor up to the fixer keeps compile errors, and
  `invalid_issue` leaves only those if there are any. `NolintShows` goes through the
  loop over the sorted issues: no directive matches a compile error;
* `FixerShows`, `AfterFixerShows`: the fixer passes on what has no edits, in every
  order in which it walks its maps; limits keep the first issue; severity, paths and
  order lose none.

`LintAssumption` says that lists are lists, that limits are natural numbers (a
limit of zero is none), that no linter but the loader reports compile errors, and
that no custom linter takes the name of a built-in one; with a custom linter called
typecheck the theorem would be false. The proof failed at first: `GroupLinters` has
no value for a group that does not exist, and the model went on with it where the
code returns an error. `RSelectLinters` has that error now.

*The harness, one execution.* `ExecInv` has, per execution, `PlaceInv` (nothing is
there before `startCommand`; the root has ended once `Wait` has returned), `KillInv`
(SIGKILL has a reason, which the canceller or the sampler has stored first; the
killer counts what is alive after the end of the root) and `ReasonInv` (what the
classification has seen does not change any more). `Elsewhere` and `ExecStep` reduce
a step to the execution that makes it, so that their number is arbitrary.

*The harness, the whole matrix.* A static half speaks of the list of steps: `Tidy`
says that each edit has its restoration later in the list, deferred before the edit
or by the step after it, and each worktree its removal. `PlanIsTidy` shows it for
the list that any valid manifest and options yield, loop by loop. The dynamic half,
`MatrixInv`: an error ends the steps (`StageInv`); a source that is not as before is
pending, restored by the rest of the list or on the way out, or its write has failed
(`EditInv`); what `--fix` has rewritten comes from a mutating step that the list has
outside the compatibility mode (`FixInv`); the worktrees are those of the current
case, those that a summary names and those that git did not remove (`TreeInv`).
`MatrixAssumption` says that decoded numbers are integers, decoded lists are lists
and the fields exist.

### 4.8 Only model-checked

* Liveness: `PoolDrains`, `Terminates`, `StopsWhenAsked`, `SessionEnds`,
  `RunnersFinish`, `ExecutionEnds`. The prover has no rule for fairness.
* `ErrorsShowOnRepeatedRuns` for compile errors over two runs. It holds for
  analyzers that do not fail; a proof needs what the second run finds in the cache.
* `MigrationKeepsLinters` and `MigratedConfigLoads`: what the filters compute from
  the tables of 109 linters and of all settings. These are finite computations over
  concrete data; TLC does them, the provers do not compute with tables.
* `NarrowingHidesNothing` and `UnusedDirectivesHideNothing` compare what the whole
  chain of processors makes of two different lists of issues, with their order and
  their limits. `CleanExitCompiles` follows one kind of issue through the same chain;
  this would need each processor as a function of its whole input.
* `SamplesAreAsLabelled`: whether two cases share a cache or the name of a log depends
  on what `safeName` makes of strings and on names that are joined from them.

## 5. Findings

* `package_analysis_lost_error`. `loadingPackage.analyze` says of a load error:
  "Don't need to write error to errCh, it will be extracted and reported on
  another layer." (`runner_loadingpackage.go:96`). The error is kept on the
  actions of that package. If the package that imports it has its facts cached,
  its actions do not run and do not look; the root then runs, `decUse` sets its
  `Deps` to nil, and `extractDiagnostics` never reaches the error. The run ends
  with diagnostics and without an error.
* `package_analysis_repeated`. `persistFactsToCache` stores the facts of every
  action with a pass, also when its analyzer failed (`runner_loadingpackage.go:190`).
  The next run finds facts, does not analyze the package and reports no error,
  although `runners.go:74` says of the issues "If we try to save to cache even if
  we have compilation errors we won't see them on repeated runs." For compile
  errors the sentence is true: the second run has no export data for the broken
  package, loads it from source and meets the error again.
* `direct_run_survivors`. `MemoryMonitor::stop` always returns
  `survivors: Some(0)`, so that a report that says "process-tree cleanup failed"
  also says that no descendant survived.

Met while modelling, without a run of their own:

* `run_direct` leaves through `?` when the cleanup after an exit, a cancellation
  or a timeout fails: the exit code is 126 and there is no report, while
  `rust/README.md:53` has the report record the cleanup result.
* `copyFile` keeps the modification time of a data file that is there already
  (`cache.go:647`): a trim may remove what was `Put` a moment ago, which
  `cache.go:65` excludes. The reader misses and computes again.
* The fixer drops the issues of linters whose edits conflict, although it did not
  fix them (`fixer.go:36`: "The reports that are not fixed are passed to the next
  processor.").
* The migration does not move `tagliatelle.case.overrides`,
  `gosec.exclude-generated` and `unparam.algo`; `addPrefix` makes patterns
  case-insensitive when `exclude-case-sensitive` was true; with
  `--skip-validation` a second migration after a kill overwrites the backup with
  the truncated file.
* A TOML file is converted in place, and an empty one passes the validation
  (`config_verify.go:110`): a second migration after a kill overwrites the backup
  with the empty file also without `--skip-validation`, and writes a version 2 file
  with nothing of the old one, although the migration guide promises a backup
  (`docs/content/docs/product/migration-guide.md:27`).
* `runTimingMatrix` and `runProfiles` run a scenario that mutates with `--fix=true`
  in the workload itself (`main.go:2138` of the harness): later samples, those of
  the other binary too, are of the rewritten sources, and nothing restores them.
* `validateName` accepts `.` and `..` (`main.go:688`), which `filepath.Join` cleans
  away in the directory of a cache (`main.go:1876`): two cases may share one.
* With `--issues-exit-code` above 255 the worker announces the whole code, the
  operating system keeps eight bits of it (`cmd/golangci-lint/main.go:30`), and the
  supervisor reports a disagreement (`worker_transport.rs:904`).
* A package that does not compile cancels the analysis of the others, so that which
  other issues a run with compile errors shows depends on the schedule.
* `markUsed` ignores a failing `os.Chtimes` (`cache.go:377`), and a reader that is
  suspended before it sets an old time: a trim may then remove what was just read. A
  process that is suspended before it writes `trim.txt` sets that back likewise.
* `releaseFileLock` removes the lock file after it has unlocked it: with three
  runners two may hold a lock.
* With linters that need no types only, narrowing drops an unchanged package that
  has a syntax error in a function body.
* `numericCompare` takes a line of zero for equal to every line, so that the order
  of issues is not transitive (`sort_results.go:125`).
* `finish_after_exit` signals the group id of a leader that has been reaped
  (`lib.rs:346`), and the worker's `Snapshot` and `Finish` of the recorder are two
  calls (`worker.go:217`).

## 6. Not modelled

Report and log formatting, token generation, the contents of packages, facts
and diagnostics, the Windows job object and process tree, the wait-time metrics,
the lifecycle report, the reuse of process ids, edits during a run, files that
linters read through their settings, the processors for source lines and shorter
paths, warnings about unknown linters and unused exclusions, values of settings,
tracing files, and of the harness its metadata, summaries and comparison of
timings. The worker protocol's codec and the cache program are input and output
formats with their error cases; a record that does not decode is modelled where
it is read. Linters and formatters are wrappers of third-party code; printers
have no state. The reasons are in `PROJECT.json`.

## 7. Plan

Done: `ActionGraph`, `ActionScheduler`, `ActionDag`, `Reachability`,
`PackageAnalysis` with repeated runs, `SupervisorCore`, `DirectRun`, `GoWorker`,
`WorkerRun`, `DiskCache`, `ResultCache`, `LintRun`, `Processors`, `ConfigLoader`,
`LinterCatalog`, `Migrate`, `LintersV1`, `SettingsTables`, `BenchPlan`,
`BenchMatrix`, `BenchExecution`; the proofs of section 4.

Next, in this order:

1. Proof: `ErrorsShowOnRepeatedRuns` for any number of runs without failing
   analyzers.
2. `WorkerProtocol`: sequence numbers and the classification of decode errors,
   the same stream read by both implementations.
3. `CacheProg` (`prog.go`): calls in flight, the reader loop and `Close`, whose
   `writeToChild` keeps the mutex when it finds the program closed.
4. `SchedulerMetrics` (compare-and-swap peaks) and the lifecycle recorder's
   snapshot against a running command; the formatter runner.
