# A TLA+ model of exex

Exex is an experiment launcher for clusters. An author's process packages code,
submits jobs through SSH to Slurm (or GridEngine, or a local thread pool), keeps
a catalog of what it submitted in SQLite, and later inspects, stops and collects
results. A work unit with a continuation policy is a chain of attempts that
Slurm requeues, with no process alive between two attempts and no lock shared by
author and cluster. Four things are modelled: managed execution on the cluster,
the author's process that submits, what becomes of one job from the author's
request to its tasks and back, and the files that all of them share. Paths below
are relative to `src/exex/`; `xm/` is `_vendor/xmanager/xm/`.

## 1. Inventory

| component | code | state it keeps | operations | what is hard about it | module |
|---|---|---|---|---|---|
| batch driver | `xm_cluster/execution/continuation.py` | `state.json`, `attempts/<n>/record.json`, the attempt directories, the file `stop`; two signal flags in memory | `batch`, `begin`, `attempt`, `wait`, `record` | killed anywhere, restarted unasked, two files per record, signals lost across processes | `BatchDriver` |
| attached driver | same file, `attached` | the same files, `driver.lock` | one `salloc` per attempt, `attempt` in a child process | two processes write one record | `AttachedDriver` |
| payload script | `xm_cluster/execution/job_script_builder.py`, `artifact_io.py`, `execution.py` | `EXEX_OUTPUT_DIR`, `manifest.json`, `pause-request`, `paused` | prepare, application, capture | marker, exit code and captured set must agree | `BatchDriver`, `JobScript` |
| inspection and control | `xm_cluster/inspection.py`, `xm_cluster/experiment.py` | the catalog row; nothing cached | `get_status`, `stop`, `wait_until_complete`, `get_logs`, `get_links` | several remote reads at different times | `ManagedUnit`, `Backends` |
| submission | `xm_cluster/experiment.py`, `xm_cluster/execution/slurm.py`, `xm/core.py` | the catalog row, staged files, tasks | `add`, `_submit_job_for_execution`, `_launch`, `__exit__` | acceptance unknown after an error; threads and tasks of one process | `Launcher`, `JobPipeline` |
| catalog | `xm_cluster/catalog.py` | experiments, work units, sources | id allocation, updates, sources | several launchers on one file | `Launcher`, `Store` |
| staging and results | `xm_cluster/artifacts.py`, `outputs.py`, `inputs.py` | files on the cluster | `put_file`, `stage`, `fetch` | check then act | `Store` |
| packaging | `xm_cluster/packaging/`, `xm/async_packager.py` | a queue of packageables and futures | `add`, `package`, `freeze`, `verify` | a lock released around the build | `Store` |
| image cache | `singularity/image_cache.py` | blobs and symlinks | `put_blob`, `link` | fixed temporary names, remove then link | `Store` |
| local execution | `xm_cluster/execution/local.py` | futures of a pool | `launch`, done callbacks | callbacks and exit race | `Launcher` |
| job script | `xm_cluster/execution/job_script_builder.py` | none | header, parameters, containers, entrypoint | one task numbering written down five times | `JobScript` |
| arrays, snapshots | `xm/job_blocks.py`, `xm_cluster/array_job.py`, `job_snapshot.py` | none | merge, broadcast, dump, load | layers that override one another | `JobBlocks` |
| GridEngine | `xm_cluster/execution/gridengine.py`, `clusters/gridengine.py` | none | header, submit, `parse_qstat`, ranges of tasks | ranges, steps and lists of tasks | `JobScript`, `Backends` |
| configuration, requirements | `xm_cluster/config.py`, `executors.py`, `requirements.py`, `contrib/ucl.py` | the experiment's snapshot | selecting a cluster, translating requirements | the environment changes meanwhile | `Sites`, `Ucl` |
| links | `execution.py` | `links.json` | `link` | read, change, rename | where the file is: `JobPipeline` |
| the rest | CLI, wandb, docker build, console | none that matters | formatting | not concurrent | none |

How they meet: the author's process packages a bundle into the store, writes the
catalog row, stages the driver, its configuration and the payload script, and
calls `sbatch`. From then on the driver and the author share only files of the
execution directory and Slurm. The driver starts the payload; the payload answers
with its exit code, the pause marker and the published manifest. `stop()` touches
the file `stop`, saves its intent in the catalog and calls `scancel`.
`get_status()` reads the row, then `state.json`, then `sacct`.

What must hold, per component:

- driver: no payload is replayed; a successor rests on a verified pause; the
  budget holds; a stop ends the chain; a record that was written survives a crash
  in a form the next driver can use; the artifact directory names the newest
  result set.
- attached driver: a success is the worker's own; a successor waits for the
  payload before it; a stop ends both processes.
- payload: a result set is published whole or not at all; a pause needs its
  checkpoint.
- control: what a waiter reports was true; a stop that comes too late does not
  rewrite an outcome; a waiter returns.
- submission: a job the scheduler accepted is never unknown in silence; a row is
  one unit's; the exit leaves nothing behind; a Local outcome is that of all tasks.
- one job: the command line, the environment, the resources and the place are
  those asked for, and what is read back is its own.
- files: a name keeps the content it names, and an answer names files that are there.

## 2. Modules

`Chain` is the abstract specification: one logical unit of work runs as a
sequence of attempts, each queued, started at most once and settled with a
verdict, and only a paused attempt whose checkpoint is retained has a successor.
`SupervisedChain` is the same chain where a supervisor may close it: until then it is
`Chain`, and afterwards its verdict and the words of a worker that outlives it may
replace each other, but no other attempt is begun and no payload started twice.

`BatchDriver` models one managed batch job in full. Its variables are the files
(`stateFile`, `receipts`, `begun`, `stopFile`, `requested`, `marked`,
`captured`), the driver's memory (`pc`, `state`, `after`, `cancelled`, `pause`,
`code`), the payload (`payload`, `written`), Slurm (`job`, `ending`, `requeued`,
`faults`) and three history variables that only properties read (`launches`,
`clean`, `lateStarts`). One action stands for one piece of the driver between
two points where another actor can be seen:

| `pc` | code | actions |
|---|---|---|
| `batch` | `batch` up to and with the `mkdir` of `begin` | `BatchRefuse`, `BatchBegin` |
| `receipt`, `state` | the two renames of `record` | `WriteReceipt`, `WriteState`; `after` says where `record` returns to |
| `attempt` | the checks of `attempt` | `AttemptCancelled`, `AttemptStart` |
| `spawn` | `deadline`, `inputs`, `Popen` | `Spawn`, `SpawnRaises` |
| `wait` | `wait` | `WaitRequest`, `WaitStop`, `WaitExit` |
| `judge`, `seal` | the verdict and the `finally` clause | `Judge`, `Seal` |
| `requeue` | the end of `batch` | `Requeue`, `RequeueFails`, `BatchReturn` |
| `exit` | the process ends | `Finish` |

The payload's actions are `Prepare`, `SaveOutput`, `MarkPaused`,
`EntrypointReturns`, `Capture`, `CaptureFails` and `PayloadReturns`. The
application is arbitrary: it saves any outputs in any order, writes the pause
marker whenever it likes, asked or not, and exits with any code. Slurm grants
and ends allocations, delivers signals in any order, loses drivers (`Kill`),
and may accept a requeue whose reply is lost. `TouchStop` and `Scancel` are the
author's two effects on the cluster.

What is abstracted: times, messages, log paths, archive bytes and content
identities. `Records.artifacts` is the number of the attempt whose directory is
named; `captured[n]` is the set of names in that attempt's manifest. The clock
appears only as `PauseSignal`, which may come at any time, and as
`Terminate("timeout")`. A payload that is terminated exits with a code other
than 0, unless it had exited before. Slurm's behaviour is not in the repository;
it is marked external in the map and taken from how the code uses it (`--requeue`
and `--signal=B:USR1@n` in the generated header).
The payload is the script: an application process that ignores SIGTERM and
outlives its script is left to Slurm. A write of the driver that fails (a full
disk) is seen only as a driver that dies there, which `Kill` covers, and
`driver.lock` does not appear, because Slurm never runs two batch drivers of one
job at a time.

`ManagedUnit` extends `BatchDriver` with the author's side: the catalog's
intent, a caller of `stop()` (`StopRequest`, `StopOverlay`, `StopSave`,
`StopScancel`, or `StopAborts` in between) and a waiter (`PollCatalog`,
`PollState`, `PollSacct`). `Overlay` is `execution_record`, `Native` the table
`_SLURM_STATES`, `Refined` and `Combined` the body of `get_status`. sacct is
taken to know the job's present state; accounting that lags is not modelled.

`AttachedDriver` extends `BatchDriver` with the supervisor on the login node
(`sup`, `supState`, `supAfter`, `supCancelled`, `outcome`) and its `salloc` child.
The worker in the allocation takes the steps of `attempt` of `BatchDriver`, and
both write the same `state.json`. `SupStart` to `SupNext` are the pieces of
`attached`: refuse a replay, `begin`, the two renames of `record`, spawn, the
hang-up in `wait`, and the verdict. `Grant`, `Refuse` and `SallocEnds` are Slurm;
`SupKill`, `SupRestart` and `WorkerKill` are the faults. `driver.lock` appears as
"one supervisor at a time". A worker that has recorded its last word is taken to
exit before the next `salloc` starts.

`Launcher` is the author's process: the thread that adds units and leaves the
`with` or `async with` block (`main`, `pending`, `raised`, `error`), the event loop
that submits one unit at a time (`launch`, `submit`, `settle`), the one worker of
the Local pool (`futures`, `notified`) and the threads of attached drivers
(`driver`), over the rows of one `catalog` that another launcher writes too. A
submission is `SaveJob`, `Send`, `SaveHandle`, with `ReportError` after a failure;
between them nothing else runs on the loop, but the threads do. `Launched` is the
end of the unit's creation, where a failed one is stopped and marked. `Collect`,
`Flushed`, `StopAttached` and the `settle` tasks are `__exit__` and `__aexit__`.
`Crash` ends the process at any step.

`Store` is what packaging, staging, the image cache and `fetch` do to files. A
thread's `pc` is its place in `package()` or in a direct call; `reg` holds its
local variables. `Package` splits the queue under the lock; `Freeze`, `Archive`,
`CopyResources`, `Retain`, `Dockerize`, `Verify`, `Hash`, `Upload`, `Move` and
`Record` are the router, source and store, `Query` to `Got` the image cache, `Stage`,
`Fetch`, `Expose` and `CopyTree` inputs and results. The author edits the tree
and rebuilds the image at any time. A content stands for its own hash: a file is
right when its content is its name. `overlapped` is a history variable that says
that two threads were in the image cache at once.

`JobPipeline` composes the modules of one job: `Package`, `Add`, `Submit`, then
the tasks (`NextAttempt`, `RunTask`, `EndTask`, `Stop`) and what is read of them
(`Inspect`, `InspectLocal`, `ListJobs`), with `ChangeEnvironment` anywhere between.
It is made of

- `JobBlocks`: arguments, their merging, environments, job groups, arrays and
  their broadcasting, flattening, and the snapshot in the catalog;
- `JobScript`: the header of each backend, the parameter file and its case
  statements, containers and their environments, the entrypoint under `srun`, and
  what a shell makes of them when a task runs;
- `Sites`: the selection of a cluster, endpoints and stores, the snapshot of the
  configuration that an experiment keeps;
- `Ucl`: requirements and what the executors of `contrib/ucl.py` make of them;
- `Backends`: submission, native ids, the accounting's rows, `local_status`,
  `aggregate`, logs, links and artifacts of a task, `parse_qstat` and the ranges.

Trees of jobs and their arguments are walked by paths of keys, by folds over what they
mention and by functions on their positions, never by recursive operators, so that
what is checked can be proved about. `RequestAssumption` (`IsRequest`) says what an
author may ask for: what the constructors accept, and an array has tasks.

Words, names and values of arguments are model values; a word of a command line
is a tuple whose shell meaning `ExpandWord` gives. Quoting is abstracted to which
words the shell expands. The steps that a managed job takes under crashes are
those of `BatchDriver`, not of this module.

`MCBatchDriver`, `MCManagedUnit`, `MCAttachedDriver`, `MCLauncher`, `MCStore` and
`MCJobPipeline` give TLC its constants. `BatchDriverProofs`, `BatchDriverRefinement`,
`ManagedUnitProofs`, `AttachedDriverProofs`, `LauncherProofs`, `StoreProofs`,
`JobBlocksProofs` and `JobPipelineProofs` hold the theorems (section 5).
Definitions whose comment starts with "Variant" are plausible wrong versions of
the definition that follows them; they exist to show that the properties can
fail and are used by no specification.

## 3. Runs

| run | constants | what it shows |
|---|---|---|
| `BatchSafety` | 3 attempts, 2 faults | all safety properties, and that the files implement `Chain` |
| `BatchLive` | 2 attempts, 1 fault | a stop ends the payload and the job; a pause signal is relayed |
| `UnitSafety` | 2 attempts, 1 fault, 1 stop | status, stop and wait report what happened |
| `UnitLive` | 2 attempts, no fault, no stop | the waiter returns |
| `Attached` | 2 attempts, 1 fault | what supervisor and worker write implements `SupervisedChain`; success is earned; a stop ends both processes and the payload for good |
| `Launcher` | 2 units of every two backends, 2 Local tasks, 1 fault, 1 foreign unit, a crash | rows, handles, outcomes, both stops of a unit and the exit of the author's process |
| `Store` | 3 threads in 2 processes, 2 versions, 1 fault | names keep their content and futures are answered |
| `Pipeline` | one request per shape, backend, container and refusal, 3 environments, 1 change, 2 attempts | one job is run, placed, scheduled and read as it was asked |
| `UnitStaleRead` | 2 attempts | *violated*: a completed unit is reported as failed |
| `UnitMarkFailed` | 2 attempts, 1 stop | *violated*: `mark_as_failed` is forgotten between attempts |
| `UnitLostStart` | 2 attempts, 1 fault | *violated*: a dead unit is reported as queued |
| `UnitStopRace` | 2 attempts, 1 stop | *violated*: a stopped unit is reported as queued for ever |

Bounds. `MaxAttempts` is a parameter of the program; three attempts give a
first, a middle and a last one, two give one requeue. `MaxFaults` bounds killed
drivers and preemptions: two let the driver that recovers from a crash crash
again. In `Attached` one fault kills either process or restarts the supervisor.
Two outputs separate the checkpoint from the complete set. `MaxStops` bounds
calls of `stop()`; a second call adds only another `scancel` of a job that is
ending. Two units are enough for `Launcher`, because units meet only in the loop,
the one worker of the pool and the catalog, and every pair of backends is tried;
one foreign unit can come before, between and after the two. In `Store` two
threads of one process share a queue, and the third shares only files and the
cache; a second version of the tree and of the image is what makes a read old.
Each of its scripts puts together requests that meet in one directory.
`Pipeline` takes one job at a time: jobs meet nowhere but in the modules above.
Arrays have up to four tasks, since a step and a range that breaks need three.

Deadlock is not checked in any run: a job that is over, a process that has left
or died, a store with no request left and a request that is refused stop for good.

Properties. `AtMostOnce`, `VerifiedResume` and `CompletedIsWhole` are stated on
what payloads did (`launches`, `clean`, `captured`), not on what the driver
wrote. `StopIsFinal` allows one late start: a driver that passed its check
before the file appeared. `ReceiptsLead` states what a crash inside `record`
leaves behind. `PausedIsOver` is stated for a unit without faults, because a
preempted driver records a pause that is not continuing and Slurm restarts the
job all the same; `VerdictIsSettled` likewise, because a worker killed after it
has overwritten the supervisor's last word leaves the unit running for ever.
`ExitDrains` has the exceptions that the code has: an async exit collects up to
two errors and may leave tasks behind them, and a stop that fails ends the
stopping of the others. `LostHandleIsReported` excepts a process that died.
The promises of the image cache hold only while no two threads were in it at
once (`overlapped`); a fetched directory shows before it is whole. `ArgvLayering`
and `EnvLayering` except an author who sets the very variable that selects the
task (`EXEX_TASK_ID` and its native sources), whose case statement then takes
another branch or none (`Sound`). These, and what is said of schedulers, except an
author who takes the client's own directives away (`LeftToClient`): by naming one, such
as `--array`, or by a skip. `skip_directives` drops every header line whose text contains
the skip, in its name or its value. Text is not modelled: `InText` is a constant, any
relation between lines and skips for the proofs, and for TLC that of four requests, which
skip `--ntasks=`, `gpu` (the logs in a directory `gpu` go with the GPUs), `1-` (the range
of a Slurm array goes) and `-cwd`. `LeftToClient` asks that no skip is in a line of the
client's own; without that clause TLC finds `TaskReadsItsOwn` violated.
`FailedUnitIsStopped` tells the two stops apart that a unit with an attached driver may
meet: the failed creation's, which marks it failed with a message, and that of
`_stop_attached_jobs`, which asks every driver that still runs, asked before or not, and
writes "stopped" and no message over the row.
`GridAnswersAreTrue` leaves open how qstat shows the tasks that wait: as one range where
they are one, otherwise as any list of numbers and ranges. `parse_qstat` raises for a list
with a range in it (`clusters/gridengine.py:47-56`, `Unreadable`), and then `ListJobs`
answers nothing. The property says what an answer tells, and that there is one whenever
the waiting tasks are one range; for other sets there may be none. Four tasks are enough
for a list with a range, as tasks 1, 2 and 4 wait while 3 runs.
`HeaderMatches` compares with the requirements
only while the environment is unchanged since the experiment was created, since
the executor of `contrib/ucl.py` is made with the cluster that is the default now; what
it compares is the directives of the script, those of the driver's script for a managed
batch job, and the arguments of `salloc` for an attached one, continued or not; the run
has a request of each.
`ImplementsSupervised` is what is left of `ImplementsChain` with two writers: `Chain`
itself does not hold, as the supervisor fails an attempt that never started.
`AtMostOnce` is part of it, and proved for both drivers by itself.

The references that the runs of `Pipeline` compare with are written from the
documented promise and not from the code's steps: `AskedArgv` and `AskedEnv` look
for the first mention and the last layer of each name, where the code merges
dictionaries, groups, broadcasts, quotes and runs a script.

Fairness. `BatchLive` assumes weak fairness of the driver's own steps (an
operating system schedules it), of `Finish` (Slurm notices an exit) and of
`Allocate` (the queue drains). Nothing is assumed of the payload or of the
walltime. `UnitLive` adds what ends an uncooperative payload: submission
requires a walltime, so `Terminate("timeout")` and the signal that follows are
weakly fair, and so is the waiter's loop. `Attached` assumes that both drivers
are scheduled, that a worker that has exited is noticed and that `salloc` ends
once it is hung up or its allocation is ending: the supervisor kills it ten
seconds after the hang-up. `StopEndsAttached` claims under it that the file `stop` is
followed by a state in which supervisor, worker and payload are over and stay so
(`AllOver`); a signal to the supervisor is in memory only, and what is claimed of it is
that the file gets made, or the supervisor ends without it: refusing a replay, killed or
by an error, or because no `salloc` runs. `Launcher` assumes that its main thread, its
loop, its pool and the attached drivers go on: Local tasks and attached drivers end by
themselves, as the exit waits for them without bound. `Store` assumes that a thread goes
on and that the commands it waits for end.

## 4. What disagrees with the documents

The four violated runs check sentences of the repository's documents, quoted in
`PROJECT.json` under `findings`:

1. `get_status` reads `state.json` before `sacct`; a driver that finishes in
   between makes a completed unit look failed (`xm_cluster/inspection.py:190`).
2. The overlay `{**record, **current}` hides `mark_as_failed` while a chain waits
   for its next allocation (`xm_cluster/inspection.py:123`).
3. A driver killed between `begin` and the start of its attempt leaves
   `native_id` empty, and the status stays queued (`xm_cluster/inspection.py:172`).
4. A stop between the two continuation checks leaves `continuing` set, and the
   status stays queued (`xm_cluster/execution/continuation.py:201`).

Met while modelling, and not made a run of their own:

- `contrib/ucl.py:45` says that `requirements.location` chooses the cluster;
  line 121 raises `ValueError` for every location. `Pipeline` has the request.
- `xm/core.py:778` says that concurrent calls of `package()` build one after the
  other; `xm/async_packager.py:132` builds outside the lock. `Store` runs them together.
- `parse_qstat` (`clusters/gridengine.py:47-56`) raises `ValueError` for a list that
  contains a range, which qstat shows when the tasks that wait have a gap.
- A unit of a failed submission that another process reopens keeps the status it
  has, and a waiter polls without end; `stop()` of a row without a backend returns
  without a word (`xm_cluster/experiment.py:251`).
- A native state that `xm_cluster/inspection.py:181` does not know is asked for
  again and again.
- An executor of `contrib/ucl.py` for GPUs and several slots asks for two parallel
  environments. Both directives are in the header.

## 5. Proofs

Every theorem is about a whole specification and every value of its constants, under
the assumption its module names, which TLC evaluates in every run. The proofs of one
component are in one module; each rests on one inductive invariant, which was checked
with TLC on the instance of the component's run before it was proved.

| module | specification | invariant | properties proved |
|---|---|---|---|
| `BatchDriverProofs` | `Spec` | `IInv` | `TypeOK`, `AtMostOnce`, `VerifiedResume` |
| `BatchDriverRefinement` | `Spec` | `RInv`, `LateInv` | `ArtifactsAreNewest`, `CompletedIsWhole`, `ReceiptsLead`, `StopIsFinal`, `ImplementsChain` |
| `ManagedUnitProofs` | `UnitSpec` | `UInv` | `UnitTypeOK`, `CompletedSurvivesStop`, `CompletedIsTrue`, `PausedIsOver` |
| `AttachedDriverProofs` | `AttachedSpec` | `AInv`, `CInv` | `AtMostOnce`, `VerifiedResume`, `SuccessIsEarned`, `VerdictIsSettled`, `SuccessorWaits`, `ImplementsSupervised` |
| `LauncherProofs` | `LauncherSpec` | `LInv` | `LostHandleIsReported`, `FailedUnitIsStopped`, `LocalOutcomeIsTrue`, `ExitDrains`, `RowsAreOwn` |
| `StoreProofs` | `StoreSpec` | `SInv` | `FuturesGetTheirOwn`, `StoredByContent`, `AnswersAreStaged` |
| `JobPipelineProofs` | `PipelineSpec` | `IInv` | `ArgvLayering`, `EnvLayering`, `TaskReadsItsOwn`, `SnapshotRunsTheSame`, `PlacedWhereItRuns`, `HeaderMatches`, `StatusIsTrue`, `GridAnswersAreTrue` |

`JobBlocksProofs` has no specification: it holds the lemmas about arguments that
`JobPipelineProofs` cites. `RowsAreOwn`, `SuccessorWaits` and `GridAnswersAreTrue` are
action properties, `ImplementsChain` and `ImplementsSupervised` refinements, the others
invariants. That an invariant is inductive is proved with a
lemma per action, or per group of actions that disturb the same conjuncts.

Batch driver. `DriverAssumption`: a budget of at least one attempt, any set of
outputs with the checkpoint among them, any number of faults. None of the properties
is inductive by itself. `IInv` adds where the driver's record comes from: while the
driver works, `state.attempt` is an attempt whose directory it made (`Located`),
which bounds the index that every write uses; a driver lives only inside a
running job (`Allocated`), a payload only between spawn and seal
(`PayloadPlaced`); before spawn the attempt has launched nothing (`Fresh`),
because `begin` refuses a directory that exists; a payload that exited 0 has
published what its script requires (`CleanExit`); and a record that says paused
is about an attempt that is marked, clean and checkpointed (`PausesVerified`).
The last two give `VerifiedResume`: `begin` writes a successor only on a record
that says paused. `VerifiedStays` is the lemma behind it: no step takes back a
marker, a clean exit or a captured checkpoint.

`RInv` adds how the driver's record differs from `state.json` until `record` has
finished (`Bookkeeping`): it is the one step of the chain that `after` names, and
between the renames the receipt has it already, which is why `ReceiptsLead` holds
wherever a driver is killed. `Directories` says that at most one directory lies
beyond the attempt in `state.json`, `Launched` that only launched attempts retain
anything, and `ArtifactsFollow` that the directory named is the newest among those of
the earlier attempts while an attempt runs, and among all once it is settled.
`ChainImplemented` is the refinement, step by step: writing `state.json`, starting a
payload and publishing a checkpoint are steps of `Chain`, and every other step leaves
the chain where it is.

Managed unit. `ClusterStepsOnly` shows that `stop()` and a waiter do to the cluster
only what `BatchDriver` knows, so `UnitIsBatchJob`: `UnitSpec => Spec`, and all of the
above carries over. `UInv` adds stability: what the waiter has read is still so when it
uses it, since a completed record is never replaced, nor (without faults) that of a
pause without a successor.

Attached driver. `AInv` restates the argument for two processes that write one
`state.json` without a lock: "paused" and "completed" are the worker's last words
(`LastWord`), a supervisor that holds a successor or a verdict meets a worker with
nothing left to write about an earlier attempt (`SupKnows`), and until then both name
one attempt (`WorkerKnows`). `VerdictHolds` is the part that needs no process killed.
`CInv` adds that a worker finds in state.json what it wrote there itself, as long as the
supervisor has not closed the chain (`InStep`), and that only what was started is waited
for or retained (`Started`). With it `SupervisedImplemented` goes step by step: a record
of the supervisor's is a beginning in an open chain or a verdict in a closed one
(`SupCloses`), a record of the worker's the next step of the one or a late word in the
other (`WorkerRecordsChain`).

Launcher. `LInv` says how far each unit has got (`Stage`) and what its row says of
that (`Told`), that whatever is unfinished, or failed and not yet known to have, is
among the tasks to be collected (`Uncollected`), and what each part of the exit has
seen to (`Exiting`). `OwnRows` is why the writes by id land in a launcher's own rows:
ids are handed out without gaps under the writer's lock. `LauncherAssumption` types the
scripts (a backend and whether the generator adds twice, by unit) and takes the tasks of
a Local unit to be finite and at least one (section 7 has the array without any).

Store. `SInv` says of each thread what the step it is at relies on (`ThreadInv`): whose
requests its batch holds (`Called`), what it has built (`Finished`), which route the
request takes (`Routed`), and what it has in hand and which files that rests on
(`HoldsEntry`, `HoldsImage`). `Onward` is what every step leaves true: a name that has
its content keeps it, except a cached image that two threads met over. With it,
`ThreadStays` gives that no thread's step takes from another what that one relies on.
`StoreAssumption` types the scripts: what may be asked for, that an image is built only
for a Python package and that a script's package takes no further files, as the
executable specifications have it.

One job. `IInv` says phase by phase what is there and what it was made of: the package
(`Packaged`), the job that `add` made of it (`Added`), the row, script and bindings that
submitting it made (`Submitted`), the tasks the scheduler has (`Scheduled`) and the attempt
that runs (`Attempted`). Only `StatusIsTrue`, which is about an answer that may be older
than the tasks, and `PlacedWhereItRuns`, which a refusal must keep (`RefusedForGood`),
need more of a step; the others follow state by state:

- `ArgvLayering`: a fold of mentions puts each keyword at its first mention with the value
  of its last, so merging three layers is mentioning all of them in turn, and names,
  groups, broadcasts and flattening leave a job the layers that were its own.
- `EnvLayering`: sourcing a parameter file is a fold of statements over a shell. Each
  variable of the task is set by one `case`, whose branch is that of the task's number as
  long as nothing before it has set the variable that selects (`Sound`), and the
  container and `srun` hand on what was set.
- `TaskReadsItsOwn`: while no skip is in the text of the client's lines, the index a
  backend gives a task, less its offset, is the same number in links, logs and artifacts,
  outside and inside the container.
- `SnapshotRunsTheSame`: encoding and decoding keep what is mentioned up to what the
  command line shows of it.
- `HeaderMatches`: a directive is in the header with the last value given for it, unless
  a skip is in its text (`HeaderSays`).
- `GridAnswersAreTrue`: the text of a range gives the range back (`RangePart`), a list of
  parts of the waiting tasks gives them all (`TaskFieldsOf`), a list that cannot be read
  shows no single range (`GridListed`), and the ranges of failed tasks partition them.

The folds are over sequences of any length. The induction theorems of the library cannot
be used, as they take an operator. Instead the function on sets of positions by which the
community modules define a fold is extended by one position at a time (`IngestStep`,
`SourceStep`), and that something holds of every length follows since there would be a
smallest one at which it fails (`SmallestOf`). Assumed are `RequestAssumption`
(the requests are what constructors accept), `PipelineAssumption` and `TasksAssumption`
(bounds are numbers), `DecimalAssumption` (two indices of tasks have different texts) and
`SiteAssumption` (an author has one of the names that are theirs).

What the proofs found. Two definitions had `CASE` with guards that overlap, where TLC
takes the first and the logic any: they are exclusive now. `HeaderMatches` took every
continued job to be submitted by a batch script, which is wrong for an attached one; the
corrected property and a request with both are in the run. Neither is a fault of the code.

Model-checked only: the liveness properties (`StopEndsJob`, `StopEndsPayload`,
`PauseIsRelayed`, `WaiterReturns`, `StopEndsAttached`, `ExitReturns`,
`FuturesResolve`), which the prover does not reach, as it has neither fairness nor
`ENABLED`. Every invariant, action property and refinement of the passing runs is proved.

## 6. Plan

The modules are written and their safety properties proved. Further steps, for the models
and not for the proofs: `link()` as two writers of one file, accounting that forgets a
job, and a waiter of a unit that another process submitted.

## 7. Not modelled

- `link()`'s read, change and rename (`execution.py:39`): two reporters of one task
  can lose a link. The models leave what a payload writes arbitrary.
- A Local array with neither arguments nor environments: it has no task, so nothing
  ever records an outcome for it (`xm_cluster/experiment.py:308`).
- The refusal of a request that equals one queued later (`xm/async_packager.py:100`):
  requests of `Store` are all distinct.
- The id predictor: `xm/core.py:756` makes one, and nothing in `xm_cluster` asks it
  for an id.
- `should_update` and `get_file_info` of the store, which packaging does not call.
- `get_script`; accounting that has forgotten a job; the upgrade of an old catalog
  file's columns and the listing of experiments.
- Finding and parsing the configuration file; the vendored `resources.py`, whose
  arithmetic no backend uses (the names of its resource types are in `Ucl`).
- The command line (`cli/`), among it `qacct` and `qdel`, wandb, the docker build and
  the console: thin wrappers without a state of their own.
- The amount of a GPU resource on Grid Engine outside UCL's clusters: its mere name tells
  a container to use GPUs (`execution/gridengine.py:33-39`), also with the amount 0.
- The bytes of archives, quoting, wording and layout of generated text.
- The times and limits of commands, and opening SSH connections.

Futures of Local units are never cancelled: `stop()` refuses them, and nothing else
cancels one, so the cancelled case of `local_status` (`xm_cluster/inspection.py:77`) does
not occur. An option of Slurm for GPUs is one of the names that begin with `gpus` and
that `sbatch` has, where the code tests the beginning.

Assumed in `Store`: an author's `.sif` does not change while it is packaged; a test
for existence is one step; a retained file is damaged only before the run. Assumed
in `JobPipeline`: the workers of `srun` have ranks 0 and 1.
