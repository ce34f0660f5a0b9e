----------------------------- MODULE Launcher -----------------------------
(***************************************************************************)
(* The author's process from the body of its `with` statement to the end   *)
(* of __exit__ (xm_cluster/experiment.py, core.py Experiment and           *)
(* ExperimentUnit): the thread that adds units, the event loop that        *)
(* submits them one at a time, the one worker of the Local pool and the    *)
(* threads that hold attached drivers, all writing the rows of one catalog *)
(* (xm_cluster/catalog.py) that a second launcher writes too.  What the    *)
(* scheduler, the store or an ssh command does wrong is a fault; the       *)
(* process may die at any step.                                            *)
(*                                                                         *)
(* The event loop runs any task that is ready (asyncio runs them in the    *)
(* order they became so), and a submission has no suspension point: the    *)
(* loop is busy until it ends, the threads are not.                        *)
(***************************************************************************)
EXTENDS Integers, FiniteSets

CONSTANTS
  Scripts,    \* what an author may launch: functions from 1..n to [backend, twice]
  LocalTasks, \* the tasks of a Local unit
  MaxFaults,  \* bound on the faults, for model checking
  MaxOthers,  \* bound on the units the second launcher adds, for model checking
  MayCrash    \* whether the process may die

\* An array without a task has no outcome and is left out.
ASSUME LauncherAssumption ==
  /\ \A script \in Scripts :
       /\ DOMAIN script \subseteq Nat \ {0}
       /\ script \in [DOMAIN script -> [backend : {"local", "slurm", "attached"},
                                         twice : BOOLEAN]]
  /\ MaxFaults \in Nat /\ MaxOthers \in Nat /\ MayCrash \in BOOLEAN
  /\ IsFiniteSet(LocalTasks) /\ LocalTasks # {}

VARIABLES
  plan,     \* the units of this launcher; twice: a generator that adds two payloads
  context,  \* "sync" for `with`, "async" for `async with`
  main,     \* "body", "flush", "settle", "stopping", "final", "left" or "crashed"
  raised,   \* the body raised
  error,    \* a task's error has been collected
  pending,  \* _running_tasks: tasks whose result is still to be collected
  visited,  \* the units _stop_attached_jobs has come to
  catalog,  \* the rows of the experiment, by id
  id,       \* each unit's row, 0 before it has one
  launch,   \* the task of Experiment.add
  submit,   \* the task of ExperimentUnit.add, and how far its submission is
  settle,   \* the task of wait_for_attached_jobs
  accepted, \* the scheduler has the unit's job
  owned,    \* the unit has handles in this process
  futures,  \* the Local tasks in the pool
  notified, \* the Local tasks whose done callbacks have run or are still to be added
  driver,   \* the attached driver's future
  asked,    \* the unit's job has been asked to stop
  unasked,  \* a stop of the unit failed, and may not have reached its job
  faults

units == DOMAIN plan
launching == <<launch, submit, settle>>
jobs == <<accepted, owned, futures, notified, driver, asked, unasked>>
process == <<main, raised, error, pending, visited>>
launcher == <<plan, context, process, catalog, id, launching, jobs, faults>>

Row(owner) ==
  [owner |-> owner, backend |-> "none", native |-> FALSE, job |-> FALSE, state |-> "unknown",
   message |-> FALSE]
Other == 0   \* the owner of the rows another launcher makes
Midway == {"saved", "sent", "erring"}
Over == {"ok", "failed"}
Alive == main \notin {"left", "crashed"}
LoopRuns == main # "crashed"
LoopFree == LoopRuns /\ \A u \in units : submit[u] \notin Midway
\* The exit of an async context is a task of the loop, and its stopping does not await.
Idle == LoopFree /\ ~(main = "stopping" /\ context = "async")

Init ==
  /\ plan \in Scripts /\ context \in {"sync", "async"}
  /\ main = "body" /\ raised = FALSE /\ error = FALSE /\ pending = {} /\ visited = {}
  /\ catalog = [i \in {} |-> Row(0)] /\ id = [u \in units |-> 0]
  /\ launch = [u \in units |-> "none"] /\ submit = [u \in units |-> "none"]
  /\ settle = [u \in units |-> "none"]
  /\ accepted = [u \in units |-> FALSE] /\ owned = [u \in units |-> FALSE]
  /\ futures = [u \in units |-> [t \in {} |-> "queued"]]
  /\ notified = [u \in units |-> {}]
  /\ driver = [u \in units |-> "none"]
  /\ asked = [u \in units |-> FALSE] /\ unasked = [u \in units |-> FALSE]
  /\ faults = 0

Fault == faults < MaxFaults /\ faults' = faults + 1
NoFault == UNCHANGED faults

---------------------------------------------------------------------------
(* The catalog *)

\* Variant with a slip: the next id is counted from this process's own units.
OwnNextId == 1 + Cardinality({u \in units : id[u] # 0})

\* create_work_unit: MAX(id) + 1, read and inserted under one writer lock.
NextId == 1 + Cardinality(DOMAIN catalog)
create_work_unit(owner) ==
  catalog' = [i \in DOMAIN catalog \cup {NextId} |->
                IF i = NextId THEN Row(owner) ELSE catalog[i]]
update(u, row) == catalog' = [catalog EXCEPT ![id[u]] = row]
RowOf(u) == catalog[id[u]]

\* Another process that has reopened the experiment adds a unit to it.
OtherAdds ==
  /\ Cardinality({i \in DOMAIN catalog : catalog[i].owner = Other}) < MaxOthers
  /\ create_work_unit(Other)
  /\ UNCHANGED <<plan, context, process, id, launching, jobs, faults>>

---------------------------------------------------------------------------
(* stop() *)

\* Variant with a slip: only a unit with a native job id can be asked.
HasNativeId(u) == RowOf(u).backend = "slurm" /\ RowOf(u).native

\* The row must own a Slurm job: its state and message become the intent, whatever
\* they were, and a driver or the scheduler is asked.  Any other unit is left as it is.
Stoppable(u) == RowOf(u).backend = "slurm"
intended(u, state) == update(u, [RowOf(u) EXCEPT !.state = state, !.message = (state = "failed")])
stops(u, state) ==
  /\ NoFault /\ UNCHANGED unasked
  /\ IF Stoppable(u) THEN intended(u, state) /\ asked' = [asked EXCEPT ![u] = TRUE]
     ELSE UNCHANGED <<catalog, asked>>

\* ssh fails: at the stop file or the reading of state.json, before the row is
\* written, or at scancel after it, which only a job with a native id comes to.
stopFails(u, state) ==
  /\ Stoppable(u) /\ Fault
  /\ asked' \in {asked, [asked EXCEPT ![u] = TRUE]}
  /\ unasked' = [unasked EXCEPT ![u] = TRUE]
  /\ UNCHANGED catalog \/ (RowOf(u).native /\ intended(u, state))

stop(u, state) == stops(u, state) \/ stopFails(u, state)

---------------------------------------------------------------------------
(* The body *)

\* The unit has its row, and is known under its id.
_create_experiment_unit(u) == create_work_unit(u) /\ id' = [id EXCEPT ![u] = NextId]

\* Experiment.add: the row at once, the launch on the loop.
Add ==
  /\ main = "body"
  /\ \E u \in units :
       /\ id[u] = 0 /\ \A v \in units : v < u => id[v] # 0
       /\ _create_experiment_unit(u)
       /\ launch' = [launch EXCEPT ![u] = "ready"]
       /\ pending' = pending \cup {<<"launch", u>>}
  /\ UNCHANGED <<plan, context, main, raised, error, visited, submit, settle, jobs, faults>>

EndBody ==
  /\ main = "body" /\ main' = "flush"
  /\ raised' \in BOOLEAN
  /\ ~raised' => \A u \in units : id[u] # 0
  /\ UNCHANGED <<plan, context, error, pending, visited, catalog, id, launching, jobs, faults>>

---------------------------------------------------------------------------
(* The event loop: submissions *)

\* The launch starts the unit's own task, and waits for it.
Launch(u) ==
  /\ Idle /\ launch[u] = "ready"
  /\ launch' = [launch EXCEPT ![u] = "awaiting"]
  /\ submit' = [submit EXCEPT ![u] = "ready"]
  /\ pending' = pending \cup {<<"submit", u>>}
  /\ UNCHANGED <<plan, context, main, raised, error, visited, catalog, id, settle, jobs, faults>>

\* The job is in the catalog before anything is sent.
SaveJob(u) ==
  /\ Idle /\ submit[u] = "ready"
  /\ submit' = [submit EXCEPT ![u] = "saved"]
  /\ update(u, [RowOf(u) EXCEPT !.job = TRUE])
  /\ UNCHANGED <<plan, context, process, id, launch, settle, jobs, faults>>

\* sbatch, the pool, or the thread of an attached driver.
Send(u) ==
  /\ LoopRuns /\ submit[u] = "saved"
  /\ \/ /\ NoFault /\ submit' = [submit EXCEPT ![u] = "sent"]
        /\ accepted' = [accepted EXCEPT ![u] = plan[u].backend # "local"]
        /\ driver' = [driver EXCEPT ![u] = IF plan[u].backend = "attached" THEN "running" ELSE @]
        /\ futures' = [futures EXCEPT ![u] = IF plan[u].backend = "local"
                                             THEN [t \in LocalTasks |-> "queued"] ELSE @]
     \/ /\ Fault /\ submit' = [submit EXCEPT ![u] = "erring"]
        /\ \/ UNCHANGED accepted                           \* nothing was sent
           \/ /\ plan[u].backend = "slurm"                 \* the answer was lost
              /\ accepted' = [accepted EXCEPT ![u] = TRUE]
        /\ UNCHANGED <<driver, futures>>
  /\ UNCHANGED <<plan, context, process, catalog, id, launch, settle, owned, notified, asked, unasked>>

Outcome(u) ==
  IF \E t \in DOMAIN futures[u] : futures[u][t] = "failed" THEN "failed" ELSE "completed"
AllDone(u) == \A t \in DOMAIN futures[u] : futures[u][t] \in Over

\* Variant with a slip: the outcome is recorded as soon as one task has ended.
RecordedEarly(u, row) ==
  IF \E t \in DOMAIN futures[u] : futures[u][t] \in Over
  THEN [row EXCEPT !.state = Outcome(u)] ELSE row

\* _record_local_outcome
recorded(u, row) == IF AllDone(u) THEN [row EXCEPT !.state = Outcome(u)] ELSE row

\* A done callback is added to every future; it runs at once on one that is done.
SaveHandle(u) ==
  /\ LoopRuns /\ submit[u] = "sent"
  /\ \/ /\ NoFault /\ submit' = [submit EXCEPT ![u] = "ok"]
        /\ owned' = [owned EXCEPT ![u] = TRUE]
        /\ LET row == [RowOf(u) EXCEPT
                         !.backend = IF plan[u].backend = "local" THEN "local" ELSE "slurm",
                         !.native = plan[u].backend = "slurm"]
           IN  update(u, IF plan[u].backend = "local" THEN recorded(u, row) ELSE row)
        /\ notified' = [notified EXCEPT ![u] = {t \in DOMAIN futures[u] : futures[u][t] \in Over}]
     \/ /\ plan[u].backend = "slurm" /\ Fault              \* the job_id file
        /\ submit' = [submit EXCEPT ![u] = "erring"]
        /\ UNCHANGED <<catalog, owned, notified>>
  /\ UNCHANGED <<plan, context, process, id, launch, settle, accepted, futures, driver, asked, unasked>>

\* Variant with a slip: the failure is raised, and the row is not told of it.
SilentError(u) ==
  /\ LoopRuns /\ submit[u] = "erring"
  /\ submit' = [submit EXCEPT ![u] = "failed"]
  /\ UNCHANGED <<plan, context, process, catalog, id, launch, settle, jobs, faults>>

\* A failed submission is told in the row: acceptance is unknown.
ReportError(u) ==
  /\ LoopRuns /\ submit[u] = "erring"
  /\ submit' = [submit EXCEPT ![u] = "failed"]
  /\ update(u, [RowOf(u) EXCEPT !.message = TRUE])
  /\ UNCHANGED <<plan, context, process, id, launch, settle, jobs, faults>>

\* Variant with a slip: the launch is resumed only by a submission that succeeded.
LaunchWaitsForOk(u) ==
  /\ Idle /\ launch[u] = "awaiting" /\ submit[u] = "ok"
  /\ launch' = [launch EXCEPT ![u] = IF plan[u].twice THEN "failed" ELSE "ok"]
  /\ IF plan[u].twice THEN stop(u, "failed") ELSE UNCHANGED <<catalog, asked, unasked, faults>>
  /\ UNCHANGED <<plan, context, process, id, submit, settle, accepted, owned, futures, notified, driver>>

\* The launch has its unit's result.  A failed one is stopped and marked; a
\* stop that fails is only logged.  A second payload is refused (ValueError).
Launched(u) ==
  /\ Idle /\ launch[u] = "awaiting" /\ submit[u] \in Over
  /\ LET good == submit[u] = "ok" /\ ~plan[u].twice
     IN  /\ launch' = [launch EXCEPT ![u] = IF good THEN "ok" ELSE "failed"]
         /\ IF good THEN UNCHANGED <<catalog, asked, unasked, faults>> ELSE stop(u, "failed")
  /\ UNCHANGED <<plan, context, process, id, submit, settle, accepted, owned, futures, notified, driver>>

---------------------------------------------------------------------------
(* The threads *)

\* The one worker of the pool starts a task, ends it, and then runs its callbacks.
PoolIdle ==
  \A u \in units : \A t \in DOMAIN futures[u] :
    futures[u][t] # "running" /\ (futures[u][t] \in Over /\ owned[u] => t \in notified[u])
StartLocal(u, t) ==
  /\ LoopRuns /\ PoolIdle /\ futures[u][t] = "queued"
  /\ futures' = [futures EXCEPT ![u][t] = "running"]
  /\ UNCHANGED <<plan, context, process, catalog, id, launching, accepted, owned, notified, driver,
                 asked, unasked, faults>>
EndLocal(u, t) ==
  /\ LoopRuns /\ futures[u][t] = "running"
  /\ \E end \in Over : futures' = [futures EXCEPT ![u][t] = end]
  /\ UNCHANGED <<plan, context, process, catalog, id, launching, accepted, owned, notified, driver,
                 asked, unasked, faults>>
Callback(u, t) ==
  /\ LoopRuns /\ owned[u] /\ futures[u][t] \in Over /\ t \notin notified[u]
  /\ notified' = [notified EXCEPT ![u] = @ \cup {t}]
  /\ update(u, recorded(u, RowOf(u)))
  /\ UNCHANGED <<plan, context, process, id, launching, accepted, owned, futures, driver, asked,
                 unasked, faults>>

\* An attached driver ends, well perhaps although it was asked to stop: the stop
\* file may come after its last look at it.
EndDriver(u) ==
  /\ LoopRuns /\ driver[u] = "running"
  /\ \E end \in Over : driver' = [driver EXCEPT ![u] = end]
  /\ UNCHANGED <<plan, context, process, catalog, id, launching, accepted, owned, futures, notified,
                 asked, unasked, faults>>

---------------------------------------------------------------------------
(* The event loop: waiting for what the process itself holds *)

\* Variant with a slip: the wait leaves the outcome to the callbacks.
LeftToCallbacks(u) == RowOf(u)

Settled(u) == recorded(u, RowOf(u))

Attached(u) == owned[u] /\ driver[u] # "none"
BeginSettle(u) ==
  /\ Idle /\ settle[u] = "ready"
  /\ LET asks == Attached(u) /\ raised
     IN  \/ /\ IF asks THEN stops(u, "stopped") ELSE UNCHANGED <<catalog, asked, unasked, faults>>
            /\ settle' = [settle EXCEPT ![u] = "waiting"]
         \/ /\ asks /\ stopFails(u, "stopped")
            /\ settle' = [settle EXCEPT ![u] = "failed"]
  /\ UNCHANGED <<plan, context, process, id, launch, submit, accepted, owned, futures, notified, driver>>

EndSettle(u) ==
  /\ Idle /\ settle[u] = "waiting"
  /\ Attached(u) => driver[u] \in Over
  /\ LET waits == owned[u] /\ plan[u].backend = "local" /\ ~raised
         bad   == ~raised /\ ((Attached(u) /\ driver[u] = "failed") \/ (waits /\ Outcome(u) = "failed"))
     IN  /\ waits => AllDone(u)
         /\ IF waits THEN update(u, Settled(u)) ELSE UNCHANGED catalog
         /\ settle' = [settle EXCEPT ![u] = IF bad THEN "failed" ELSE "ok"]
  /\ UNCHANGED <<plan, context, process, id, launch, submit, jobs, faults>>

---------------------------------------------------------------------------
(* __exit__ and __aexit__ *)

Task(p) == CASE p[1] = "launch" -> launch[p[2]] [] p[1] = "submit" -> submit[p[2]]
             [] p[1] = "settle" -> settle[p[2]]

\* A task's result is collected.  The first error ends the collecting of an
\* async context; a sync one goes on and raises it afterwards.
Collect ==
  /\ main \in {"flush", "settle", "final"}
  /\ \E p \in pending :
       /\ Task(p) \in Over /\ pending' = pending \ {p}
       /\ error' = (error \/ Task(p) = "failed")
       /\ main' = IF Task(p) = "failed" /\ context = "async"
                  THEN IF main = "final" THEN "left" ELSE "stopping"
                  ELSE main
  /\ UNCHANGED <<plan, context, raised, visited, catalog, id, launching, jobs, faults>>

\* The next part of the exit, when nothing is pending: wait for the attached and
\* Local jobs, or stop the attached ones after an error, then drain.
Flushed ==
  /\ main \in {"flush", "settle", "final"} /\ pending = {}
  /\ IF main # "final" /\ error THEN main' = "stopping" /\ UNCHANGED <<pending, settle>>
     ELSE CASE main = "flush"  -> /\ main' = "settle"
                                  /\ pending' = {<<"settle", u>> : u \in {u \in units : id[u] # 0}}
                                  /\ settle' = [u \in units |-> IF id[u] # 0 THEN "ready" ELSE "none"]
            [] main = "settle" -> main' = "final" /\ UNCHANGED <<pending, settle>>
            [] main = "final"  -> main' = "left" /\ UNCHANGED <<pending, settle>>
  /\ UNCHANGED <<plan, context, raised, error, visited, catalog, id, launch, submit, jobs, faults>>

\* _stop_attached_jobs: every unit once, in the order they were added.  One whose
\* driver runs at that moment is stopped, also one that was asked before; a stop
\* that fails ends the stopping.
Held(u) == Attached(u) /\ driver[u] = "running"
Visit(u) ==
  /\ u \notin visited /\ id[u] # 0 /\ \A v \in units : v < u => v \in visited
  /\ visited' = visited \cup {u}
  /\ \/ /\ IF Held(u) THEN stops(u, "stopped") ELSE UNCHANGED <<catalog, asked, unasked, faults>>
        /\ UNCHANGED main
     \/ Held(u) /\ stopFails(u, "stopped") /\ main' = "final"
StopAttached ==
  /\ main = "stopping"
  /\ \/ \E u \in units : Visit(u)
     \/ /\ \A u \in units : id[u] # 0 => u \in visited
        /\ main' = "final" /\ UNCHANGED <<visited, catalog, asked, unasked, faults>>
  /\ UNCHANGED <<plan, context, raised, error, pending, id, launching, accepted, owned, futures,
                 notified, driver>>

\* The process dies: the loop and the pool with it; jobs and rows stay.
Crash ==
  /\ MayCrash /\ Alive /\ main' = "crashed"
  /\ UNCHANGED <<plan, context, raised, error, pending, visited, catalog, id, launching, jobs, faults>>

---------------------------------------------------------------------------

\* The author's code and the exit; in an async context they run on the loop, too.
Main == (context = "async" => LoopFree) /\ (Add \/ EndBody \/ Collect \/ Flushed \/ StopAttached)
Loop == \E u \in units : \/ Launch(u) \/ SaveJob(u) \/ Send(u) \/ SaveHandle(u) \/ ReportError(u)
                         \/ Launched(u) \/ BeginSettle(u) \/ EndSettle(u)
Pool == \E u \in units : \E t \in DOMAIN futures[u] :
          StartLocal(u, t) \/ EndLocal(u, t) \/ Callback(u, t)
Drivers == \E u \in units : EndDriver(u)
Next == Main \/ Loop \/ Pool \/ Drivers \/ OtherAdds \/ Crash

\* The threads run, Local tasks and attached drivers end by themselves.
LauncherSpec ==
  Init /\ [][Next]_launcher
  /\ WF_launcher(Main) /\ WF_launcher(Loop) /\ WF_launcher(Pool) /\ WF_launcher(Drivers)

---------------------------------------------------------------------------
(* Properties *)

\* A row is one unit's for ever: two launchers that add to one experiment at
\* once never take the same row, and no write of one lands in a row of the other.
RowsAreOwn ==
  [][\A i \in DOMAIN catalog :
       /\ i \in DOMAIN catalog' /\ catalog'[i].owner = catalog[i].owner
       /\ catalog[i].owner = Other => catalog'[i] = catalog[i]]_launcher

\* A job the scheduler accepted is never unknown to the catalog in silence: its
\* row has the job that was asked for, and owns its handle, is being given it, or
\* says that acceptance is unknown; only a dead process says nothing.
LostHandleIsReported ==
  \A u \in units : accepted[u] =>
    /\ RowOf(u).job
    /\ \/ RowOf(u).backend = "slurm" \/ submit[u] \in Midway
       \/ RowOf(u).message \/ main = "crashed"

\* When creating a unit failed although its job is owned (its generator went on
\* to ask for a second payload), the job was asked to stop and its row says that it
\* failed and why, until an exit that stops the attached drivers asks it once more
\* and writes "stopped" and an empty message over both.  A Local unit goes on, and
\* its row tells how it ends.
FailedUnitIsStopped ==
  \A u \in units : (launch[u] = "failed" /\ id[u] # 0 /\ RowOf(u).backend = "slurm") =>
    \/ unasked[u]
    \/ /\ asked[u]
       /\ \/ RowOf(u).state = "failed" /\ RowOf(u).message
          \/ /\ RowOf(u).state = "stopped" /\ ~RowOf(u).message
             /\ Attached(u) /\ main \notin {"body", "flush"} /\ (raised \/ error)

\* The recorded outcome of a Local unit is that of all its tasks, whichever
\* thread recorded it, and nothing recorded it before the last had ended.
LocalOutcomeIsTrue ==
  \A u \in units : (id[u] # 0 /\ plan[u].backend = "local" /\ RowOf(u).state # "unknown") =>
    AllDone(u) /\ futures[u] # <<>> /\ RowOf(u).state = Outcome(u)

\* A context that is left has left nothing behind: no submission is still under
\* way, and without an error every Local unit's outcome is in the catalog and
\* every attached driver is over; after an error or an exception every attached
\* driver still running has been asked to stop.  An async context collects up to
\* two errors and may leave tasks behind them; a stop that fails ends the stopping.
ExitDrains ==
  main = "left" =>
    /\ (context = "sync" \/ ~error) => \A u \in units : launch[u] \in Over \cup {"none"}
    /\ (~error /\ ~raised) => \A u \in units : /\ launch[u] = "ok"
                                               /\ driver[u] # "running"
                                               /\ plan[u].backend = "local" => RowOf(u).state = Outcome(u)
    /\ context = "sync" =>
         \A u \in units : Attached(u) /\ driver[u] = "running" =>
           asked[u] \/ \E v \in units : unasked[v]

\* The exit is over at some time, whatever failed.
ExitReturns == <>~Alive
===========================================================================
