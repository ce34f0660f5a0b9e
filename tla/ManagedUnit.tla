---------------------------- MODULE ManagedUnit ----------------------------
(***************************************************************************)
(* A managed batch work unit seen from the author's machine: the catalog   *)
(* row of the unit, ClusterWorkUnit.stop(), and a waiter that polls        *)
(* get_status() (experiment.py, inspection.py), composed with the driver,  *)
(* the payload and Slurm of BatchDriver.                                   *)
(*                                                                         *)
(* Author and cluster share no lock.  Each remote command is one step, so  *)
(* the driver, Slurm and a second caller move between any two of them.     *)
(* The unit is submitted: the catalog holds its native id.                 *)
(***************************************************************************)
EXTENDS BatchDriver

CONSTANT MaxStops  \* bound on the calls of stop(), for model checking

ASSUME UnitAssumption == MaxStops \in Nat

VARIABLES
  catalog,   \* the catalog's `state`: "unknown" until stop() saves an intent
  caller,    \* the next step of a call of stop(), or "idle"
  intent,    \* the state that call will save
  target,    \* the native id that call read is set: it will call scancel
  stops,     \* calls of stop() so far
  poll,      \* the next step of the waiter's get_status(), or "returned"
  snapshot,  \* the catalog state that get_status() read
  seen,      \* the record that get_status() goes on with
  outcome    \* how wait_until_complete() returned, or "none"

stopVars == <<catalog, caller, intent, target, stops>>
pollVars == <<poll, snapshot, seen, outcome>>
unitVars == <<vars, stopVars, pollVars>>

CatalogStates == {"unknown", "stopped", "failed"}

Views == [native : BOOLEAN, state : States \cup CatalogStates, continuing : BOOLEAN]

NoView == [native |-> FALSE, state |-> "none", continuing |-> FALSE]

-----------------------------------------------------------------------------
\* Variant: the catalog's intent wins over every recorded state.
OverlayIntentWins(row, file) ==
  IF file = NoRecord THEN [native |-> TRUE, state |-> row, continuing |-> FALSE]
  ELSE [native     |-> file.native,
        state      |-> IF row \in {"stopped", "failed"} THEN row ELSE file.state,
        continuing |-> file.continuing]

(***************************************************************************)
(* execution_record(): state.json overlays the catalog row, its native_id  *)
(* included.  Only a stopped state takes its state from the catalog.       *)
(***************************************************************************)
Overlay(row, file) ==
  IF file = NoRecord THEN [native |-> TRUE, state |-> row, continuing |-> FALSE]
  ELSE [native     |-> file.native,
        state      |-> IF file.state = "stopped" /\ row \in {"stopped", "failed"}
                       THEN row ELSE file.state,
        continuing |-> file.continuing]

\* Variant: a native failure has no entry in the table.
NativeIncomplete == [pending   |-> "queued",    running   |-> "running",
                     completed |-> "completed", failed    |-> "unknown",
                     cancelled |-> "stopped"]

\* _SLURM_STATES, with the exit code sacct reports of a completed job.
Native == [pending   |-> "queued",    running   |-> "running",
           completed |-> "completed", failed    |-> "failed",
           cancelled |-> "stopped"]

\* Variant: an allocation that exited 0 is taken for a success.
RefinedOptimistic(view) ==
  CASE view.state = "paused" -> IF view.continuing THEN "queued" ELSE "paused"
    [] view.state \in {"failed", "stopped"} -> view.state
    [] OTHER -> "completed"

\* Variant: a pause counts as final whether or not the chain goes on.
RefinedPauseFinal(view) ==
  IF view.state \in {"paused", "completed", "failed", "stopped"}
  THEN view.state ELSE "failed"

\* What the record says of an allocation that exited 0.
Refined(view) ==
  CASE view.state = "paused" -> IF view.continuing THEN "queued" ELSE "paused"
    [] view.state \in {"completed", "failed", "stopped"} -> view.state
    [] OTHER -> "failed"

Combined(view, native) ==
  LET status == IF native = "completed" THEN Refined(view) ELSE native
  IN  IF status = "stopped" /\ view.state \in {"stopped", "failed"}
      THEN view.state ELSE status

\* get_status(), given the record it read and what sacct answers now.
StatusOf(view) == IF view.native THEN Combined(view, Native[job]) ELSE view.state

\* What a get_status() with no step of anyone in between would return.
Status == StatusOf(Overlay(catalog, stateFile))

-----------------------------------------------------------------------------
(* stop() *)

StopRequest(mark) ==
  /\ caller = "idle"
  /\ stops < MaxStops
  /\ stops' = stops + 1
  /\ stopFile' = TRUE
  /\ caller' = "overlay"
  /\ intent' = mark
  /\ UNCHANGED <<slurmVars, recordVars, begun, linkVars, captured, pc, memoryVars,
                 payloadVars, historyVars, catalog, target, pollVars>>

StopOverlay ==
  /\ caller = "overlay"
  /\ target' = Overlay(catalog, stateFile).native
  /\ caller' = "save"
  /\ UNCHANGED <<vars, catalog, intent, stops, pollVars>>

StopSave ==
  /\ caller = "save"
  /\ catalog' = intent
  /\ caller' = IF target THEN "scancel" ELSE "idle"
  /\ UNCHANGED <<vars, intent, target, stops, pollVars>>

\* scancel of a job that is over, or already being ended, changes nothing.
StopScancel ==
  /\ caller = "scancel"
  /\ \/ Scancel
     \/ ~Cancellable /\ UNCHANGED vars
  /\ caller' = "idle"
  /\ UNCHANGED <<catalog, intent, target, stops, pollVars>>

\* A remote command fails, or the author's process ends.
StopAborts ==
  /\ caller \in {"overlay", "save", "scancel"}
  /\ caller' = "idle"
  /\ UNCHANGED <<vars, catalog, intent, target, stops, pollVars>>

-----------------------------------------------------------------------------
(* _wait_until_complete(), one get_status() per round *)

PollCatalog ==
  /\ poll = "catalog"
  /\ snapshot' = catalog
  /\ poll' = "state"
  /\ UNCHANGED <<vars, stopVars, seen, outcome>>

PollState ==
  /\ poll = "state"
  /\ seen' = Overlay(snapshot, stateFile)
  /\ poll' = "sacct"
  /\ UNCHANGED <<vars, stopVars, snapshot, outcome>>

Final == {"completed", "failed", "stopped", "paused"}

PollSacct ==
  /\ poll = "sacct"
  /\ IF StatusOf(seen) \in Final
     THEN outcome' = StatusOf(seen) /\ poll' = "returned"
     ELSE poll' = "catalog" /\ UNCHANGED outcome
  /\ snapshot' = "unknown"
  /\ seen' = NoView
  /\ UNCHANGED <<vars, stopVars>>

-----------------------------------------------------------------------------
UnitInit ==
  /\ Init
  /\ catalog = "unknown" /\ caller = "idle" /\ intent = "stopped"
  /\ target = FALSE /\ stops = 0
  /\ poll = "catalog" /\ snapshot = "unknown" /\ seen = NoView /\ outcome = "none"

StopStep ==
  \/ \E mark \in {"stopped", "failed"} : StopRequest(mark)
  \/ StopOverlay \/ StopSave \/ StopScancel \/ StopAborts

PollStep == PollCatalog \/ PollState \/ PollSacct

Elsewhere(step) == step /\ UNCHANGED <<stopVars, pollVars>>

ClusterStep == Elsewhere(DriverStep \/ PayloadStep \/ SlurmStep)

UnitNext == ClusterStep \/ StopStep \/ PollStep

UnitSpec == UnitInit /\ [][UnitNext]_unitVars

(***************************************************************************)
(* The driver runs, Slurm grants allocations, ends them at their walltime  *)
(* (which submission requires) with SIGTERM and notices exits, and the     *)
(* waiter polls.                                                           *)
(***************************************************************************)
UnitFairness ==
  /\ WF_unitVars(Elsewhere(DriverStep))
  /\ WF_unitVars(Elsewhere(Finish))
  /\ WF_unitVars(Elsewhere(Allocate))
  /\ WF_unitVars(Elsewhere(Terminate("timeout")))
  /\ WF_unitVars(Elsewhere(SigtermDriver))
  /\ WF_unitVars(PollStep)

UnitLiveSpec == UnitSpec /\ UnitFairness

-----------------------------------------------------------------------------
(* Properties. *)

\* Every variable holds a value its counterpart in the code can hold.
UnitTypeOK ==
  /\ TypeOK
  /\ catalog \in CatalogStates /\ snapshot \in CatalogStates
  /\ caller \in {"idle", "overlay", "save", "scancel"}
  /\ intent \in {"stopped", "failed"}
  /\ target \in BOOLEAN
  /\ stops \in 0 .. MaxStops
  /\ poll \in {"catalog", "state", "sacct", "returned"}
  /\ seen \in Views
  /\ outcome \in Final \cup {"none"}

(***************************************************************************)
(* A stop that comes too late does not rewrite history: a unit whose last  *)
(* attempt completed and whose job exited 0 is completed, whatever intent  *)
(* the catalog holds.                                                      *)
(***************************************************************************)
CompletedSurvivesStop ==
  stateFile.state = "completed" /\ job = "completed" => Status = "completed"

(***************************************************************************)
(* A waiter returns normally only if the unit really completed with all    *)
(* its outputs, although its three reads are taken at different times.     *)
(***************************************************************************)
CompletedIsTrue ==
  outcome = "completed" =>
    /\ stateFile.state = "completed"
    /\ captured[stateFile.attempt] = Outputs
    /\ job = "completed"

(***************************************************************************)
(* A waiter told "paused" is told of a chain that is over: the attempt     *)
(* paused, its checkpoint is retained and nothing is scheduled.  Stated    *)
(* for a unit Slurm never preempted: a preempted driver records a pause    *)
(* that is not continuing, and yet Slurm itself restarts the job.          *)
(***************************************************************************)
PausedIsOver ==
  outcome = "paused" /\ faults = 0 =>
    /\ stateFile.state = "paused"
    /\ Checkpoint \in captured[stateFile.attempt]
    /\ job = "completed"

(***************************************************************************)
(* wait_until_complete() of a unit that nobody stops and no fault befalls  *)
(* returns, whatever the worker does.                                      *)
(***************************************************************************)
WaiterReturns == <>(outcome # "none")

-----------------------------------------------------------------------------
(* Statements of the repository's documents that the code does not keep. *)

(***************************************************************************)
(* docs/inspection.md: failed outcomes raise, wait_until_complete() waits  *)
(* for a terminal outcome.  So the waiter does not report a failure of a   *)
(* unit whose attempt completed and whose job exited 0.                    *)
(***************************************************************************)
FailedIsTrue ==
  outcome = "failed" => ~(stateFile.state = "completed" /\ job = "completed")

(***************************************************************************)
(* xm/core.py: mark_as_failed marks the unit as failed rather than         *)
(* stopped.  Here the call of stop() saved that intent and has ended, and  *)
(* the job was cancelled while the chain waited for its next allocation.   *)
(***************************************************************************)
MarkedFailedIsFailed ==
  /\ catalog = "failed" /\ caller = "idle"
  /\ job = "cancelled" /\ stateFile.continuing
  => Status = "failed"

(***************************************************************************)
(* docs/inspection.md: Slurm status queries native accounting.  So a unit  *)
(* whose native job is over is not reported as queued.                     *)
(***************************************************************************)
QueuedIsAlive == job \in Terminal => Status # "queued"

(***************************************************************************)
(* docs/inspection.md: a managed continuation is stopped as a whole and    *)
(* cannot schedule another attempt.  So a unit that was stopped, and whose *)
(* job exited, is not reported as queued for ever.                         *)
(***************************************************************************)
StoppedIsNotQueued ==
  catalog # "unknown" /\ caller = "idle" /\ job = "completed" => Status # "queued"

=============================================================================
