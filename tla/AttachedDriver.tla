--------------------------- MODULE AttachedDriver ---------------------------
(***************************************************************************)
(* A managed unit in attached mode (Slurm executor, mode = "salloc").  A   *)
(* supervisor on the login node (execution/continuation.py, `attached`)    *)
(* runs one salloc per attempt; in each allocation srun starts a worker,   *)
(* the `attempt` command of the same file.  The worker and its payload are *)
(* those of BatchDriver, and the two drivers share state.json: nothing but *)
(* the order of their steps keeps them from overwriting each other.        *)
(***************************************************************************)
EXTENDS BatchDriver

VARIABLES
  sup,           \* the supervisor's next step, "off" when it is gone
  supState,      \* its variable `state`
  supAfter,      \* the step that follows the pending record()
  supCancelled,  \* its Driver.cancelled
  outcome,       \* how it ended: "none", "zero", "one" or "raised"
  salloc,        \* its salloc process: "none", "pending", "granted", "exited"
  sallocCode     \* the exit code of that process

supVars    == <<sup, supState, supAfter, supCancelled, outcome>>
sallocVars == <<salloc, sallocCode>>

attachedVars == <<vars, supVars, sallocVars>>

\* What the worker and its payload leave alone.
supervisorUnchanged == UNCHANGED <<supVars, sallocVars>>

\* What the supervisor leaves alone in the allocation and its processes.
workerUnchanged ==
  UNCHANGED <<requeued, linkVars, captured, pc, memoryVars, payloadVars, historyVars>>

AttachedInit ==
  /\ job = "none" /\ ending = "none" /\ requeued = FALSE /\ faults = 0
  /\ stateFile = NoRecord
  /\ receipts = [n \in Attempts |-> NoRecord]
  /\ begun = {} /\ stopFile = FALSE /\ requested = {} /\ marked = {}
  /\ captured = [n \in Attempts |-> {}]
  /\ pc = "off" /\ state = NoRecord /\ after = "exit"
  /\ cancelled = FALSE /\ pause = FALSE /\ code = 0
  /\ payload = NoPayload /\ written = {}
  /\ launches = [n \in Attempts |-> 0] /\ clean = {} /\ lateStarts = 0
  /\ sup = "start" /\ supState = NoRecord /\ supAfter = "loop"
  /\ supCancelled = FALSE /\ outcome = "none"
  /\ salloc = "none" /\ sallocCode = 0

-----------------------------------------------------------------------------
(* The supervisor. *)

supStopped == supCancelled \/ stopFile

\* The process is over, and its memory with it.
SupReturn(how) ==
  /\ sup' = "off" /\ outcome' = how
  /\ supState' = NoRecord /\ supAfter' = "loop" /\ supCancelled' = FALSE

SupRecord(new, next) ==
  /\ supState' = new
  /\ supAfter' = next
  /\ sup' = "receipt"
  /\ UNCHANGED <<supCancelled, outcome>>

\* Variant: the supervisor continues from whatever state.json says.
SupResumes ==
  /\ sup = "start"
  /\ sup' = "loop"
  /\ supState' = stateFile
  /\ UNCHANGED <<supAfter, supCancelled, outcome, slurmVars, recordVars, begun,
                 stopFile, sallocVars>>
  /\ workerUnchanged

\* "Attached driver has already run; refusing to replay it".
SupStart ==
  /\ sup = "start"
  /\ IF stateFile # NoRecord
     THEN SupReturn("raised")
     ELSE sup' = "loop" /\ supState' = NoRecord /\ UNCHANGED <<supAfter, supCancelled, outcome>>
  /\ UNCHANGED <<slurmVars, recordVars, begun, stopFile, sallocVars>>
  /\ workerUnchanged

\* The head of the loop: return, or begin() the first or the next attempt.
SupBegin ==
  /\ sup = "loop"
  /\ LET new == Queued(supState)
     IN  CASE supStopped -> SupReturn("one") /\ UNCHANGED begun
           [] ~supStopped /\ new.attempt \in begun -> SupReturn("raised") /\ UNCHANGED begun
           [] OTHER -> begun' = begun \cup {new.attempt} /\ SupRecord(new, "spawn")
  /\ UNCHANGED <<slurmVars, recordVars, stopFile, sallocVars>>
  /\ workerUnchanged

SupReceipt ==
  /\ sup = "receipt"
  /\ receipts' = [receipts EXCEPT ![supState.attempt] = supState]
  /\ sup' = "state"
  /\ UNCHANGED <<supState, supAfter, supCancelled, outcome, slurmVars, stateFile,
                 begun, stopFile, sallocVars>>
  /\ workerUnchanged

SupWrite ==
  /\ sup = "state"
  /\ stateFile' = supState
  /\ IF supAfter = "off" THEN SupReturn("one")
     ELSE sup' = supAfter /\ UNCHANGED <<supState, supAfter, supCancelled, outcome>>
  /\ UNCHANGED <<slurmVars, receipts, begun, stopFile, sallocVars>>
  /\ workerUnchanged

(***************************************************************************)
(* Start salloc in a session of its own.  A worker that has recorded its   *)
(* last word only has its exit left, which is taken to come first.         *)
(***************************************************************************)
SupSpawn ==
  /\ sup = "spawn" /\ pc = "off"
  /\ \/ /\ sup' = "wait" /\ salloc' = "pending" /\ job' = "pending" /\ ending' = "none"
        /\ UNCHANGED <<supState, supAfter, supCancelled, outcome>>
     \/ SupReturn("raised") /\ UNCHANGED <<salloc, job, ending>>
  /\ UNCHANGED <<faults, recordVars, begun, stopFile, sallocCode>>
  /\ workerUnchanged

\* wait(): touch the stop file and hang up the process group of salloc.
SupHangUp ==
  /\ sup = "wait"
  /\ supStopped
  /\ stopFile' = TRUE
  /\ sup' = "hup"
  /\ UNCHANGED <<supState, supAfter, supCancelled, outcome, slurmVars, recordVars,
                 begun, sallocVars>>
  /\ workerUnchanged

(***************************************************************************)
(* salloc ends by the hang-up, by the SIGKILL ten seconds later, or since  *)
(* Slurm ends the allocation.  It releases what it has, but neither it nor *)
(* the supervisor waits for the worker's processes to be gone, and its     *)
(* exit code may be zero all the same.                                     *)
(***************************************************************************)
SallocEnds ==
  /\ salloc \in {"pending", "granted"}
  /\ sup = "hup" \/ ending # "none"
  /\ salloc' = "exited"
  /\ sallocCode' \in {0, 1}
  /\ IF job = "pending" THEN job' = "none" /\ UNCHANGED ending
     ELSE ending' \in {ending, "cancel"} /\ UNCHANGED job
  /\ UNCHANGED <<supVars, faults, recordVars, begun, stopFile>>
  /\ workerUnchanged

SupWaitExit ==
  /\ sup \in {"wait", "hup"}
  /\ salloc = "exited"
  /\ sup' = "look"
  /\ UNCHANGED <<supState, supAfter, supCancelled, outcome, slurmVars, recordVars,
                 begun, stopFile, sallocVars>>
  /\ workerUnchanged

SupRead ==
  /\ sup = "look"
  /\ supState' = stateFile
  /\ sup' = "judge"
  /\ UNCHANGED <<supAfter, supCancelled, outcome, slurmVars, recordVars, begun,
                 stopFile, sallocVars>>
  /\ workerUnchanged

\* Variant: salloc's exit code alone says that the attempt succeeded.
SucceededByCode(record) == sallocCode = 0

\* "salloc can return zero on signals; require the worker's own receipt."
Succeeded(record) == sallocCode = 0 /\ record.state \in {"completed", "paused"}

SupJudge ==
  /\ sup = "judge"
  /\ CASE supStopped -> SupRecord([supState EXCEPT !.state = "stopped"], "off")
       [] ~supStopped /\ ~Succeeded(supState) ->
            SupRecord([supState EXCEPT !.state = "failed"], "off")
       [] OTHER -> sup' = "next" /\ UNCHANGED <<supState, supAfter, supCancelled, outcome>>
  /\ UNCHANGED <<slurmVars, recordVars, begun, stopFile, sallocVars>>
  /\ workerUnchanged

\* Variant: every attempt that succeeded is followed by another.
SupContinues(record) == record.attempt < MaxAttempts /\ ~supStopped

supCanContinue(record) ==
  record.state = "paused" /\ record.attempt < MaxAttempts /\ ~supStopped

SupNext ==
  /\ sup = "next"
  /\ IF supCanContinue(supState)
     THEN sup' = "loop" /\ UNCHANGED <<supState, supAfter, supCancelled, outcome>>
     ELSE SupReturn("zero")
  /\ UNCHANGED <<slurmVars, recordVars, begun, stopFile, sallocVars>>
  /\ workerUnchanged

-----------------------------------------------------------------------------
(* The worker: the `attempt` command, and Slurm around it. *)

Latest == CHOOSE n \in begun : \A m \in begun : m <= n

\* salloc gets its allocation and srun starts `attempt <number>` in it.
Grant ==
  /\ salloc = "pending" /\ job = "pending"
  /\ salloc' = "granted" /\ job' = "running"
  /\ pc' = "attempt"
  /\ state' = [NoRecord EXCEPT !.attempt = Latest]
  /\ UNCHANGED <<supVars, sallocCode, ending, requeued, faults, recordVars, begun, stopFile,
                 linkVars, captured, after, cancelled, pause, code, payloadVars, historyVars>>

\* Slurm or salloc gives up before the allocation is granted.
Refuse ==
  /\ salloc = "pending"
  /\ salloc' = "exited" /\ sallocCode' \in {0, 1} /\ job' = "none"
  /\ UNCHANGED <<supVars, ending, faults, recordVars, begun, stopFile>>
  /\ workerUnchanged

\* "Attempt has already started; refusing to replay it".
WorkerRefuse ==
  /\ pc = "attempt"
  /\ ~Startable(stateFile, state.attempt)
  /\ Exit(1)
  /\ UNCHANGED <<slurmVars, recordVars, begun, stopFile, linkVars, captured,
                 cancelled, pause, payloadVars, historyVars>>

WorkerReturn ==
  /\ pc = "requeue"
  /\ Exit(IF state.state \in {"completed", "paused"} THEN 0 ELSE 1)
  /\ UNCHANGED <<slurmVars, recordVars, begun, stopFile, linkVars, captured,
                 cancelled, pause, payloadVars, historyVars>>

\* The worker is gone, and with it the step, salloc and the allocation.
WorkerEnds(codes) ==
  /\ job' = "none"
  /\ DriverGone
  /\ IF salloc = "granted"
     THEN salloc' = "exited" /\ sallocCode' \in codes
     ELSE UNCHANGED sallocVars

WorkerGone ==
  /\ pc = "exit"
  /\ WorkerEnds({code})
  /\ UNCHANGED <<faults, supVars>>

\* Slurm sends no SIGUSR1 to a step of salloc; the worker watches the clock itself.
Deadline == pc = "wait" /\ PauseSignal

\* Node failure, or SIGKILL at the end of the grace period.
WorkerKill ==
  /\ pc # "off"
  /\ faults < MaxFaults
  /\ faults' = faults + 1
  /\ WorkerEnds({0, 1})
  /\ UNCHANGED supVars

-----------------------------------------------------------------------------
(* The supervisor's surroundings. *)

\* The ssh session hangs up, or somebody interrupts the supervisor.
SupSignal ==
  /\ sup # "off"
  /\ ~supCancelled
  /\ supCancelled' = TRUE
  /\ UNCHANGED <<sup, supState, supAfter, outcome, slurmVars, recordVars, begun,
                 stopFile, sallocVars>>
  /\ workerUnchanged

\* It dies without a word; salloc is in a session of its own and lives on.
SupKill ==
  /\ sup # "off"
  /\ faults < MaxFaults
  /\ faults' = faults + 1
  /\ SupReturn("raised")
  /\ UNCHANGED <<job, ending, recordVars, begun, stopFile, sallocVars>>
  /\ workerUnchanged

\* Its command is run again; driver.lock keeps two of them from running at once.
SupRestart ==
  /\ sup = "off"
  /\ faults < MaxFaults
  /\ faults' = faults + 1
  /\ sup' = "start" /\ outcome' = "none"
  /\ UNCHANGED <<supState, supAfter, supCancelled, job, ending, recordVars, begun, stopFile, sallocVars>>
  /\ workerUnchanged

SupStep ==
  \/ SupStart \/ SupBegin \/ SupReceipt \/ SupWrite \/ SupSpawn \/ SupHangUp
  \/ SupWaitExit \/ SupRead \/ SupJudge \/ SupNext

WorkerStep ==
  /\ \/ WorkerRefuse \/ AttemptCancelled \/ AttemptStart \/ Spawn \/ SpawnRaises
     \/ WaitRequest \/ WaitStop \/ WaitExit \/ Judge \/ Seal
     \/ WriteReceipt \/ WriteState \/ WorkerReturn
  /\ supervisorUnchanged

AttachedNext ==
  \/ SupStep \/ SupSignal \/ SupKill \/ SupRestart
  \/ Grant \/ Refuse \/ SallocEnds \/ WorkerStep \/ WorkerGone \/ WorkerKill
  \/ supervisorUnchanged /\
       \/ PayloadStep \/ Deadline \/ SigtermDriver \/ SigtermPayload \/ TouchStop
       \/ Terminate("cancel")  \* the walltime, a preemption or scancel

AttachedSpec == AttachedInit /\ [][AttachedNext]_attachedVars

(***************************************************************************)
(* Both drivers are scheduled, and salloc ends when it is told to: ten     *)
(* seconds after the hang-up the supervisor kills it.                      *)
(***************************************************************************)
AttachedLiveSpec ==
  AttachedSpec /\ WF_attachedVars(SupStep) /\ WF_attachedVars(WorkerStep)
               /\ WF_attachedVars(SallocEnds) /\ WF_attachedVars(WorkerGone)

-----------------------------------------------------------------------------
(* Properties.  AtMostOnce and VerifiedResume of BatchDriver hold here too. *)

(***************************************************************************)
(* The supervisor reports success only for a receipt that the worker wrote *)
(* itself after its payload exited 0: every output of a completed unit, or *)
(* the checkpoint of a pause, is retained.                                 *)
(***************************************************************************)
SuccessIsEarned ==
  outcome = "zero" =>
    /\ stateFile.attempt \in clean
    /\ IF stateFile.state = "paused" THEN Checkpoint \in captured[stateFile.attempt]
       ELSE stateFile.state = "completed" /\ captured[stateFile.attempt] = Outputs

(***************************************************************************)
(* The next attempt begins only when the payload before it is gone: one    *)
(* unit never has two payloads, whatever salloc's exit said.               *)
(***************************************************************************)
SuccessorWaits == [][begun' # begun => ~PayloadRuns /\ payload.phase # "exited"]_attachedVars

(***************************************************************************)
(* When the supervisor returned a verdict and no worker is left, nothing   *)
(* reads as queued or running any more, although a worker that outlives    *)
(* its salloc may write state.json after the supervisor's last word.  Only *)
(* a worker killed after such a write leaves the unit running for ever.    *)
(***************************************************************************)
VerdictIsSettled ==
  outcome \in {"zero", "one"} /\ pc = "off" /\ stateFile # NoRecord /\ faults = 0 =>
    stateFile.state \in Settled

(***************************************************************************)
(* The stop file ends both drivers and the payload for good, granted or    *)
(* pending, with or without salloc's cooperation, and a supervisor that is *)
(* run again ends too.  A signal to the supervisor becomes the stop file   *)
(* while salloc holds or awaits an allocation, so that it ends them all,   *)
(* unless the supervisor is killed first; when salloc has exited already   *)
(* the signal ends the supervisor alone, and what may be left of the       *)
(* worker is Slurm's to end with the allocation.                           *)
(***************************************************************************)
AllOver == sup = "off" /\ pc = "off" /\ ~PayloadRuns

StopEndsAttached ==
  /\ stopFile ~> []AllOver
  /\ supCancelled ~> \/ stopFile
                     \/ sup = "off" /\ (outcome = "raised" \/ salloc \in {"none", "exited"})

\* The supervisor is gone, about to be, or will refuse to go on.
Closed ==
  stateFile # NoRecord /\
    (sup \in {"off", "start"} \/ (sup \in {"receipt", "state"} /\ supAfter = "off"))

(***************************************************************************)
(* state.json, launches and checkpoints are a chain that its supervisor    *)
(* closes: until then whoever writes state.json takes the next step of the *)
(* one chain, and from then on no attempt is begun and no payload is       *)
(* started again, whatever the two still write over each other.            *)
(***************************************************************************)
Supervised == INSTANCE SupervisedChain WITH
  attempt  <- stateFile.attempt,
  phase    <- stateFile.state,
  retained <- {n \in Attempts : Checkpoint \in captured[n]},
  closed   <- Closed

ImplementsSupervised == Supervised!SupervisedSpec

=============================================================================
