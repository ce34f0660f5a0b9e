---------------------------- MODULE BatchDriver ----------------------------
(***************************************************************************)
(* One managed Slurm job in batch mode: the driver that Slurm starts in    *)
(* every allocation (execution/continuation.py, `batch` and `attempt`),    *)
(* the payload script it runs (job_script_builder.py, artifact_io.py), the *)
(* files the two share on the cluster, and the scheduler around them.      *)
(*                                                                         *)
(* The driver runs one attempt per allocation and asks Slurm to requeue    *)
(* the job when the attempt paused.  It keeps no memory across             *)
(* allocations: what a later driver knows is state.json, the attempt       *)
(* directories and the stop file.  The driver can be killed between any    *)
(* two of its steps, and Slurm can start it again when nobody asked.       *)
(***************************************************************************)
EXTENDS Naturals, FiniteSets

CONSTANTS
  MaxAttempts,  \* Continuation.max_attempts, the first attempt included
  Outputs,      \* names of the declared outputs of the work unit
  Checkpoint,   \* Continuation.checkpoint, one of the outputs
  MaxFaults     \* bound on killed drivers and preemptions, for model checking

ASSUME DriverAssumption ==
  /\ MaxAttempts \in Nat \ {0}
  /\ Checkpoint \in Outputs
  /\ MaxFaults \in Nat

VARIABLES
  \* Slurm
  job,        \* scheduler state of the job
  ending,     \* why Slurm is terminating the allocation, or "none"
  requeued,   \* Slurm accepted a requeue of the running job
  faults,     \* node failures and preemptions so far
  \* files in the execution directory
  stateFile,  \* state.json
  receipts,   \* receipts[n]: attempts/<n>/record.json
  begun,      \* the n for which the directory attempts/<n> exists
  stopFile,   \* the file `stop` exists
  requested,  \* the attempts that hold a file pause-request
  marked,     \* the attempts that hold a file paused
  captured,   \* captured[n]: names in the manifest.json of attempt n
  \* the driver process
  pc,         \* its next step, "off" when there is no process
  state,      \* its variable `state`
  after,      \* the step that follows the pending record()
  cancelled,  \* Driver.cancelled, set by SIGTERM
  pause,      \* Driver.pause, set by SIGUSR1, or the deadline has passed
  code,       \* the driver's exit code, when pc = "exit"
  \* the payload process
  payload,    \* its phase and exit code
  written,    \* the outputs present in EXEX_OUTPUT_DIR
  \* history, read by properties alone
  launches,   \* launches[n]: how often the payload of attempt n was started
  clean,      \* the attempts whose payload exited 0
  lateStarts  \* payloads started while the stop file existed

slurmVars   == <<job, ending, requeued, faults>>
recordVars  == <<stateFile, receipts>>
linkVars    == <<requested, marked>>
memoryVars  == <<state, after, cancelled, pause, code>>
payloadVars == <<payload, written>>
historyVars == <<launches, clean, lateStarts>>

vars == <<slurmVars, recordVars, begun, stopFile, linkVars, captured,
          pc, memoryVars, payloadVars, historyVars>>

-----------------------------------------------------------------------------
Attempts == 1 .. MaxAttempts

States == {"none", "queued", "running",
           "paused", "completed", "failed", "stopped"}

(***************************************************************************)
(* The JSON state object.  `native` says whether native_id is set;         *)
(* `artifacts` is the attempt whose artifact directory it names.  The      *)
(* message, the times and the log path only inform a reader.               *)
(***************************************************************************)
Records == [attempt    : 0 .. MaxAttempts,
            native     : BOOLEAN,
            state      : States,
            artifacts  : 0 .. MaxAttempts,
            continuing : BOOLEAN]

\* No file yet: read() returns None.
NoRecord == [attempt |-> 0, native |-> FALSE, state |-> "none",
             artifacts |-> 0, continuing |-> FALSE]

NoPayload == [phase |-> "none", code |-> 0]

PayloadPhases == {"none", "prepare", "work", "capture", "published", "exited"}

PayloadRuns == payload.phase \in {"prepare", "work", "capture", "published"}

Steps == {"off", "batch", "receipt", "state", "attempt", "spawn",
          "wait", "judge", "seal", "requeue", "exit"}

Terminal == {"completed", "failed", "cancelled"}

-----------------------------------------------------------------------------
(* Predicates and helpers of class Driver. *)

\* Variant: the driver trusts its signal flag and never looks for the file.
stoppedBySignal == cancelled

stopped == cancelled \/ stopFile

\* Variant: the budget is compared with <=.
can_continueOneMore(record) ==
  /\ record.state = "paused"
  /\ record.attempt <= MaxAttempts
  /\ ~stopped

\* Variant: any attempt that has not completed may be continued.
can_continueUnverified(record) ==
  /\ record.state # "completed"
  /\ record.attempt < MaxAttempts
  /\ ~stopped

can_continue(record) ==
  /\ record.state = "paused"
  /\ record.attempt < MaxAttempts
  /\ ~stopped

\* The successor record that begin() writes.
Queued(previous) ==
  [attempt    |-> previous.attempt + 1,
   native     |-> FALSE,
   state      |-> "queued",
   artifacts  |-> IF previous = NoRecord THEN 1 ELSE previous.artifacts,
   continuing |-> FALSE]

\* Variant: record() forgets the attempt's own receipt.
RecordStateOnly(new, next) ==
  /\ state' = new
  /\ after' = next
  /\ pc' = "state"

\* record() is two renames, receipt first: see WriteReceipt and WriteState.
Record(new, next) ==
  /\ state' = new
  /\ after' = next
  /\ pc' = "receipt"

Exit(status) ==
  /\ pc' = "exit"
  /\ code' = status
  /\ UNCHANGED <<state, after>>


Init ==
  /\ job = "pending" /\ ending = "none" /\ requeued = FALSE /\ faults = 0
  /\ stateFile = NoRecord
  /\ receipts = [n \in Attempts |-> NoRecord]
  /\ begun = {} /\ stopFile = FALSE /\ requested = {} /\ marked = {}
  /\ captured = [n \in Attempts |-> {}]
  /\ pc = "off" /\ state = NoRecord /\ after = "exit"
  /\ cancelled = FALSE /\ pause = FALSE /\ code = 0
  /\ payload = NoPayload /\ written = {}
  /\ launches = [n \in Attempts |-> 0]
  /\ clean = {}
  /\ lateStarts = 0

-----------------------------------------------------------------------------
(* The driver: batch(). *)

\* Stopped, or a scheduler restart with no verified, budgeted pause.
BatchRefuse ==
  /\ pc = "batch"
  /\ \/ stopped
     \/ stateFile # NoRecord /\ ~can_continue(stateFile)
  /\ Exit(1)
  /\ UNCHANGED <<slurmVars, recordVars, begun, stopFile, linkVars, captured,
                 cancelled, pause, payloadVars, historyVars>>

(***************************************************************************)
(* begin(): mkdir without exist_ok, so a directory left by a driver killed *)
(* before it wrote state.json raises FileExistsError and is never reused.  *)
(***************************************************************************)
BatchBegin ==
  /\ pc = "batch"
  /\ ~stopped
  /\ stateFile = NoRecord \/ can_continue(stateFile)
  /\ LET new == Queued(stateFile)
     IN  IF new.attempt \in begun
         THEN Exit(1) /\ UNCHANGED begun
         ELSE /\ begun' = begun \cup {new.attempt}
              /\ Record(new, "attempt")
              /\ UNCHANGED code
  /\ UNCHANGED <<slurmVars, recordVars, stopFile, linkVars, captured,
                 cancelled, pause, payloadVars, historyVars>>

WriteReceipt ==
  /\ pc = "receipt"
  /\ receipts' = [receipts EXCEPT ![state.attempt] = state]
  /\ pc' = "state"
  /\ UNCHANGED <<slurmVars, stateFile, begun, stopFile, linkVars, captured,
                 memoryVars, payloadVars, historyVars>>

WriteState ==
  /\ pc = "state"
  /\ stateFile' = state
  /\ pc' = after
  /\ UNCHANGED <<slurmVars, receipts, begun, stopFile, linkVars, captured,
                 memoryVars, payloadVars, historyVars>>

(***************************************************************************)
(* Ask Slurm for another allocation.  A nonzero scontrol fails the attempt *)
(* even when Slurm accepted the request and only its reply was lost.       *)
(***************************************************************************)
Requeue ==
  /\ pc = "requeue"
  /\ can_continue(state)
  /\ requeued' = TRUE
  /\ Exit(0)
  /\ UNCHANGED <<job, ending, faults, recordVars, begun, stopFile, linkVars,
                 captured, cancelled, pause, payloadVars, historyVars>>

RequeueFails(accepted) ==
  /\ pc = "requeue"
  /\ can_continue(state)
  /\ requeued' = accepted
  /\ Record([state EXCEPT !.state = "failed", !.continuing = FALSE], "exit")
  /\ code' = 1
  /\ UNCHANGED <<job, ending, faults, recordVars, begun, stopFile, linkVars,
                 captured, cancelled, pause, payloadVars, historyVars>>

BatchReturn ==
  /\ pc = "requeue"
  /\ ~can_continue(state)
  /\ Exit(IF state.state \in {"completed", "paused"} THEN 0 ELSE 1)
  /\ UNCHANGED <<slurmVars, recordVars, begun, stopFile, linkVars, captured,
                 cancelled, pause, payloadVars, historyVars>>

-----------------------------------------------------------------------------
(* The driver: attempt() and wait(). *)

\* Another driver's attempt, or one that has started, is never replayed.
Startable(record, number) ==
  record.attempt = number /\ record.state = "queued"

AttemptCancelled ==
  /\ pc = "attempt"
  /\ Startable(stateFile, state.attempt)
  /\ stopped
  /\ Record([stateFile EXCEPT !.state = "stopped"], "requeue")
  /\ UNCHANGED <<slurmVars, recordVars, begun, stopFile, linkVars, captured,
                 cancelled, pause, code, payloadVars, historyVars>>

AttemptStart ==
  /\ pc = "attempt"
  /\ Startable(stateFile, state.attempt)
  /\ ~stopped
  /\ Record([stateFile EXCEPT !.state = "running", !.native = TRUE], "spawn")
  /\ UNCHANGED <<slurmVars, recordVars, begun, stopFile, linkVars, captured,
                 cancelled, pause, code, payloadVars, historyVars>>

\* inputs(): the checkpoint of the previous attempt can be resolved.
InputsResolve(number) ==
  number > 1 => Checkpoint \in captured[number - 1]

\* Variant: the pause flag is cleared when the payload starts.
SpawnForgetsPause ==
  /\ pc = "spawn"
  /\ InputsResolve(state.attempt)
  /\ payload' = [phase |-> "prepare", code |-> 0]
  /\ launches' = [launches EXCEPT ![state.attempt] = @ + 1]
  /\ lateStarts' = IF stopFile THEN lateStarts + 1 ELSE lateStarts
  /\ pc' = "wait"
  /\ pause' = FALSE
  /\ UNCHANGED <<slurmVars, recordVars, begun, stopFile, linkVars, captured,
                 state, after, cancelled, code, written, clean>>

Spawn ==
  /\ pc = "spawn"
  /\ InputsResolve(state.attempt)
  /\ payload' = [phase |-> "prepare", code |-> 0]
  /\ launches' = [launches EXCEPT ![state.attempt] = @ + 1]
  /\ lateStarts' = IF stopFile THEN lateStarts + 1 ELSE lateStarts
  /\ pc' = "wait"
  /\ UNCHANGED <<slurmVars, recordVars, begun, stopFile, linkVars, captured,
                 memoryVars, written, clean>>

\* deadline(), the log file, inputs() or Popen raises.
SpawnRaises ==
  /\ pc = "spawn"
  /\ state' = [state EXCEPT !.state = "failed"]
  /\ pc' = "seal"
  /\ UNCHANGED <<slurmVars, recordVars, begun, stopFile, linkVars, captured,
                 after, cancelled, pause, code, payloadVars, historyVars>>

WaitRequest ==
  /\ pc = "wait"
  /\ ~stopped
  /\ pause
  /\ state.attempt \notin requested
  /\ requested' = requested \cup {state.attempt}
  /\ UNCHANGED <<slurmVars, recordVars, begun, stopFile, marked, captured,
                 pc, memoryVars, payloadVars, historyVars>>

\* Variant: wait() reacts to signals only, not to the author's stop file.
WaitStopOnSignal ==
  /\ pc = "wait"
  /\ cancelled
  /\ stopFile' = TRUE
  /\ payload' = IF PayloadRuns THEN [phase |-> "exited", code |-> 1] ELSE payload
  /\ pc' = "judge"
  /\ UNCHANGED <<slurmVars, recordVars, begun, linkVars, captured,
                 memoryVars, written, historyVars>>

(***************************************************************************)
(* The stop branch of wait(): touch the stop file and end the payload's    *)
(* process group.  The payload may have exited since it was polled; its    *)
(* own exit code then stands.                                              *)
(***************************************************************************)
WaitStop ==
  /\ pc = "wait"
  /\ stopped
  /\ stopFile' = TRUE
  /\ payload' = IF PayloadRuns THEN [phase |-> "exited", code |-> 1] ELSE payload
  /\ pc' = "judge"
  /\ UNCHANGED <<slurmVars, recordVars, begun, linkVars, captured,
                 memoryVars, written, historyVars>>

WaitExit ==
  /\ pc = "wait"
  /\ payload.phase = "exited"
  /\ pc' = "judge"
  /\ UNCHANGED <<slurmVars, recordVars, begun, stopFile, linkVars, captured,
                 memoryVars, payloadVars, historyVars>>

\* Variant: the pause marker overrides the exit code.
VerdictByMarker ==
  IF stopped THEN "stopped"
  ELSE IF state.attempt \in marked THEN "paused"
  ELSE IF payload.code # 0 THEN "failed" ELSE "completed"

Verdict ==
  IF stopped THEN "stopped"
  ELSE IF payload.code # 0 THEN "failed"
  ELSE IF state.attempt \in marked THEN "paused" ELSE "completed"

\* Variant: a payload that failed is started again in the same attempt.
JudgeRetries ==
  /\ pc = "judge"
  /\ IF Verdict = "failed"
     THEN pc' = "spawn" /\ UNCHANGED state
     ELSE pc' = "seal" /\ state' = [state EXCEPT !.state = Verdict]
  /\ UNCHANGED <<slurmVars, recordVars, begun, stopFile, linkVars, captured,
                 after, cancelled, pause, code, payloadVars, historyVars>>

Judge ==
  /\ pc = "judge"
  /\ state' = [state EXCEPT !.state = Verdict]
  /\ pc' = "seal"
  /\ UNCHANGED <<slurmVars, recordVars, begun, stopFile, linkVars, captured,
                 after, cancelled, pause, code, payloadVars, historyVars>>

\* Variant: the artifact directory always follows the attempt.
RetainedByLatest(record) == record.attempt

\* The artifact directory moves to this attempt only if it has a manifest.
RetainedBy(record) ==
  IF captured[record.attempt] # {} THEN record.attempt ELSE record.artifacts

\* The finally clause of attempt().
Seal ==
  /\ pc = "seal"
  /\ Record([state EXCEPT !.artifacts = RetainedBy(state),
                          !.continuing = can_continue(state)], "requeue")
  /\ payload' = NoPayload
  /\ written' = {}
  /\ UNCHANGED <<slurmVars, recordVars, begun, stopFile, linkVars, captured,
                 cancelled, pause, code, historyVars>>

-----------------------------------------------------------------------------
(***************************************************************************)
(* The payload script: prepare the inputs, run the application, capture.   *)
(* Under `set -e` every failing command ends the script.                   *)
(***************************************************************************)

PayloadExits(status) ==
  /\ payload' = [phase |-> "exited", code |-> status]
  /\ clean' = IF status = 0 THEN clean \cup {state.attempt} ELSE clean

payloadUnchanged ==
  UNCHANGED <<slurmVars, recordVars, begun, stopFile, requested,
              pc, memoryVars, launches, lateStarts>>

\* artifact_io.prepare(): a corrupt or unreadable archive is refused.
Prepare ==
  /\ payload.phase = "prepare"
  /\ \/ /\ payload' = [payload EXCEPT !.phase = "work"]
        /\ UNCHANGED clean
     \/ PayloadExits(1)
  /\ UNCHANGED <<marked, captured, written>>
  /\ payloadUnchanged

\* The application saves one of its outputs.
SaveOutput(name) ==
  /\ payload.phase = "work"
  /\ name \notin written
  /\ written' = written \cup {name}
  /\ UNCHANGED <<marked, captured, payload, clean>>
  /\ payloadUnchanged

\* execution.mark_paused(): nothing in it checks for a request or a checkpoint.
MarkPaused ==
  /\ payload.phase = "work"
  /\ marked' = marked \cup {state.attempt}
  /\ UNCHANGED <<captured, payloadVars, clean>>
  /\ payloadUnchanged

\* The entrypoint returns; the script goes on to capture only after success.
EntrypointReturns ==
  /\ payload.phase = "work"
  /\ \/ /\ payload' = [payload EXCEPT !.phase = "capture"]
        /\ UNCHANGED clean
     \/ PayloadExits(1)
  /\ UNCHANGED <<marked, captured, written>>
  /\ payloadUnchanged

\* Variant: only the checkpoint is ever captured.
RequiredCheckpoint(number) == {Checkpoint}

\* What the script captures: the checkpoint of a pause, else every output.
Required(number) == IF number \in marked THEN {Checkpoint} ELSE Outputs

(***************************************************************************)
(* artifact_io.capture(): archive every required output in a staging       *)
(* directory, then publish the set by one rename, which fails on a         *)
(* destination that already has files.                                     *)
(***************************************************************************)
Capture ==
  /\ payload.phase = "capture"
  /\ Required(state.attempt) \subseteq written
  /\ captured[state.attempt] = {}
  /\ captured' = [captured EXCEPT ![state.attempt] = Required(state.attempt)]
  /\ payload' = [payload EXCEPT !.phase = "published"]
  /\ UNCHANGED <<marked, written, clean>>
  /\ payloadUnchanged

\* A required output is missing or cannot be archived.
CaptureFails ==
  /\ payload.phase = "capture"
  /\ PayloadExits(1)
  /\ UNCHANGED <<marked, captured, written>>
  /\ payloadUnchanged

PayloadReturns ==
  /\ payload.phase = "published"
  /\ PayloadExits(0)
  /\ UNCHANGED <<marked, captured, written>>
  /\ payloadUnchanged

-----------------------------------------------------------------------------
(* Slurm, as the generated script and the driver use it. *)

\* An allocation is granted; the batch script execs a fresh driver.
Allocate ==
  /\ job = "pending"
  /\ job' = "running"
  /\ pc' = "batch"
  /\ UNCHANGED <<ending, requeued, faults, recordVars, begun, stopFile, linkVars, captured,
                 memoryVars, payloadVars, historyVars>>

\* SIGUSR1 at pause_before, or the clock passing the driver's own deadline.
PauseSignal ==
  /\ pc # "off"
  /\ ~pause
  /\ pause' = TRUE
  /\ UNCHANGED <<slurmVars, recordVars, begun, stopFile, linkVars, captured, pc,
                 state, after, cancelled, code, payloadVars, historyVars>>

\* Walltime or preemption: Slurm starts to terminate the allocation.
Terminate(reason) ==
  /\ job = "running"
  /\ ending = "none"
  /\ reason = "preempt" => faults < MaxFaults
  /\ ending' = reason
  /\ faults' = IF reason = "preempt" THEN faults + 1 ELSE faults
  /\ UNCHANGED <<job, requeued, recordVars, begun, stopFile, linkVars, captured,
                 pc, memoryVars, payloadVars, historyVars>>

\* A job that is not over, nor already being ended.
Cancellable == job = "pending" \/ (job = "running" /\ ending = "none")

\* scancel: a pending job ends at once, a running one is terminated.
Scancel ==
  /\ Cancellable
  /\ IF job = "pending"
     THEN job' = "cancelled" /\ UNCHANGED ending
     ELSE ending' = "cancel" /\ UNCHANGED job
  /\ UNCHANGED <<requeued, faults, recordVars, begun, stopFile, linkVars,
                 captured, pc, memoryVars, payloadVars, historyVars>>

\* Termination and requeue send SIGTERM to every process of the allocation.
Terminating == ending # "none" \/ requeued

SigtermDriver ==
  /\ Terminating
  /\ pc # "off"
  /\ ~cancelled
  /\ cancelled' = TRUE
  /\ UNCHANGED <<slurmVars, recordVars, begun, stopFile, linkVars, captured, pc,
                 state, after, pause, code, payloadVars, historyVars>>

SigtermPayload ==
  /\ Terminating
  /\ PayloadRuns
  /\ PayloadExits(1)
  /\ UNCHANGED <<marked, captured, written>>
  /\ payloadUnchanged

\* What becomes of a job whose allocation ended other than by the driver's exit.
Ended ==
  IF requeued THEN {"pending"} \cup (IF ending = "cancel" THEN {"cancelled"} ELSE {})
  ELSE CASE ending = "cancel"  -> {"cancelled"}
         [] ending = "timeout" -> {"failed"}
         [] OTHER              -> {"pending", "failed"}

DriverGone ==
  /\ pc' = "off"
  /\ state' = NoRecord /\ after' = "exit"
  /\ cancelled' = FALSE /\ pause' = FALSE /\ code' = 0
  /\ ending' = "none" /\ requeued' = FALSE
  /\ payload' = NoPayload /\ written' = {}
  /\ UNCHANGED <<recordVars, begun, stopFile, linkVars, captured, historyVars>>

Finish ==
  /\ pc = "exit"
  /\ job' \in IF Terminating THEN Ended
              ELSE {IF code = 0 THEN "completed" ELSE "failed"}
  /\ DriverGone
  /\ UNCHANGED faults

(***************************************************************************)
(* The driver and its payload die at once: the node fails, memory runs     *)
(* out, or SIGKILL comes before the driver has reacted to SIGTERM.  After  *)
(* a node failure the --requeue of the generated script puts the job back  *)
(* in the queue, unless the site forbids it.                               *)
(***************************************************************************)
Kill ==
  /\ pc # "off"
  /\ faults < MaxFaults
  /\ faults' = faults + 1
  /\ job' \in Ended
  /\ DriverGone

-----------------------------------------------------------------------------
\* The author asks for the whole chain to stop: inspection.request_stop().
TouchStop ==
  /\ ~stopFile
  /\ stopFile' = TRUE
  /\ UNCHANGED <<slurmVars, recordVars, begun, linkVars, captured, pc,
                 memoryVars, payloadVars, historyVars>>

DriverStep ==
  \/ BatchRefuse \/ BatchBegin \/ WriteReceipt \/ WriteState
  \/ AttemptCancelled \/ AttemptStart \/ Spawn \/ SpawnRaises
  \/ WaitRequest \/ WaitStop \/ WaitExit \/ Judge \/ Seal
  \/ Requeue \/ (\E accepted \in BOOLEAN : RequeueFails(accepted)) \/ BatchReturn

PayloadStep ==
  \/ Prepare \/ (\E name \in Outputs : SaveOutput(name)) \/ MarkPaused
  \/ EntrypointReturns \/ Capture \/ CaptureFails \/ PayloadReturns

SlurmStep ==
  \/ Allocate \/ PauseSignal
  \/ (\E reason \in {"timeout", "preempt"} : Terminate(reason))
  \/ SigtermDriver \/ SigtermPayload \/ Finish \/ Kill

Next == DriverStep \/ PayloadStep \/ SlurmStep \/ Scancel \/ TouchStop

Spec == Init /\ [][Next]_vars

(***************************************************************************)
(* The driver's process is scheduled, Slurm notices when it exits, and the *)
(* queue drains.  Nothing is assumed of the payload or of the walltime.    *)
(***************************************************************************)
DriverFairness == WF_vars(DriverStep) /\ WF_vars(Finish) /\ WF_vars(Allocate)

LiveSpec == Spec /\ DriverFairness

-----------------------------------------------------------------------------
(* Properties. *)

\* Every variable holds a value its counterpart in the code can hold.
TypeOK ==
  /\ job \in {"pending", "running"} \cup Terminal
  /\ ending \in {"none", "cancel", "timeout", "preempt"}
  /\ requeued \in BOOLEAN
  /\ faults \in 0 .. MaxFaults
  /\ stateFile \in Records
  /\ receipts \in [Attempts -> Records]
  /\ begun \subseteq Attempts
  /\ stopFile \in BOOLEAN
  /\ requested \subseteq Attempts
  /\ marked \subseteq Attempts
  /\ captured \in [Attempts -> SUBSET Outputs]
  /\ pc \in Steps
  /\ state \in Records
  /\ after \in {"attempt", "spawn", "requeue", "exit"}
  /\ cancelled \in BOOLEAN
  /\ pause \in BOOLEAN
  /\ code \in {0, 1}
  /\ payload \in [phase : PayloadPhases, code : {0, 1}]
  /\ written \subseteq Outputs
  /\ launches \in [Attempts -> Nat]
  /\ clean \subseteq Attempts
  /\ lateStarts \in Nat

(***************************************************************************)
(* "Refusing to replay": whatever the scheduler restarts, and wherever a   *)
(* driver is killed, the payload of an attempt is started at most once.    *)
(***************************************************************************)
AtMostOnce == \A n \in Attempts : launches[n] <= 1

(***************************************************************************)
(* An attempt after the first exists only if the payload before it wrote   *)
(* the pause marker, exited 0, and its checkpoint is retained.  Stated on  *)
(* what the payloads did, not on what the driver recorded.                 *)
(***************************************************************************)
VerifiedResume ==
  \A n \in begun : n > 1 =>
    /\ n - 1 \in marked \cap clean
    /\ Checkpoint \in captured[n - 1]

Settled == {"paused", "completed", "failed", "stopped"}

Retained == {n \in Attempts : captured[n] # {}}

(***************************************************************************)
(* Once an attempt has settled, the artifact directory that state.json     *)
(* names is the newest one that was published: a failed or cancelled       *)
(* attempt does not hide the checkpoint retained before it, and an attempt *)
(* that did publish is not overlooked.                                     *)
(***************************************************************************)
ArtifactsAreNewest ==
  stateFile.state \in Settled =>
    \/ Retained = {} /\ stateFile.artifacts = 1
    \/ /\ stateFile.artifacts \in Retained
       /\ \A n \in Retained : n <= stateFile.artifacts

(***************************************************************************)
(* A completed unit has all its declared outputs from a payload that       *)
(* exited 0, it is the last attempt, and it stays completed.               *)
(***************************************************************************)
CompletedIsWhole ==
  stateFile.state = "completed" =>
    /\ captured[stateFile.attempt] = Outputs
    /\ stateFile.attempt \in clean
    /\ begun = 1 .. stateFile.attempt

\* The order in which an attempt's record may move.
Progress(from, to) ==
  \/ from = "none"
  \/ from = "queued" /\ to # "none"
  \/ from = "running" /\ to \in Settled
  \/ from = "paused" /\ to = "failed"

(***************************************************************************)
(* record() writes the receipt before state.json, so a crash between the   *)
(* two renames leaves a receipt that is at most one step ahead of          *)
(* state.json, never behind it, and no earlier attempt has a receipt that  *)
(* is neither a pause nor a failed requeue.                                *)
(***************************************************************************)
ReceiptsLead ==
  \A n \in 1 .. stateFile.attempt :
    IF n = stateFile.attempt
    THEN receipts[n] = stateFile \/ Progress(stateFile.state, receipts[n].state)
    ELSE receipts[n].state \in {"paused", "failed"}

(***************************************************************************)
(* Over the whole life of the job at most one payload starts after the     *)
(* author's stop: the one whose driver had already passed its last check.  *)
(***************************************************************************)
StopIsFinal == lateStarts <= 1

(***************************************************************************)
(* A stop leads to a state in which no payload runs and none ever will:    *)
(* neither the payload's cooperation nor the walltime is needed.           *)
(***************************************************************************)
StopEndsPayload == stopFile ~> []~PayloadRuns

(***************************************************************************)
(* The stop file alone ends the native job, even when the scancel of       *)
(* stop() was skipped because state.json held no native id yet, and even   *)
(* when a requeue had already been accepted.                               *)
(***************************************************************************)
StopEndsJob == stopFile ~> job \in Terminal

(***************************************************************************)
(* A pause signal is not lost, even one that arrives before the payload    *)
(* exists: the worker's attempt gets its pause-request, or the driver ends.*)
(***************************************************************************)
PauseIsRelayed == pause ~> (state.attempt \in requested \/ pc = "off")

\* The files on the cluster implement the abstract chain of attempts.
Abstract == INSTANCE Chain WITH
  attempt  <- stateFile.attempt,
  phase    <- stateFile.state,
  retained <- {n \in Attempts : Checkpoint \in captured[n]}

ImplementsChain == Abstract!Spec

=============================================================================
