------------------------- MODULE ManagedUnitProofs -------------------------
(***************************************************************************)
(* Proofs about ManagedUnit: what stop() and a waiter may conclude from    *)
(* reads taken at different times, for every budget, every set of outputs  *)
(* and every number of faults and of calls of stop().                      *)
(*                                                                         *)
(* The author's steps are steps of BatchDriver or leave the cluster alone, *)
(* so its invariants carry over.  What is added is stability: the record   *)
(* of an attempt that completed, or that paused without a successor, is    *)
(* never replaced, and a job that is over stays over.                      *)
(***************************************************************************)
EXTENDS ManagedUnit, BatchDriverRefinement

\* Slurm ends an allocation for a preemption only when it counts as a fault,
\* signals only one it is ending, and has accepted a requeue only from a driver
\* on its way out.
Endings ==
  /\ ending = "preempt" => faults > 0
  /\ cancelled => Terminating
  /\ requeued => pc = "exit" \/ (pc \in {"receipt", "state"} /\ after = "exit")

\* A pause recorded without a successor.
LastPause(record) == record.state = "paused" /\ ~record.continuing

\* A chain that paused for good, unless a fault makes Slurm restart the job.
PauseHolds ==
  /\ pc \in {"receipt", "state"} /\ after = "requeue" /\ LastPause(state) =>
       ~can_continue(state)
  /\ faults = 0 /\ LastPause(stateFile) =>
       \/ job \in Terminal
       \/ pc = "requeue" /\ ~can_continue(state)
       \/ pc = "exit" /\ ~requeued

\* What the waiter has read is still so.
WaiterKnows ==
  /\ seen.state \in {"completed", "paused"} => seen.native
  /\ seen.state = "completed" => stateFile.state = "completed"
  /\ faults = 0 /\ LastPause(seen) => LastPause(stateFile)
  /\ outcome = "completed" => stateFile.state = "completed" /\ job = "completed"
  /\ faults = 0 /\ outcome = "paused" => LastPause(stateFile) /\ job = "completed"

WaiterInv == Endings /\ PauseHolds /\ WaiterKnows

-----------------------------------------------------------------------------
(* The author's steps, seen from the cluster. *)

(***************************************************************************)
(* stop() and the waiter do nothing to the cluster that BatchDriver does   *)
(* not know already: they touch the stop file and call scancel.            *)
(***************************************************************************)
LEMMA ClusterStepsOnly == [UnitNext]_unitVars => [Next]_vars
<1> SUFFICES ASSUME [UnitNext]_unitVars PROVE [Next]_vars
  OBVIOUS
<1>1. CASE UNCHANGED unitVars
  BY <1>1 DEF unitVars
<1>2. CASE ClusterStep
  BY <1>2 DEF ClusterStep, Elsewhere, Next
<1>3. ASSUME NEW mark \in {"stopped", "failed"}, StopRequest(mark) PROVE [Next]_vars
  <2>1. stopFile' = TRUE /\ UNCHANGED <<slurmVars, recordVars, begun, linkVars, captured,
                                        pc, memoryVars, payloadVars, historyVars>>
    BY <1>3 DEF StopRequest
  <2>2. CASE stopFile = TRUE
    BY <2>1, <2>2 DEF vars
  <2>3. CASE ~stopFile
    BY <2>1, <2>3 DEF TouchStop, Next
  <2>4. CASE stopFile # TRUE /\ stopFile
    BY <2>4
  <2> QED
    BY <2>2, <2>3, <2>4
<1>4. CASE StopOverlay \/ StopSave \/ StopAborts
  BY <1>4 DEF StopOverlay, StopSave, StopAborts
<1>5. CASE StopScancel
  BY <1>5 DEF StopScancel, Next
<1>6. CASE PollStep
  BY <1>6 DEF PollStep, PollCatalog, PollState, PollSacct
<1> QED
  BY <1>1, <1>2, <1>3, <1>4, <1>5, <1>6 DEF UnitNext, StopStep

(***************************************************************************)
(* A managed unit is a batch job: everything proved of BatchDriver holds   *)
(* of it whatever the author and the waiter do.                            *)
(***************************************************************************)
THEOREM UnitIsBatchJob == UnitSpec => Spec
<1>1. UnitInit => Init
  BY DEF UnitInit
<1>2. [UnitNext]_unitVars => [Next]_vars
  BY ClusterStepsOnly
<1> QED
  BY <1>1, <1>2, PTL DEF UnitSpec, Spec

\* What Slurm keeps of a job from one step to the next.
LEMMA SlurmKeeps ==
  ASSUME TypeOK, [Next]_vars
  PROVE  /\ stopFile => stopFile'
         /\ faults' = 0 => faults = 0
         /\ faults > 0 => faults' > 0
         /\ Kill => faults' > 0
         /\ \/ Finish \/ Kill
            \/ /\ cancelled => cancelled'
               /\ cancelled' => cancelled \/ Terminating
               /\ ending # "none" => ending' = ending
               /\ ending' = "preempt" => ending = "preempt" \/ faults' > 0
               /\ requeued' = requeued \/ pc = "requeue"
               /\ job' = job \/ job = "pending"
<1> USE DEF slurmVars, recordVars, linkVars, memoryVars, payloadVars, historyVars
<1>0. faults \in Nat
  BY DriverAssumption DEF DriverAssumption, TypeOK
<1>8. Kill => faults' > 0
  BY <1>0 DEF Kill
<1>9. SUFFICES /\ stopFile => stopFile'
               /\ faults' = 0 => faults = 0
               /\ faults > 0 => faults' > 0
               /\ \/ Finish \/ Kill
                  \/ /\ cancelled => cancelled'
                     /\ cancelled' => cancelled \/ Terminating
                     /\ ending # "none" => ending' = ending
                     /\ ending' = "preempt" => ending = "preempt" \/ faults' > 0
                     /\ requeued' = requeued \/ pc = "requeue"
                     /\ job' = job \/ job = "pending"
  BY <1>8
<1>1. CASE UNCHANGED vars
  BY <1>1 DEF vars
<1>2. CASE \/ BatchRefuse \/ BatchBegin \/ WriteReceipt \/ WriteState
           \/ AttemptCancelled \/ AttemptStart \/ Spawn \/ SpawnRaises
  BY <1>2 DEF BatchRefuse, BatchBegin, WriteReceipt, WriteState, AttemptCancelled,
     AttemptStart, Spawn, SpawnRaises, Kill
<1>3. CASE WaitRequest \/ WaitStop \/ WaitExit \/ Judge \/ Seal \/ Requeue \/ BatchReturn
  BY <1>3 DEF WaitRequest, WaitStop, WaitExit, Judge, Seal, Requeue, BatchReturn
<1>4. CASE \E accepted \in BOOLEAN : RequeueFails(accepted)
  BY <1>4 DEF RequeueFails
<1>5. CASE PayloadStep
  BY <1>5 DEF PayloadStep, Prepare, SaveOutput, MarkPaused, EntrypointReturns, Capture,
     CaptureFails, PayloadReturns, payloadUnchanged
<1>6. CASE SlurmStep
  <2>1. CASE Allocate \/ PauseSignal \/ SigtermDriver \/ SigtermPayload
    BY <1>0, <2>1 DEF Allocate, PauseSignal, SigtermDriver, SigtermPayload, payloadUnchanged
  <2>2. ASSUME NEW reason \in {"timeout", "preempt"}, Terminate(reason)
        PROVE  /\ faults' = faults \/ faults' = faults + 1
               /\ ending = "none"
               /\ ending' = "preempt" => faults' = faults + 1
               /\ UNCHANGED <<job, stopFile, cancelled, requeued, pc>>
    BY <2>2 DEF Terminate
  <2>4. CASE Finish
    BY <1>0, <2>4 DEF Finish, DriverGone
  <2>5. CASE Kill
    BY <1>0, <2>5 DEF Kill, DriverGone
  <2> QED
    BY <1>0, <1>6, <2>1, <2>2, <2>4, <2>5 DEF SlurmStep
<1>7. CASE Scancel \/ TouchStop
  BY <1>7 DEF Scancel, TouchStop, Cancellable
<1> QED
  BY <1>1, <1>2, <1>3, <1>4, <1>5, <1>6, <1>7 DEF Next, DriverStep

\* A job that is over stays over, and nothing writes state.json any more.
LEMMA OverStays ==
  ASSUME TypeOK, Allocated, [Next]_vars, job \in Terminal
  PROVE  job' = job /\ stateFile' = stateFile
<1>1. pc = "off" /\ job # "pending"
  BY DEF Allocated, Terminal
<1>2. ~Finish /\ ~Kill /\ ~WriteState
  BY <1>1 DEF Finish, Kill, WriteState
<1> QED
  BY <1>1, <1>2, SlurmKeeps, Writers

\* Once the driver may not go on with a record, it may not for as long as it lives.
LEMMA NoWayOn ==
  ASSUME TypeOK, [Next]_vars, ~Finish, ~Kill, ~can_continue(state), state' = state
  PROVE  ~can_continue(state)'
BY SlurmKeeps DEF can_continue, stopped

LEMMA EndingStep == IInv /\ Endings /\ [Next]_vars => Endings'
<1> SUFFICES ASSUME IInv, Endings, [Next]_vars PROVE Endings'
  OBVIOUS
<1> TypeOK
  BY DEF IInv
<1>1. CASE Finish \/ Kill
  BY <1>1 DEF Finish, Kill, DriverGone, Endings
<1>2. CASE ~Finish /\ ~Kill
  <2>1. ending' = "preempt" => faults' > 0
    BY <1>2, SlurmKeeps DEF Endings, TypeOK
  <2>2. requeued => requeued'
    BY <1>2, SlurmKeeps DEF Endings
  <2>3. Terminating => Terminating'
    BY <1>2, <2>2, SlurmKeeps DEF Terminating
  <2>4. cancelled' => Terminating'
    BY <1>2, <2>3, SlurmKeeps DEF Endings
  <2>5. requeued' => pc' = "exit" \/ (pc' \in {"receipt", "state"} /\ after' = "exit")
    <3> SUFFICES ASSUME requeued'
                 PROVE  pc' = "exit" \/ (pc' \in {"receipt", "state"} /\ after' = "exit")
      OBVIOUS
    <3>1. CASE Requeue \/ (\E accepted \in BOOLEAN : RequeueFails(accepted))
      BY <3>1 DEF Requeue, RequeueFails, Exit, Record
    <3>2. CASE BatchReturn
      BY <3>2 DEF BatchReturn, Exit
    <3>3. CASE /\ ~BatchReturn /\ ~Requeue
               /\ ~(\E accepted \in BOOLEAN : RequeueFails(accepted))
      <4>1. requeued
        <5>1. CASE pc # "requeue"
          BY <1>2, <5>1, SlurmKeeps
        <5>2. CASE pc = "requeue" /\ DriverStep
          BY <3>3, <5>2 DEF DriverStep, BatchRefuse, BatchBegin, WriteReceipt,
             WriteState, AttemptCancelled, AttemptStart, Spawn, SpawnRaises,
             WaitRequest, WaitStop, WaitExit, Judge, Seal
        <5>3. CASE pc = "requeue" /\ ~DriverStep
          <6>1. requeued' = requeued
            BY <1>2, <5>3 DEF Next, PayloadStep, Prepare, SaveOutput, MarkPaused,
               EntrypointReturns, Capture, CaptureFails, PayloadReturns, payloadUnchanged,
               SlurmStep, Allocate, PauseSignal, Terminate, SigtermDriver, SigtermPayload,
               Scancel, TouchStop, vars, slurmVars
          <6> QED
            BY <6>1
        <5> QED
          BY <5>1, <5>2, <5>3
      <4>2. pc = "exit" \/ (pc \in {"receipt", "state"} /\ after = "exit")
        BY <4>1 DEF Endings
      <4>3. CASE DriverStep
        <5>1. WriteReceipt \/ WriteState
          BY <4>2, <4>3 DEF DriverStep, BatchRefuse, BatchBegin, AttemptCancelled,
             AttemptStart, Spawn, SpawnRaises, WaitRequest, WaitStop, WaitExit, Judge,
             Seal, Requeue, RequeueFails, BatchReturn
        <5> QED
          BY <4>2, <5>1 DEF WriteReceipt, WriteState, memoryVars
      <4>4. CASE ~DriverStep
        <5>1. ~Allocate
          BY <4>2 DEF Allocate, IInv, Allocated
        <5> QED
          BY <1>2, <4>2, <4>4, <5>1, Bystanders
      <4> QED
        BY <4>3, <4>4
    <3> QED
      BY <3>1, <3>2, <3>3
  <2> QED
    BY <2>1, <2>4, <2>5 DEF Endings
<1> QED
  BY <1>1, <1>2

LEMMA HoldStep == RInv /\ Endings /\ PauseHolds /\ [Next]_vars => PauseHolds'
<1> SUFFICES ASSUME RInv, Endings, PauseHolds, [Next]_vars PROVE PauseHolds'
  OBVIOUS
<1> TypeOK /\ Allocated /\ Located /\ Bookkeeping
  BY DEF RInv, IInv
<1>1. ASSUME pc' \in {"receipt", "state"}, after' = "requeue", LastPause(state)'
      PROVE  ~can_continue(state)'
  <2>1. ~Finish /\ ~Kill
    BY <1>1 DEF Finish, Kill, DriverGone
  <2>2. CASE ~DriverStep
    <3>1. UNCHANGED <<pc, state, after>>
      BY <1>1, <2>2, Bystanders
    <3> QED
      BY <1>1, <2>1, <3>1, NoWayOn DEF PauseHolds, LastPause
  <2>3. CASE WriteReceipt
    <3>1. pc = "receipt" /\ state' = state /\ after' = after
      BY <2>3 DEF WriteReceipt, memoryVars
    <3> QED
      BY <1>1, <2>1, <3>1, NoWayOn DEF PauseHolds, LastPause
  <2>4. CASE Seal
    <3>1. /\ state' = [state EXCEPT !.artifacts = RetainedBy(state),
                                    !.continuing = can_continue(state)]
          /\ UNCHANGED <<cancelled, stopFile>>
      BY <2>4 DEF Seal, Record
    <3>2. /\ state'.continuing = can_continue(state)
          /\ state'.state = state.state
          /\ state'.attempt = state.attempt
      BY <3>1 DEF TypeOK, Records
    <3> QED
      BY <1>1, <3>1, <3>2 DEF LastPause, can_continue, stopped
  <2>5. CASE AttemptCancelled
    BY <1>1, <2>5 DEF AttemptCancelled, Record, LastPause, TypeOK, Records
  <2>6. CASE BatchBegin \/ AttemptStart \/ WriteState
             \/ (\E accepted \in BOOLEAN : RequeueFails(accepted))
    BY <1>1, <2>6 DEF BatchBegin, AttemptStart, WriteState, RequeueFails, Record, Exit, TypeOK
  <2>7. ~(BatchRefuse \/ Requeue \/ BatchReturn)
    BY <1>1 DEF BatchRefuse, Requeue, BatchReturn, Exit
  <2>8. ~(Spawn \/ WaitRequest \/ WaitStop \/ WaitExit \/ SpawnRaises \/ Judge)
    BY <1>1 DEF Spawn, WaitRequest, WaitStop, WaitExit, SpawnRaises, Judge
  <2> QED
    BY <2>2, <2>3, <2>4, <2>5, <2>6, <2>7, <2>8 DEF DriverStep
<1>2. ASSUME faults' = 0, LastPause(stateFile)'
      PROVE  \/ job' \in Terminal
             \/ pc' = "requeue" /\ ~can_continue(state)'
             \/ pc' = "exit" /\ ~requeued'
  <2>0. faults = 0 /\ ~Kill
    BY <1>2, SlurmKeeps
  <2>1. CASE WriteState
    <3>1. /\ Follows /\ stateFile' = state /\ state' = state /\ pc' = after
          /\ pc = "state" /\ UNCHANGED <<cancelled, stopFile>>
      BY <2>1, WriteFollows DEF WriteState, memoryVars
    <3>2. state.state = "paused" /\ LastPause(state)
      BY <1>2, <3>1 DEF LastPause
    <3>3. after = "requeue"
      BY <3>1, <3>2 DEF Follows, Queued, TypeOK
    <3> QED
      BY <3>1, <3>2, <3>3 DEF PauseHolds, can_continue, stopped
  <2>2. CASE stateFile' = stateFile
    <3>1. LastPause(stateFile)
      BY <1>2, <2>2 DEF LastPause
    <3>2. CASE job \in Terminal
      BY <3>2, OverStays
    <3>3. CASE pc = "requeue" /\ ~can_continue(state)
      <4>1. ~Allocate /\ ~Finish
        BY <3>3 DEF Allocate, Finish, Allocated
      <4>2. CASE DriverStep
        <5>1. BatchReturn
          BY <3>3, <4>2 DEF DriverStep, BatchRefuse, BatchBegin, WriteReceipt,
             WriteState, AttemptCancelled, AttemptStart, Spawn, SpawnRaises,
             WaitRequest, WaitStop, WaitExit, Judge, Seal, Requeue, RequeueFails
        <5> QED
          BY <3>3, <5>1 DEF BatchReturn, Exit, Endings, slurmVars
      <4>3. CASE ~DriverStep
        BY <2>0, <3>3, <4>1, <4>3, Bystanders, NoWayOn
      <4> QED
        BY <4>2, <4>3
    \* An exit that no requeue has overtaken ends the job.
    <3>4. CASE pc = "exit" /\ ~requeued
      <4>1. CASE Finish
        <5>1. ending \in {"none", "cancel", "timeout"}
          BY <2>0 DEF Endings, TypeOK
        <5> QED
          BY <3>4, <4>1, <5>1 DEF Finish, Terminating, Ended, Terminal
      <4>2. CASE ~Finish
        <5>1. ~DriverStep /\ ~Allocate
          BY <3>4 DEF DriverStep, BatchRefuse, BatchBegin, WriteReceipt, WriteState,
             AttemptCancelled, AttemptStart, Spawn, SpawnRaises, WaitRequest, WaitStop,
             WaitExit, Judge, Seal, Requeue, RequeueFails, BatchReturn, Allocate, Allocated
        <5> QED
          BY <2>0, <3>4, <4>2, <5>1, Bystanders, SlurmKeeps
      <4> QED
        BY <4>1, <4>2
    <3> QED
      BY <2>0, <3>1, <3>2, <3>3, <3>4 DEF PauseHolds
  <2> QED
    BY <2>1, <2>2, Writers
<1> QED
  BY <1>1, <1>2 DEF PauseHolds

-----------------------------------------------------------------------------
(* What the waiter knows. *)

\* The record of an attempt that completed is the last one.
LEMMA CompletedStays ==
  ASSUME TypeOK, Bookkeeping, [Next]_vars, stateFile.state = "completed"
  PROVE  stateFile' = stateFile
<1>1. ~WriteState
  <2> SUFFICES ASSUME WriteState PROVE FALSE
    OBVIOUS
  <2>1. Follows
    BY WriteFollows
  <2> QED
    BY <2>1 DEF Follows, NoRecord, TypeOK
<1> QED
  BY <1>1, Writers

\* So is that of a pause without a successor, as long as nothing faulted.
LEMMA LastPauseStays ==
  ASSUME TypeOK, Allocated, PauseHolds, [Next]_vars, faults = 0, LastPause(stateFile)
  PROVE  stateFile' = stateFile
<1>1. pc # "state"
  BY DEF PauseHolds, Allocated, Terminal
<1>2. ~WriteState
  BY <1>1 DEF WriteState
<1> QED
  BY <1>2, Writers

\* What the waiter sees is what state.json says, unless it says nothing or "stopped".
LEMMA OverlayView ==
  ASSUME NEW row \in CatalogStates, NEW file \in Records
  PROVE  /\ Overlay(row, file) \in Views
         /\ Overlay(row, file).state \in {"completed", "paused"} =>
              /\ file # NoRecord
              /\ Overlay(row, file).state = file.state
              /\ Overlay(row, file).native = file.native
              /\ Overlay(row, file).continuing = file.continuing
BY DEF Overlay, Views, CatalogStates, Records, States

\* A normal answer of get_status() about a unit with a native id needs both that
\* answer in the record and a job that exited 0.
LEMMA StatusAgrees ==
  ASSUME job \in {"pending", "running"} \cup Terminal, NEW view \in Views,
         view.state \in {"completed", "paused"} => view.native,
         StatusOf(view) \in {"completed", "paused"}
  PROVE  /\ job = "completed"
         /\ view.state = StatusOf(view)
         /\ view.state = "paused" => ~view.continuing
<1>1. view.native
  BY DEF StatusOf
<1>2. StatusOf(view) = Combined(view, Native[job])
  BY <1>1 DEF StatusOf
<1>3. /\ Native["pending"] = "queued" /\ Native["running"] = "running"
      /\ Native["completed"] = "completed" /\ Native["failed"] = "failed"
      /\ Native["cancelled"] = "stopped"
  BY DEF Native
<1>4. job = "completed" \/ Native[job] \in {"queued", "running", "failed", "stopped"}
  BY <1>3 DEF Terminal
<1>5. job = "completed"
  <2> SUFFICES ASSUME job # "completed" PROVE FALSE
    OBVIOUS
  <2>1. Native[job] # "completed"
    BY <1>4
  <2>2. \/ Combined(view, Native[job]) = Native[job]
        \/ /\ Combined(view, Native[job]) = view.state
           /\ view.state \in {"stopped", "failed"}
    BY <2>1 DEF Combined
  <2> QED
    BY <1>2, <1>4, <2>2
<1>6. \/ Combined(view, Native[job]) = Refined(view)
      \/ /\ Combined(view, Native[job]) = view.state
         /\ view.state \in {"stopped", "failed"}
  BY <1>3, <1>5 DEF Combined
<1>7. Refined(view) \in {"completed", "paused"}
  BY <1>2, <1>6
<1>8. Refined(view) = view.state /\ (view.state = "paused" => ~view.continuing)
  BY <1>7 DEF Refined
<1> QED
  BY <1>2, <1>5, <1>6, <1>8

\* The invariant of a managed unit.
UInv == RInv /\ UnitTypeOK /\ WaiterInv

LEMMA InitUInv == UnitInit => UInv
<1> SUFFICES ASSUME UnitInit PROVE UInv
  OBVIOUS
<1> USE DEF UnitInit
<1>1. RInv
  BY InitRInv
<1>2. UnitTypeOK
  <2>1. NoView \in Views
    BY DEF NoView, Views, States
  <2>2. 0 \in 0 .. MaxStops
    BY UnitAssumption DEF UnitAssumption
  <2> QED
    BY <1>1, <2>1, <2>2 DEF RInv, IInv, UnitTypeOK, CatalogStates
<1>3. WaiterInv
  BY DEF Init, WaiterInv, Endings, PauseHolds, WaiterKnows, LastPause, NoRecord, NoView
<1> QED
  BY <1>1, <1>2, <1>3 DEF UInv

LEMMA UnitTypeStep == UInv /\ [UnitNext]_unitVars => UnitTypeOK'
<1> SUFFICES ASSUME UInv, [UnitNext]_unitVars PROVE UnitTypeOK'
  OBVIOUS
<1> UnitTypeOK
  BY DEF UInv
<1>1. TypeOK'
  BY RInvStep, ClusterStepsOnly DEF UInv, RInv, IInv
<1> USE DEF UnitTypeOK, stopVars, pollVars
<1>2. CASE UNCHANGED unitVars \/ ClusterStep
  BY <1>1, <1>2 DEF unitVars, ClusterStep, Elsewhere
<1>3. CASE \E mark \in {"stopped", "failed"} : StopRequest(mark)
  BY <1>1, <1>3, UnitAssumption DEF UnitAssumption, StopRequest
<1>4. CASE StopOverlay
  <2>1. Overlay(catalog, stateFile).native \in BOOLEAN
    BY OverlayView DEF TypeOK, Views
  <2> QED
    BY <1>1, <1>4, <2>1 DEF StopOverlay
<1>5. CASE StopSave
  BY <1>1, <1>5 DEF StopSave, CatalogStates
<1>6. CASE StopScancel \/ StopAborts
  BY <1>1, <1>6 DEF StopScancel, StopAborts
<1>7. CASE PollCatalog
  BY <1>1, <1>7 DEF PollCatalog
<1>8. CASE PollState
  <2>1. Overlay(snapshot, stateFile) \in Views
    BY OverlayView DEF TypeOK
  <2> QED
    BY <1>1, <1>8, <2>1 DEF PollState
<1>9. CASE PollSacct
  <2>1. NoView \in Views
    BY DEF NoView, Views, States
  <2> QED
    BY <1>1, <1>9, <2>1 DEF PollSacct, CatalogStates
<1> QED
  BY <1>2, <1>3, <1>4, <1>5, <1>6, <1>7, <1>8, <1>9 DEF UnitNext, StopStep, PollStep

LEMMA WaiterStep == UInv /\ [UnitNext]_unitVars => WaiterKnows'
<1> SUFFICES ASSUME UInv, [UnitNext]_unitVars PROVE WaiterKnows'
  OBVIOUS
<1> /\ UnitTypeOK /\ TypeOK /\ Allocated /\ Bookkeeping /\ NamedRecords
    /\ PauseHolds /\ WaiterKnows
  BY DEF UInv, RInv, IInv, WaiterInv
<1> [Next]_vars
  BY ClusterStepsOnly
<1>1. faults' = 0 => faults = 0
  BY SlurmKeeps
<1>2. stateFile.state = "completed" => stateFile' = stateFile
  BY CompletedStays
<1>3. faults = 0 /\ LastPause(stateFile) => stateFile' = stateFile
  BY LastPauseStays
<1>4. job = "completed" => job' = "completed"
  BY OverStays DEF Terminal
<1> USE DEF WaiterKnows, LastPause
<1>5. CASE UNCHANGED <<seen, outcome>>
  BY <1>1, <1>2, <1>3, <1>4, <1>5
<1>6. CASE PollState
  <2>1. seen' = Overlay(snapshot, stateFile) /\ UNCHANGED <<outcome, vars>>
    BY <1>6 DEF PollState
  <2>2. snapshot \in CatalogStates /\ stateFile \in Records
    BY DEF UnitTypeOK, TypeOK
  <2>3. seen'.state \in {"completed", "paused"} =>
          /\ seen'.state = stateFile.state
          /\ seen'.native = stateFile.native
          /\ seen'.continuing = stateFile.continuing
    BY <2>1, <2>2, OverlayView
  <2>4. seen'.state \in {"completed", "paused"} => seen'.native
    BY <2>3 DEF NamedRecords, Named
  <2> QED
    BY <1>1, <2>1, <2>3, <2>4 DEF vars, recordVars, slurmVars
<1>7. CASE PollSacct
  <2>1. /\ seen' = NoView /\ UNCHANGED vars
        /\ outcome' = outcome \/ outcome' = StatusOf(seen)
    BY <1>7 DEF PollSacct
  <2>2. ASSUME StatusOf(seen) \in {"completed", "paused"}
        PROVE  /\ job = "completed"
               /\ seen.state = StatusOf(seen)
               /\ seen.state = "paused" => ~seen.continuing
    BY <2>2, StatusAgrees DEF UnitTypeOK, TypeOK
  <2>3. UNCHANGED <<stateFile, job, faults>>
    BY <2>1 DEF vars, recordVars, slurmVars
  <2> QED
    BY <2>1, <2>2, <2>3 DEF NoView
<1>8. PollState \/ PollSacct \/ UNCHANGED <<seen, outcome>>
  BY DEF UnitNext, ClusterStep, Elsewhere, StopStep, StopRequest, StopOverlay, StopSave,
     StopScancel, StopAborts, PollStep, PollCatalog, pollVars, unitVars
<1> QED
  BY <1>5, <1>6, <1>7, <1>8

-----------------------------------------------------------------------------
(* The theorems. *)

(***************************************************************************)
(* The inductive invariant of a managed unit: every normal answer the      *)
(* waiter has in hand, or has given, is still what the cluster says.       *)
(***************************************************************************)
THEOREM UnitInvariance == UnitSpec => []UInv
<1>1. UnitInit => UInv
  BY InitUInv
<1>2. UInv /\ [UnitNext]_unitVars => UInv'
  <2> SUFFICES ASSUME UInv, [UnitNext]_unitVars PROVE UInv'
    OBVIOUS
  <2>1. [Next]_vars
    BY ClusterStepsOnly
  <2>2. RInv' /\ UnitTypeOK'
    BY <2>1, RInvStep, UnitTypeStep DEF UInv
  <2>3. Endings' /\ PauseHolds'
    BY <2>1, EndingStep, HoldStep DEF UInv, WaiterInv, RInv
  <2>4. WaiterKnows'
    BY WaiterStep
  <2> QED
    BY <2>2, <2>3, <2>4 DEF UInv, WaiterInv
<1> QED
  BY <1>1, <1>2, PTL DEF UnitSpec

(***************************************************************************)
(* The catalog's intents, the reads of stop() and the answers of           *)
(* get_status() keep their types.                                          *)
(***************************************************************************)
THEOREM UnitTypeCorrect == UnitSpec => []UnitTypeOK
<1>1. UInv => UnitTypeOK
  BY DEF UInv
<1> QED
  BY <1>1, UnitInvariance, PTL

(***************************************************************************)
(* A stop() that comes after the end does not rewrite history: no intent   *)
(* in the catalog hides the completion of a job that exited 0.             *)
(***************************************************************************)
THEOREM CompletedSurvivesStopHolds == UnitSpec => []CompletedSurvivesStop
<1>1. CompletedSurvivesStop
  <2> SUFFICES ASSUME stateFile.state = "completed", job = "completed"
               PROVE  Status = "completed"
    BY DEF CompletedSurvivesStop
  <2> DEFINE view == Overlay(catalog, stateFile)
  <2>1. view.state = "completed"
    BY DEF Overlay, NoRecord
  <2>2. Native[job] = "completed" /\ Refined(view) = "completed"
    BY <2>1 DEF Native, Refined
  <2> HIDE DEF view
  <2>3. StatusOf(view) = "completed"
    BY <2>1, <2>2 DEF StatusOf, Combined
  <2> QED
    BY <2>3 DEF Status, view
<1> QED
  BY <1>1, PTL

(***************************************************************************)
(* A waiter that returns normally tells the truth: its three reads were    *)
(* taken at different times, but the unit completed, its outputs are all   *)
(* there and its job exited 0.                                             *)
(***************************************************************************)
THEOREM CompletedIsTrueHolds == UnitSpec => []CompletedIsTrue
<1>1. UInv => CompletedIsTrue
  BY DEF UInv, RInv, WholeRecords, Whole, WaiterInv, WaiterKnows, CompletedIsTrue
<1> QED
  BY <1>1, UnitInvariance, PTL

(***************************************************************************)
(* A waiter told "paused" about a unit that was never preempted nor lost   *)
(* its driver is told of a chain that is over, with its checkpoint kept.   *)
(***************************************************************************)
THEOREM PausedIsOverHolds == UnitSpec => []PausedIsOver
<1>1. UInv => PausedIsOver
  BY DEF UInv, RInv, IInv, PausesVerified, Verified, WaiterInv, WaiterKnows, LastPause,
     PausedIsOver
<1> QED
  BY <1>1, UnitInvariance, PTL

=============================================================================
