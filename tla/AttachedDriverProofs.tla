------------------------ MODULE AttachedDriverProofs ------------------------
(***************************************************************************)
(* Proofs about AttachedDriver, for every budget, every set of outputs and *)
(* every number of deaths and restarts of either driver.                   *)
(*                                                                         *)
(* Two processes write state.json and neither locks it.  What keeps them   *)
(* from undoing each other's work is that "paused" and "completed" are the *)
(* worker's last words: while the supervisor acts on one of them, or holds *)
(* a successor it has not started yet, the worker has nothing left to      *)
(* write; and until then both name the same attempt.                       *)
(***************************************************************************)
EXTENDS AttachedDriver, BatchDriverRefinement

\* The worker has written its last word, or there is none.
WorkerDone == pc \in {"off", "requeue", "exit"}

AttachedTypeOK ==
  /\ faults \in 0 .. MaxFaults
  /\ stateFile \in Records
  /\ begun \subseteq Attempts
  /\ marked \subseteq Attempts
  /\ captured \in [Attempts -> SUBSET Outputs]
  /\ pc \in Steps \ {"batch"}
  /\ state \in Records
  /\ payload \in [phase : PayloadPhases, code : {0, 1}]
  /\ launches \in [Attempts -> Nat]
  /\ clean \subseteq Attempts
  /\ sup \in {"start", "loop", "receipt", "state", "spawn", "wait", "hup", "look",
              "judge", "next", "off"}
  /\ supState \in Records
  /\ supAfter \in {"loop", "spawn", "off"}
  /\ outcome \in {"none", "zero", "one", "raised"}
  /\ salloc \in {"none", "pending", "granted", "exited"}

\* The supervisor holds the record of a successor, or its own verdict.
Beginning == sup \in {"receipt", "state"} /\ supAfter = "spawn"
Concluding == sup \in {"receipt", "state"} /\ supAfter = "off"

\* The directories up to the attempt in state.json, and no other.
Complete == begun = 1 .. stateFile.attempt

\* state.json and the directories.
AttachedFiles ==
  /\ stateFile.state = "none" <=> stateFile.attempt = 0
  /\ stateFile.state = "none" => stateFile = NoRecord /\ pc = "off" /\ salloc # "pending"
  /\ \/ Complete
     \/ stateFile.state \in {"none", "paused"} /\ begun = 1 .. stateFile.attempt + 1

\* "paused" and "completed" are the worker's last words.
LastWord == stateFile.state \in {"paused", "completed"} => WorkerDone

\* What the supervisor knows at each of its steps.
SupKnows ==
  /\ sup \in {"receipt", "state"} => supAfter \in {"spawn", "off"}
  /\ sup = "loop" =>
       \/ supState = NoRecord /\ stateFile = NoRecord
       \/ /\ supState = stateFile /\ stateFile.state = "paused" /\ Complete
          /\ stateFile.attempt < MaxAttempts
  /\ Beginning =>
       /\ supState = Queued(stateFile)
       /\ stateFile = NoRecord \/ stateFile.state = "paused"
       /\ begun = 1 .. supState.attempt
  /\ sup = "spawn" => stateFile.state = "queued" /\ WorkerDone /\ salloc # "pending"
  /\ sup \in {"wait", "hup", "look", "judge", "next"} \/ Concluding =>
       stateFile.state # "none" /\ Complete
  /\ sup \in {"look", "judge", "next"} \/ Concluding => salloc # "pending"
  /\ sup = "judge" \/ Concluding => supState.attempt = stateFile.attempt
  /\ sup = "judge" /\ supState.state \in {"paused", "completed"} => supState = stateFile
  /\ Concluding => supState.state \in {"stopped", "failed"}
  /\ sup = "next" => supState = stateFile /\ stateFile.state \in {"paused", "completed"}
  /\ outcome \in {"zero", "one"} => sup = "off"
  /\ outcome = "zero" => stateFile.state \in {"paused", "completed"}

\* A worker at work is about the attempt in state.json, and what it is about to
\* write is "running" or its last word.
WorkerKnows ==
  /\ ~WorkerDone => state.attempt = stateFile.attempt
  /\ pc \in {"receipt", "state"} =>
       \/ after = "spawn" /\ state.state = "running"
       \/ after = "requeue" /\ state.state \in Settled
  /\ pc = "seal" => state.state \in Settled

\* An attempt that is about to be started has not been started.
Unlaunched ==
  /\ BeforeSpawn => launches[state.attempt] = 0
  /\ salloc = "pending" =>
       /\ pc = "off" /\ stateFile.state = "queued"
       /\ launches[stateFile.attempt] = 0
  /\ sup = "spawn" => launches[stateFile.attempt] = 0
  /\ \A n \in Attempts : launches[n] > 0 => n <= stateFile.attempt

\* After the supervisor's verdict only a worker that has still to write its own
\* word, or a fault, leaves an attempt running.
VerdictHolds ==
  outcome \in {"zero", "one"} /\ stateFile # NoRecord /\ faults = 0 =>
    \/ stateFile.state \in Settled
    \/ ~WorkerDone /\ pc # "attempt"

AInv ==
  /\ AttachedTypeOK
  /\ AttachedFiles
  /\ LastWord
  /\ SupKnows
  /\ WorkerKnows
  /\ PayloadPlaced
  /\ Unlaunched
  /\ AtMostOnce
  /\ CleanExit
  /\ PausesVerified
  /\ VerifiedResume
  /\ WholeRecords
  /\ VerdictHolds

-----------------------------------------------------------------------------
(* The initial state. *)

LEMMA InitAInv == AttachedInit => AInv
<1> SUFFICES ASSUME AttachedInit PROVE AInv
  OBVIOUS
<1> USE DEF AttachedInit
<1>1. AttachedTypeOK
  BY NoRecordType, DriverAssumption
     DEF DriverAssumption, AttachedTypeOK, Steps, NoPayload, PayloadPhases
<1>2. AttachedFiles /\ LastWord /\ SupKnows /\ WorkerKnows /\ Unlaunched /\ VerdictHolds
  BY DEF NoRecord, AttachedFiles, Complete, LastWord, SupKnows, WorkerKnows, WorkerDone,
     Unlaunched, BeforeSpawn, VerdictHolds, Beginning, Concluding
<1>3. PayloadPlaced /\ AtMostOnce /\ CleanExit
  BY DEF PayloadPlaced, PayloadRuns, NoPayload, AtMostOnce, CleanExit
<1>4. PausesVerified /\ VerifiedResume /\ WholeRecords
  BY DEF NoRecord, PausesVerified, VerifiedResume, WholeRecords, Whole
<1> QED
  BY <1>1, <1>2, <1>3, <1>4 DEF AInv

-----------------------------------------------------------------------------
(* Who does what. *)

\* A step of the supervisor, or of what may befall it.
SupMove == SupStep \/ SupSignal \/ SupKill \/ SupRestart

\* The supervisor writes the directories and state.json, and nothing of the worker's.
LEMMA SupLeaves ==
  ASSUME SupMove
  PROVE  /\ UNCHANGED <<marked, captured, pc, state, after, payload, launches, clean>>
         /\ stateFile' = stateFile \/ SupWrite
         /\ begun' = begun \/ SupBegin
         /\ salloc' = salloc \/ SupSpawn
<1> USE DEF workerUnchanged, supervisorUnchanged, slurmVars, recordVars, linkVars,
            memoryVars, payloadVars, historyVars, sallocVars
<1>1. CASE SupStart \/ SupBegin \/ SupReceipt \/ SupWrite \/ SupSpawn
  BY <1>1 DEF SupStart, SupBegin, SupReceipt, SupWrite, SupSpawn
<1>2. CASE SupHangUp \/ SupWaitExit \/ SupRead \/ SupJudge \/ SupNext
  BY <1>2 DEF SupHangUp, SupWaitExit, SupRead, SupJudge, SupNext
<1>3. CASE SupSignal \/ SupKill \/ SupRestart
  BY <1>3 DEF SupSignal, SupKill, SupRestart
<1> QED
  BY <1>1, <1>2, <1>3 DEF SupMove, SupStep

\* A step of the worker, its payload, Slurm or the author.
WorkerSide ==
  \/ Grant \/ Refuse \/ SallocEnds \/ WorkerStep \/ WorkerGone \/ WorkerKill
  \/ supervisorUnchanged /\
       (PayloadStep \/ Deadline \/ SigtermDriver \/ SigtermPayload \/ TouchStop
        \/ Terminate("cancel"))

LEMMA Sides ==
  ASSUME [AttachedNext]_attachedVars
  PROVE  SupMove \/ WorkerSide \/ UNCHANGED attachedVars
BY DEF AttachedNext, SupMove, WorkerSide

\* None of them touches the supervisor, makes a directory or starts a salloc, and
\* each piece of the worker's state has a single kind of step that writes it.
LEMMA WorkerLeaves ==
  ASSUME WorkerSide
  PROVE  /\ UNCHANGED <<sup, supState, supAfter, outcome, begun>>
         /\ stateFile' = stateFile \/ WriteState
         /\ captured' = captured \/ Capture
         /\ launches' = launches \/ Spawn
         /\ clean \subseteq clean'
         /\ marked \subseteq marked'
         /\ salloc' = salloc \/ salloc' \in {"granted", "exited"}
<1> USE DEF workerUnchanged, supervisorUnchanged, slurmVars, recordVars, linkVars,
            memoryVars, payloadVars, historyVars, supVars, sallocVars
<1>1. CASE Grant \/ Refuse \/ SallocEnds
  BY <1>1 DEF Grant, Refuse, SallocEnds
<1>2. CASE WorkerGone \/ WorkerKill
  BY <1>2 DEF WorkerGone, WorkerKill, WorkerEnds, DriverGone
<1>3. CASE WorkerStep
  BY <1>3 DEF WorkerStep, WorkerRefuse, AttemptCancelled, AttemptStart, Spawn, SpawnRaises,
     WaitRequest, WaitStop, WaitExit, Judge, Seal, WriteReceipt, WriteState, WorkerReturn
<1>4. CASE supervisorUnchanged /\ PayloadStep
  BY <1>4 DEF PayloadStep, Prepare, SaveOutput, MarkPaused, EntrypointReturns, Capture,
     CaptureFails, PayloadReturns, PayloadExits, payloadUnchanged
<1>5. CASE supervisorUnchanged /\
             (Deadline \/ SigtermDriver \/ SigtermPayload \/ TouchStop \/ Terminate("cancel"))
  BY <1>5 DEF Deadline, PauseSignal, SigtermDriver, SigtermPayload, PayloadExits,
     payloadUnchanged, TouchStop, Terminate
<1> QED
  BY <1>1, <1>2, <1>3, <1>4, <1>5 DEF WorkerSide

\* Around the worker, a step leaves its memory alone, or it starts or ends it.
LEMMA WorkerBystanders ==
  ASSUME WorkerSide, ~WorkerStep
  PROVE  /\ UNCHANGED <<pc, state, after>> \/ Grant \/ WorkerGone \/ WorkerKill
         /\ \/ UNCHANGED <<pc, state, after>>
            \/ Grant
            \/ /\ pc' = "off" /\ after' = "exit" /\ state' = NoRecord
               /\ payload' = NoPayload
         /\ stateFile' = stateFile
<1> USE DEF workerUnchanged, supervisorUnchanged, slurmVars, recordVars, linkVars,
            memoryVars, payloadVars, historyVars, supVars, sallocVars
<1>1. CASE Refuse \/ SallocEnds
  BY <1>1 DEF Refuse, SallocEnds
<1>2. CASE WorkerGone \/ WorkerKill
  BY <1>2 DEF WorkerGone, WorkerKill, WorkerEnds, DriverGone
<1>3. CASE PayloadStep
  BY <1>3 DEF PayloadStep, Prepare, SaveOutput, MarkPaused, EntrypointReturns, Capture,
     CaptureFails, PayloadReturns, PayloadExits, payloadUnchanged
<1>4. CASE Deadline \/ SigtermDriver \/ SigtermPayload \/ TouchStop \/ Terminate("cancel")
  BY <1>4 DEF Deadline, PauseSignal, SigtermDriver, SigtermPayload, PayloadExits,
     payloadUnchanged, TouchStop, Terminate
<1>5. CASE Grant
  BY <1>5 DEF Grant
<1> QED
  BY <1>1, <1>2, <1>3, <1>4, <1>5 DEF WorkerSide

\* A worker at work, and a payload, are about the attempt in state.json, which is
\* an attempt.
LEMMA AttachedAtWork ==
  ASSUME AttachedTypeOK, AttachedFiles, WorkerKnows, PayloadPlaced
  PROVE  /\ stateFile.state # "none" => stateFile.attempt \in Attempts
         /\ ~WorkerDone => /\ stateFile.state # "none"
                           /\ state.attempt = stateFile.attempt
                           /\ state.attempt \in Attempts
         /\ payload.phase # "none" => ~WorkerDone
BY DriverAssumption
   DEF DriverAssumption, AttachedTypeOK, AttachedFiles, WorkerKnows, PayloadPlaced,
       WorkerDone, Records, Attempts

\* The directories up to the latest attempt: `attempt <number>` is told its number.
LEMMA LatestIs ==
  ASSUME NEW n \in Nat \ {0}, begun = 1 .. n
  PROVE  Latest = n
<1>1. n \in begun /\ \A m \in begun : m <= n
  OBVIOUS
<1>2. \A k \in begun : (\A m \in begun : m <= k) => k = n
  <2> SUFFICES ASSUME NEW k \in begun, \A m \in begun : m <= k PROVE k = n
    OBVIOUS
  <2>1. n <= k /\ k <= n /\ k \in Nat
    BY <1>1
  <2> QED
    BY <2>1
<1> QED
  BY <1>1, <1>2 DEF Latest

\* What the worker's first step finds.
LEMMA GrantFinds ==
  ASSUME AttachedTypeOK, AttachedFiles, Unlaunched, Grant
  PROVE  /\ stateFile.state = "queued"
         /\ stateFile.attempt \in Attempts
         /\ launches[stateFile.attempt] = 0
         /\ pc = "off" /\ pc' = "attempt"
         /\ state' = [NoRecord EXCEPT !.attempt = stateFile.attempt]
         /\ UNCHANGED <<stateFile, captured, launches, clean, marked, payload, after>>
<1>1. stateFile.state = "queued" /\ launches[stateFile.attempt] = 0 /\ pc = "off"
  BY DEF Unlaunched, Grant
<1>2. stateFile.attempt \in Attempts /\ stateFile.attempt \in Nat \ {0}
  BY <1>1, DriverAssumption
     DEF DriverAssumption, AttachedFiles, AttachedTypeOK, Records, Attempts
<1>3. begun = 1 .. stateFile.attempt
  BY <1>1 DEF AttachedFiles, Complete
<1>4. Latest = stateFile.attempt
  BY <1>2, <1>3, LatestIs
<1> QED
  BY <1>1, <1>2, <1>4 DEF Grant, recordVars, linkVars, payloadVars, historyVars

\* The record of the attempt that the supervisor begins.
LEMMA SupBeginExtends ==
  ASSUME AttachedTypeOK, AttachedFiles, SupKnows, SupBegin
  PROVE  \/ /\ begun' = begun /\ sup' = "off" /\ outcome' \in {"one", "raised"}
            /\ supState' = NoRecord /\ supAfter' = "loop"
            /\ stateFile.state \in {"none", "paused"}
         \/ /\ begun' = begun \cup {supState'.attempt}
            /\ begun' = 1 .. supState'.attempt
            /\ sup' = "receipt" /\ supAfter' = "spawn" /\ outcome' = outcome
            /\ supState' = Queued(stateFile)
            /\ supState' \in Records
            /\ supState'.attempt \in Attempts
            /\ supState'.attempt = stateFile.attempt + 1
            /\ stateFile = NoRecord \/ stateFile.state = "paused"
<1> USE DriverAssumption DEF DriverAssumption
<1>1. supState = stateFile /\ sup = "loop"
  BY DEF SupKnows, SupBegin
<1>2. \/ stateFile = NoRecord
      \/ /\ stateFile.state = "paused" /\ Complete
         /\ stateFile.attempt < MaxAttempts
  BY <1>1 DEF SupKnows
<1>3. stateFile.attempt \in Nat /\ stateFile.attempt + 1 \in Attempts
  BY <1>2 DEF AttachedTypeOK, Records, NoRecord, Attempts
<1>4. stateFile.artifacts \in 0 .. MaxAttempts /\ 1 \in 0 .. MaxAttempts
  BY DEF AttachedTypeOK, Records
<1>5. /\ Queued(stateFile) \in Records
      /\ Queued(stateFile).attempt = stateFile.attempt + 1
  BY <1>3, <1>4 DEF Queued, Records, States, Attempts
<1>6. CASE supStopped \/ Queued(stateFile).attempt \in begun
  BY <1>1, <1>2, <1>6 DEF SupBegin, SupReturn, NoRecord
<1>7. CASE ~supStopped /\ Queued(stateFile).attempt \notin begun
  <2>1. /\ begun' = begun \cup {stateFile.attempt + 1}
        /\ sup' = "receipt" /\ supAfter' = "spawn" /\ outcome' = outcome
        /\ supState' = Queued(stateFile)
    BY <1>1, <1>5, <1>7 DEF SupBegin, SupRecord
  <2>2. begun = 1 .. stateFile.attempt
    BY <1>2, <1>3, <1>5, <1>7 DEF AttachedFiles, Complete, NoRecord
  <2>3. begun' = 1 .. (stateFile.attempt + 1)
    BY <1>3, <2>1, <2>2
  <2> QED
    BY <1>2, <1>3, <1>5, <2>1, <2>3
<1> QED
  BY <1>6, <1>7

\* The two ways of the supervisor's record(): a successor, or its verdict.
LEMMA SupWrites ==
  ASSUME SupKnows, SupWrite
  PROVE  /\ stateFile' = supState
         /\ \/ /\ Beginning /\ sup' = "spawn"
               /\ UNCHANGED <<supState, supAfter, outcome>>
            \/ /\ Concluding /\ sup' = "off" /\ outcome' = "one"
               /\ supState' = NoRecord /\ supAfter' = "loop"
<1>1. sup = "state" /\ supAfter \in {"spawn", "off"}
  BY DEF SupKnows, SupWrite
<1> QED
  BY <1>1 DEF SupWrite, SupReturn, Beginning, Concluding

LEMMA AttachedTypeStep == AInv /\ [AttachedNext]_attachedVars => AttachedTypeOK'
<1> SUFFICES ASSUME AInv, [AttachedNext]_attachedVars PROVE AttachedTypeOK'
  OBVIOUS
<1> /\ AttachedTypeOK /\ AttachedFiles /\ SupKnows /\ WorkerKnows /\ PayloadPlaced
    /\ Unlaunched
  BY DEF AInv
<1> USE NoRecordType, DriverAssumption
    DEF DriverAssumption, slurmVars, recordVars, linkVars, memoryVars, payloadVars,
        historyVars, supVars, sallocVars, workerUnchanged, supervisorUnchanged
<1>1. CASE SupMove
  <2>1. UNCHANGED <<marked, captured, pc, state, payload, launches, clean>>
    BY <1>1, SupLeaves
  <2>2. faults' \in 0 .. MaxFaults
    BY <1>1 DEF AttachedTypeOK, SupMove, SupStep, SupStart, SupBegin, SupReceipt, SupWrite,
       SupSpawn, SupHangUp, SupWaitExit, SupRead, SupJudge, SupNext, SupSignal, SupKill,
       SupRestart
  <2>3. stateFile' \in Records
    BY <1>1, SupLeaves, SupWrites DEF AttachedTypeOK
  <2>4. begun' \subseteq Attempts
    BY <1>1, SupLeaves, SupBeginExtends DEF AttachedTypeOK
  <2>5. /\ sup' \in {"start", "loop", "receipt", "state", "spawn", "wait", "hup", "look",
                     "judge", "next", "off"}
        /\ supState' \in Records
        /\ supAfter' \in {"loop", "spawn", "off"}
        /\ outcome' \in {"none", "zero", "one", "raised"}
        /\ salloc' \in {"none", "pending", "granted", "exited"}
    <3> USE DEF AttachedTypeOK
    <3>1. CASE SupStart \/ SupReceipt \/ SupSpawn \/ SupHangUp \/ SupWaitExit
      BY <3>1 DEF SupStart, SupReceipt, SupSpawn, SupHangUp, SupWaitExit, SupReturn
    <3>2. CASE SupBegin
      BY <1>1, <3>2, SupBeginExtends DEF SupBegin
    <3>3. CASE SupWrite
      BY <3>3, SupWrites DEF SupWrite
    <3>4. CASE SupRead \/ SupNext
      BY <3>4 DEF SupRead, SupNext, SupReturn
    <3>5. CASE SupJudge
      <4>1. /\ [supState EXCEPT !.state = "stopped"] \in Records
            /\ [supState EXCEPT !.state = "failed"] \in Records
        BY StateUpdate, StateNames
      <4> QED
        BY <3>5, <4>1 DEF SupJudge, SupRecord
    <3>6. CASE SupSignal \/ SupKill \/ SupRestart
      BY <3>6 DEF SupSignal, SupKill, SupRestart, SupReturn
    <3> QED
      BY <1>1, <3>1, <3>2, <3>3, <3>4, <3>5, <3>6 DEF SupMove, SupStep
  <2> QED
    BY <2>1, <2>2, <2>3, <2>4, <2>5 DEF AttachedTypeOK
<1>2. CASE WorkerSide
  <2>1. /\ UNCHANGED <<sup, supState, supAfter, outcome, begun>>
        /\ salloc' \in {"none", "pending", "granted", "exited"}
    BY <1>2, WorkerLeaves DEF AttachedTypeOK
  <2>2. stateFile' \in Records
    BY <1>2, WorkerLeaves DEF WriteState, AttachedTypeOK
  <2> USE DEF AttachedTypeOK
  <2>3. SUFFICES /\ faults' \in 0 .. MaxFaults
                 /\ marked' \subseteq Attempts
                 /\ captured' \in [Attempts -> SUBSET Outputs]
                 /\ pc' \in Steps \ {"batch"}
                 /\ state' \in Records
                 /\ payload' \in [phase : PayloadPhases, code : {0, 1}]
                 /\ launches' \in [Attempts -> Nat]
                 /\ clean' \subseteq Attempts
    BY <2>1, <2>2
  <2>4. ~WorkerDone => state.attempt \in Attempts
    BY AttachedAtWork
  <2>5. CASE Grant
    BY <2>5, GrantFinds DEF Grant, Steps, NoRecord, Records, States, Attempts
  <2>6. CASE Refuse \/ SallocEnds
    BY <2>6 DEF Refuse, SallocEnds
  <2>7. CASE WorkerGone \/ WorkerKill
    BY <2>7 DEF WorkerGone, WorkerKill, WorkerEnds, DriverGone, NoPayload, PayloadPhases, Steps
  <2>8. CASE WorkerRefuse \/ WorkerReturn \/ WriteReceipt
    BY <2>8 DEF WorkerRefuse, WorkerReturn, WriteReceipt, Exit, Steps
  <2>9. CASE WriteState
    BY <2>9 DEF WriteState, WorkerKnows, Steps
  <2>10. CASE AttemptCancelled
    <3>1. state' \in Records
      BY <2>10, StateUpdate, StateNames DEF AttemptCancelled, Record
    <3> QED
      BY <2>10, <3>1 DEF AttemptCancelled, Record, Steps
  <2>11. CASE AttemptStart
    <3>1. state' \in Records
      BY <2>11, NativeUpdate, StateNames DEF AttemptStart, Record
    <3> QED
      BY <2>11, <3>1 DEF AttemptStart, Record, Steps
  <2>12. CASE Spawn
    BY <2>4, <2>12 DEF Spawn, Steps, PayloadPhases, WorkerDone
  <2>13. CASE SpawnRaises
    <3>1. state' \in Records
      BY <2>13, StateUpdate, StateNames DEF SpawnRaises
    <3> QED
      BY <2>13, <3>1 DEF SpawnRaises, Steps
  <2>14. CASE WaitRequest \/ WaitExit
    BY <2>14 DEF WaitRequest, WaitExit, Steps
  <2>15. CASE WaitStop
    BY <2>15 DEF WaitStop, Steps, PayloadPhases
  <2>16. CASE Judge
    <3>1. Verdict \in States
      BY DEF Verdict, States
    <3>2. state' \in Records
      BY <2>16, <3>1, StateUpdate DEF Judge
    <3> QED
      BY <2>16, <3>2 DEF Judge, Steps
  <2>17. CASE Seal
    <3>1. RetainedBy(state) \in 0 .. MaxAttempts
      BY DEF RetainedBy, Records
    <3>2. can_continue(state) \in BOOLEAN
      BY DEF can_continue
    <3>3. state' \in Records
      BY <2>17, <3>1, <3>2, SealUpdate DEF Seal, Record
    <3> QED
      BY <2>17, <3>3 DEF Seal, Record, NoPayload, PayloadPhases, Steps
  <2>18. CASE PayloadStep
    <3>1. PayloadRuns => state.attempt \in Attempts
      BY <2>4, AttachedAtWork DEF PayloadRuns
    <3> QED
      BY <2>18, <3>1 DEF PayloadStep, Prepare, SaveOutput, MarkPaused, EntrypointReturns,
         Capture, CaptureFails, PayloadReturns, PayloadExits, payloadUnchanged,
         PayloadPhases, Required, PayloadRuns
  <2>19. CASE Deadline \/ SigtermDriver \/ TouchStop \/ Terminate("cancel")
    BY <2>19 DEF Deadline, PauseSignal, SigtermDriver, TouchStop, Terminate
  <2>20. CASE SigtermPayload
    BY <2>20 DEF SigtermPayload, PayloadExits, payloadUnchanged, PayloadPhases
  <2> QED
    BY <1>2, <2>5, <2>6, <2>7, <2>8, <2>9, <2>10, <2>11, <2>12, <2>13, <2>14, <2>15,
       <2>16, <2>17, <2>18, <2>19, <2>20 DEF WorkerSide, WorkerStep
<1>3. CASE UNCHANGED attachedVars
  BY <1>3 DEF attachedVars, vars, AttachedTypeOK
<1> QED
  BY <1>1, <1>2, <1>3, Sides


-----------------------------------------------------------------------------
(* The files, and who still has a word to say about them. *)

\* A worker that has started has its attempt's record in state.json, and writes
\* no other.
LEMMA WorkerWrites ==
  ASSUME AttachedTypeOK, AttachedFiles, LastWord, WorkerKnows, WriteState
  PROVE  /\ stateFile' = state
         /\ state.attempt = stateFile.attempt
         /\ stateFile.state # "none" /\ stateFile.attempt \in Attempts
         /\ stateFile.state \notin {"paused", "completed"}
         /\ Complete
         /\ \/ state.state = "running" /\ pc' = "spawn"
            \/ state.state \in Settled /\ pc' = "requeue"
         /\ UNCHANGED <<begun, state, after, captured, clean, marked, payload, launches>>
<1> USE DEF recordVars, linkVars, memoryVars, payloadVars, historyVars
<1>1. pc = "state" /\ ~WorkerDone
  BY DEF WriteState, WorkerDone
<1>2. stateFile.state # "none" /\ stateFile.state \notin {"paused", "completed"}
  BY <1>1 DEF LastWord, AttachedFiles
<1>3. stateFile.attempt \in Attempts
  BY <1>2, DriverAssumption
     DEF DriverAssumption, AttachedFiles, AttachedTypeOK, Records, Attempts
<1> QED
  BY <1>1, <1>2, <1>3 DEF WriteState, WorkerKnows, AttachedFiles

LEMMA AttachedFilesStep == AInv /\ [AttachedNext]_attachedVars => AttachedFiles'
<1> SUFFICES ASSUME AInv, [AttachedNext]_attachedVars PROVE AttachedFiles'
  OBVIOUS
<1> /\ AttachedTypeOK /\ AttachedFiles /\ LastWord /\ SupKnows /\ WorkerKnows
    /\ Unlaunched
  BY DEF AInv
<1>1. CASE SupMove
  <2>1. pc' = pc
    BY <1>1, SupLeaves
  <2>2. CASE SupBegin
    <3>1. stateFile' = stateFile /\ salloc' = salloc
      BY <2>2 DEF SupBegin, recordVars, sallocVars
    <3> QED
      BY <2>1, <2>2, <3>1, SupBeginExtends DEF AttachedFiles, Complete, NoRecord
  <2>3. CASE SupWrite
    <3>1. stateFile' = supState /\ begun' = begun
      BY <2>3, SupWrites DEF SupWrite
    <3>2. CASE Beginning
      <4>1. /\ supState.attempt = stateFile.attempt + 1 /\ supState.state = "queued"
            /\ begun = 1 .. supState.attempt
        BY <3>2 DEF SupKnows, Queued
      <4>2. stateFile.attempt \in Nat
        BY DEF AttachedTypeOK, Records
      <4> QED
        BY <3>1, <4>1, <4>2 DEF AttachedFiles, Complete
    <3>3. CASE Concluding
      BY <3>1, <3>3 DEF SupKnows, AttachedFiles, Complete
    <3> QED
      BY <2>3, <3>2, <3>3, SupWrites
  <2>4. CASE SupSpawn
    BY <2>4, <1>1, SupLeaves DEF SupSpawn, SupKnows, AttachedFiles, Complete, recordVars
  <2>5. CASE ~SupBegin /\ ~SupWrite /\ ~SupSpawn
    BY <1>1, <2>5, SupLeaves DEF AttachedFiles, Complete
  <2> QED
    BY <2>2, <2>3, <2>4, <2>5
<1>2. CASE WorkerSide
  <2>1. begun' = begun /\ (salloc' = salloc \/ salloc' \in {"granted", "exited"})
    BY <1>2, WorkerLeaves
  <2>2. CASE WriteState
    BY <2>2, WorkerWrites DEF AttachedFiles, Complete, Settled, WriteState
  <2>3. CASE stateFile' = stateFile
    <3>1. stateFile.state = "none" => pc' = "off"
      <4> SUFFICES ASSUME stateFile.state = "none" PROVE pc' = "off"
        OBVIOUS
      <4>1. pc = "off" /\ salloc # "pending"
        BY DEF AttachedFiles
      <4>2. ~Grant
        BY <4>1 DEF Grant
      <4>3. ~WorkerStep
        BY <4>1 DEF WorkerStep, WorkerRefuse, AttemptCancelled, AttemptStart, Spawn,
           SpawnRaises, WaitRequest, WaitStop, WaitExit, Judge, Seal, WriteReceipt,
           WriteState, WorkerReturn
      <4> QED
        BY <1>2, <4>1, <4>2, <4>3, WorkerBystanders
    <3> QED
      BY <2>1, <2>3, <3>1 DEF AttachedFiles, Complete
  <2> QED
    BY <1>2, <2>2, <2>3, WorkerLeaves
<1>3. CASE UNCHANGED attachedVars
  BY <1>3 DEF attachedVars, vars, recordVars, sallocVars, AttachedFiles, Complete
<1> QED
  BY <1>1, <1>2, <1>3, Sides

\* The supervisor writes over a worker that is done, or writes no last word; and a
\* worker that has said its last word only ends.
LEMMA LastWordStep == AInv /\ [AttachedNext]_attachedVars => LastWord'
<1> SUFFICES ASSUME AInv, [AttachedNext]_attachedVars,
                    stateFile'.state \in {"paused", "completed"}
             PROVE  WorkerDone'
  BY DEF LastWord
<1> /\ AttachedTypeOK /\ AttachedFiles /\ LastWord /\ SupKnows /\ WorkerKnows
    /\ Unlaunched
  BY DEF AInv
<1>1. CASE SupMove
  <2>1. ~SupWrite
    <3> SUFFICES ASSUME SupWrite PROVE FALSE
      OBVIOUS
    <3>1. supState.state \in {"queued", "stopped", "failed"}
      BY SupWrites DEF SupKnows, Queued
    <3> QED
      BY <3>1, SupWrites
  <2> QED
    BY <1>1, <2>1, SupLeaves DEF LastWord, WorkerDone
<1>2. CASE WorkerSide
  <2>1. CASE WriteState
    BY <2>1, WorkerWrites DEF WorkerDone
  <2>2. CASE ~WriteState
    <3>1. WorkerDone /\ stateFile.state \in {"paused", "completed"}
      BY <1>2, <2>2, WorkerLeaves DEF LastWord
    <3>2. ~Grant
      BY <3>1 DEF Grant, Unlaunched
    <3>3. CASE WorkerStep
      BY <3>1, <3>3 DEF WorkerDone, WorkerStep, WorkerRefuse, AttemptCancelled,
         AttemptStart, Spawn, SpawnRaises, WaitRequest, WaitStop, WaitExit, Judge, Seal,
         WriteReceipt, WriteState, WorkerReturn, Exit
    <3> QED
      BY <1>2, <3>1, <3>2, <3>3, WorkerBystanders DEF WorkerDone
  <2> QED
    BY <2>1, <2>2
<1>3. CASE UNCHANGED attachedVars
  BY <1>3 DEF attachedVars, vars, recordVars, LastWord, WorkerDone
<1> QED
  BY <1>1, <1>2, <1>3, Sides


\* The supervisor begins a successor when the worker is done and no salloc is queued.
LEMMA BeginningFinds ==
  ASSUME AttachedFiles, LastWord, SupKnows, Unlaunched, Beginning
  PROVE  /\ WorkerDone
         /\ salloc # "pending"
         /\ supState.state = "queued"
         /\ supState.attempt = stateFile.attempt + 1
         /\ stateFile.state \in {"none", "paused"}
BY DEF AttachedFiles, LastWord, SupKnows, Unlaunched, WorkerDone, Queued, NoRecord

LEMMA SupKnowsStep == AInv /\ [AttachedNext]_attachedVars => SupKnows'
<1> SUFFICES ASSUME AInv, [AttachedNext]_attachedVars PROVE SupKnows'
  OBVIOUS
<1> /\ AttachedTypeOK /\ AttachedFiles /\ LastWord /\ SupKnows /\ WorkerKnows
    /\ Unlaunched
  BY DEF AInv
<1>1. CASE SupMove
  <2> USE DEF Beginning, Concluding, Complete, recordVars, sallocVars, workerUnchanged
  <2>1. CASE SupStart
    BY <2>1 DEF SupStart, SupReturn, SupKnows, NoRecord
  <2>2. CASE SupBegin
    <3>1. stateFile' = stateFile
      BY <2>2 DEF SupBegin
    <3>2. outcome \notin {"zero", "one"}
      BY <2>2 DEF SupBegin, SupKnows
    <3>3. CASE sup' = "off" /\ outcome' \in {"one", "raised"}
      BY <3>1, <3>3 DEF SupKnows
    <3>4. CASE /\ sup' = "receipt" /\ supAfter' = "spawn" /\ outcome' = outcome
               /\ supState' = Queued(stateFile)
               /\ begun' = 1 .. supState'.attempt
               /\ stateFile = NoRecord \/ stateFile.state = "paused"
      BY <3>1, <3>2, <3>4 DEF SupKnows, Queued
    <3> QED
      BY <2>2, <3>3, <3>4, SupBeginExtends
  <2>3. CASE SupReceipt
    BY <2>3 DEF SupReceipt, SupKnows
  <2>4. CASE SupWrite
    <3>1. CASE Beginning
      <4>1. UNCHANGED <<pc, salloc>>
        BY <1>1, <2>4, SupLeaves DEF SupWrite
      <4>2. WorkerDone /\ salloc # "pending" /\ supState.state = "queued"
        BY <3>1, BeginningFinds
      <4>3. stateFile' = supState /\ sup' = "spawn" /\ UNCHANGED <<supState, supAfter, outcome>>
        BY <2>4, <3>1, SupWrites
      <4>4. outcome \notin {"zero", "one"}
        BY <3>1 DEF SupKnows
      <4> QED
        BY <4>1, <4>2, <4>3, <4>4 DEF SupKnows, WorkerDone
    <3>2. CASE Concluding
      <4>1. sup' = "off" /\ outcome' = "one"
        BY <2>4, <3>2, SupWrites
      <4> QED
        BY <4>1 DEF SupKnows
    <3> QED
      BY <2>4, <3>1, <3>2, SupWrites
  <2>5. CASE SupSpawn
    <3>1. stateFile.state = "queued" /\ Complete
      BY <2>5 DEF SupSpawn, SupKnows, AttachedFiles
    <3> QED
      BY <2>5, <3>1 DEF SupSpawn, SupReturn, SupKnows
  <2>6. CASE SupHangUp \/ SupWaitExit
    BY <2>6 DEF SupHangUp, SupWaitExit, SupKnows
  <2>7. CASE SupRead
    BY <2>7 DEF SupRead, SupKnows
  <2>8. CASE SupJudge
    <3>1. supState \in Records
      BY DEF AttachedTypeOK
    <3>2. CASE /\ sup' = "receipt" /\ supAfter' = "off" /\ outcome' = outcome
               /\ \E s \in {"stopped", "failed"} : supState' = [supState EXCEPT !.state = s]
      <4>1. supState'.attempt = supState.attempt /\ supState'.state \in {"stopped", "failed"}
        BY <3>1, <3>2 DEF Records
      <4> QED
        BY <2>8, <3>2, <4>1 DEF SupJudge, SupKnows
    <3>3. CASE /\ sup' = "next" /\ Succeeded(supState)
               /\ UNCHANGED <<supState, supAfter, outcome>>
      <4>1. supState = stateFile /\ stateFile.state \in {"paused", "completed"}
        BY <2>8, <3>3 DEF SupJudge, SupKnows, Succeeded
      <4> QED
        BY <2>8, <3>3, <4>1 DEF SupJudge, SupKnows
    <3> QED
      BY <2>8, <3>2, <3>3 DEF SupJudge, SupRecord
  <2>9. CASE SupNext
    BY <2>9 DEF SupNext, SupReturn, supCanContinue, SupKnows
  <2>10. CASE SupSignal \/ SupKill \/ SupRestart
    BY <2>10 DEF SupSignal, SupKill, SupRestart, SupReturn, SupKnows, WorkerDone
  <2> QED
    BY <1>1, <2>1, <2>2, <2>3, <2>4, <2>5, <2>6, <2>7, <2>8, <2>9, <2>10
       DEF SupMove, SupStep
<1>2. CASE WorkerSide
  <2>1. /\ UNCHANGED <<sup, supState, supAfter, outcome, begun>>
        /\ salloc' = salloc \/ salloc' \in {"granted", "exited"}
    BY <1>2, WorkerLeaves
  <2> USE DEF Beginning, Concluding
  <2>2. CASE WriteState
    <3>1. ~WorkerDone /\ stateFile.state \notin {"none", "paused", "completed"}
      BY <2>2, WorkerWrites DEF WriteState, WorkerDone
    <3>2. /\ sup \notin {"loop", "spawn", "next"} /\ ~Beginning /\ outcome # "zero"
          /\ ~(sup = "judge" /\ supState.state \in {"paused", "completed"})
      BY <3>1 DEF SupKnows, NoRecord
    <3>3. stateFile'.attempt = stateFile.attempt /\ stateFile'.state # "none"
      BY <2>2, WorkerWrites DEF Settled
    <3> QED
      BY <2>1, <3>2, <3>3 DEF SupKnows, Complete
  <2>3. CASE ~WriteState
    <3>1. stateFile' = stateFile
      BY <1>2, <2>3, WorkerLeaves
    <3>2. ASSUME sup = "spawn" PROVE WorkerDone'
      <4>1. WorkerDone /\ salloc # "pending"
        BY <3>2 DEF SupKnows
      <4>2. ~Grant
        BY <4>1 DEF Grant
      <4>3. CASE WorkerStep
        BY <4>1, <4>3 DEF WorkerDone, WorkerStep, WorkerRefuse, AttemptCancelled,
           AttemptStart, Spawn, SpawnRaises, WaitRequest, WaitStop, WaitExit, Judge, Seal,
           WriteReceipt, WriteState, WorkerReturn, Exit
      <4> QED
        BY <1>2, <4>1, <4>2, <4>3, WorkerBystanders DEF WorkerDone
    <3> QED
      BY <2>1, <3>1, <3>2 DEF SupKnows, Complete
  <2> QED
    BY <2>2, <2>3
<1>3. CASE UNCHANGED attachedVars
  BY <1>3 DEF attachedVars, vars, recordVars, supVars, sallocVars, SupKnows, Beginning,
     Concluding, Complete, WorkerDone
<1> QED
  BY <1>1, <1>2, <1>3, Sides

LEMMA WorkerKnowsStep == AInv /\ [AttachedNext]_attachedVars => WorkerKnows'
<1> SUFFICES ASSUME AInv, [AttachedNext]_attachedVars PROVE WorkerKnows'
  OBVIOUS
<1> /\ AttachedTypeOK /\ AttachedFiles /\ LastWord /\ SupKnows /\ WorkerKnows
    /\ Unlaunched /\ PayloadPlaced
  BY DEF AInv
<1> USE DEF WorkerKnows, WorkerDone
<1>1. CASE SupMove
  <2>1. UNCHANGED <<pc, state, after>>
    BY <1>1, SupLeaves
  <2>2. CASE SupWrite /\ Beginning
    BY <2>1, <2>2, BeginningFinds
  <2>3. CASE SupWrite /\ Concluding
    BY <2>1, <2>3, SupWrites DEF SupKnows
  <2>4. CASE stateFile' = stateFile
    BY <2>1, <2>4
  <2> QED
    BY <1>1, <2>2, <2>3, <2>4, SupLeaves, SupWrites
<1>2. CASE WorkerSide
  <2>1. CASE ~WorkerStep
    <3>1. stateFile' = stateFile
      BY <1>2, <2>1, WorkerBystanders
    <3>2. CASE Grant
      BY <3>1, <3>2, GrantFinds DEF NoRecord
    <3> QED
      BY <1>2, <2>1, <3>1, <3>2, WorkerBystanders
  <2> USE DEF recordVars, memoryVars, supervisorUnchanged
  <2>2. CASE WorkerRefuse \/ WorkerReturn \/ WriteReceipt
    BY <2>2 DEF WorkerRefuse, WorkerReturn, WriteReceipt, Exit
  <2>3. CASE WriteState
    BY <2>3, WorkerWrites
  <2>4. CASE AttemptCancelled \/ AttemptStart
    BY <2>4 DEF AttemptCancelled, AttemptStart, Record, AttachedTypeOK, Records, Settled
  <2>5. CASE Spawn \/ WaitRequest \/ WaitStop \/ WaitExit
    BY <2>5 DEF Spawn, WaitRequest, WaitStop, WaitExit
  <2>6. CASE SpawnRaises
    BY <2>6 DEF SpawnRaises, AttachedTypeOK, Records, Settled
  <2>7. CASE Judge
    <3>1. Verdict \in Settled
      BY DEF Verdict, Settled
    <3> QED
      BY <2>7, <3>1 DEF Judge, AttachedTypeOK, Records
  <2>8. CASE Seal
    BY <2>8 DEF Seal, Record, AttachedTypeOK, Records
  <2> QED
    BY <1>2, <2>1, <2>2, <2>3, <2>4, <2>5, <2>6, <2>7, <2>8 DEF WorkerStep
<1>3. CASE UNCHANGED attachedVars
  BY <1>3 DEF attachedVars, vars, recordVars, memoryVars
<1> QED
  BY <1>1, <1>2, <1>3, Sides

LEMMA AttachedPlaceStep == AInv /\ [AttachedNext]_attachedVars => PayloadPlaced'
<1> SUFFICES ASSUME AInv, [AttachedNext]_attachedVars PROVE PayloadPlaced'
  OBVIOUS
<1> AttachedTypeOK /\ PayloadPlaced /\ Unlaunched
  BY DEF AInv
<1> USE DEF PayloadPlaced, PayloadRuns
<1>1. CASE SupMove
  BY <1>1, SupLeaves
<1>2. CASE WorkerSide
  <2> USE DEF payloadVars, memoryVars, workerUnchanged, historyVars
  <2>1. CASE Grant \/ Refuse \/ SallocEnds
    BY <2>1 DEF Grant, Refuse, SallocEnds, Unlaunched
  <2>2. CASE WorkerGone \/ WorkerKill
    BY <2>2 DEF WorkerGone, WorkerKill, WorkerEnds, DriverGone, NoPayload
  <2>3. CASE \/ WorkerRefuse \/ WorkerReturn \/ WriteReceipt
             \/ AttemptCancelled \/ AttemptStart
    BY <2>3 DEF WorkerRefuse, WorkerReturn, WriteReceipt, AttemptCancelled, AttemptStart,
       Record, Exit
  <2>4. CASE WriteState
    BY <2>4 DEF WriteState, AInv, WorkerKnows
  <2>5. CASE Spawn \/ WaitRequest \/ WaitExit
    BY <2>5 DEF Spawn, WaitRequest, WaitExit
  <2>6. CASE WaitStop
    <3>1. payload.phase # "exited" => PayloadRuns
      BY <2>6 DEF AttachedTypeOK, PayloadPhases, WaitStop
    <3> QED
      BY <2>6, <3>1 DEF WaitStop
  <2>7. CASE SpawnRaises \/ Judge
    BY <2>7 DEF SpawnRaises, Judge
  <2>8. CASE Seal
    BY <2>8 DEF Seal, Record, NoPayload
  <2>9. CASE PayloadStep \/ SigtermPayload
    BY <2>9 DEF PayloadStep, Prepare, SaveOutput, MarkPaused, EntrypointReturns,
       Capture, CaptureFails, PayloadReturns, SigtermPayload, PayloadExits,
       payloadUnchanged, AttachedTypeOK
  <2>10. CASE Deadline \/ SigtermDriver \/ TouchStop \/ Terminate("cancel")
    BY <2>10 DEF Deadline, PauseSignal, SigtermDriver, TouchStop, Terminate
  <2> QED
    BY <1>2, <2>1, <2>2, <2>3, <2>4, <2>5, <2>6, <2>7, <2>8, <2>9, <2>10
       DEF WorkerSide, WorkerStep
<1>3. CASE UNCHANGED attachedVars
  BY <1>3 DEF attachedVars, vars, payloadVars
<1> QED
  BY <1>1, <1>2, <1>3, Sides


-----------------------------------------------------------------------------
(* How often a payload is started. *)

\* A step of the supervisor hands on only attempts that have not been started.
LEMMA SupUnlaunched == AInv /\ SupMove => Unlaunched'
<1> SUFFICES ASSUME AInv, SupMove PROVE Unlaunched'
  OBVIOUS
<1> /\ AttachedTypeOK /\ AttachedFiles /\ LastWord /\ SupKnows /\ Unlaunched
  BY DEF AInv
<1>1. UNCHANGED <<pc, state, after, launches>>
  BY SupLeaves
<1>2. CASE SupWrite /\ Beginning
  <2>1. /\ salloc # "pending" /\ supState.attempt = stateFile.attempt + 1
    BY <1>2, BeginningFinds
  <2>2. stateFile.attempt \in Nat /\ supState.attempt \in Attempts
    BY <2>1, DriverAssumption DEF DriverAssumption, AttachedTypeOK, Records, Attempts
  <2>3. launches[supState.attempt] = 0
    BY <2>1, <2>2 DEF Unlaunched, AttachedTypeOK, Attempts
  <2>4. \A n \in Attempts : launches[n] > 0 => n <= supState.attempt
    BY <2>1, <2>2 DEF Unlaunched, Attempts
  <2>5. stateFile' = supState /\ salloc' = salloc
    BY <1>2 DEF SupWrite, sallocVars
  <2> QED
    BY <1>1, <2>1, <2>3, <2>4, <2>5 DEF Unlaunched, BeforeSpawn
<1>3. CASE SupWrite /\ Concluding
  <2>1. /\ stateFile'.attempt = stateFile.attempt /\ salloc # "pending" /\ sup' = "off"
    BY <1>3, SupWrites DEF SupKnows, Beginning, Concluding
  <2>2. salloc' = salloc
    BY <1>3 DEF SupWrite, sallocVars
  <2> QED
    BY <1>1, <2>1, <2>2 DEF Unlaunched, BeforeSpawn
<1>4. CASE SupSpawn
  <2>1. stateFile.state = "queued" /\ launches[stateFile.attempt] = 0 /\ pc = "off"
    BY <1>4 DEF SupSpawn, SupKnows, Unlaunched
  <2> QED
    BY <1>1, <1>4, <2>1 DEF SupSpawn, SupReturn, recordVars, Unlaunched, BeforeSpawn
<1>5. CASE ~SupWrite /\ ~SupSpawn
  <2>1. stateFile' = stateFile /\ salloc' = salloc
    BY <1>5, SupLeaves
  <2>2. sup' = "spawn" => sup = "spawn"
    <3>1. CASE SupStart \/ SupBegin \/ SupReceipt \/ SupHangUp \/ SupWaitExit
      BY <3>1 DEF SupStart, SupBegin, SupReceipt, SupHangUp, SupWaitExit, SupReturn, SupRecord
    <3>2. CASE SupRead \/ SupJudge \/ SupNext
      BY <3>2 DEF SupRead, SupJudge, SupNext, SupReturn, SupRecord
    <3>3. CASE SupSignal \/ SupKill \/ SupRestart
      BY <3>3 DEF SupSignal, SupKill, SupRestart, SupReturn
    <3> QED
      BY <1>5, <3>1, <3>2, <3>3 DEF SupMove, SupStep
  <2> QED
    BY <1>1, <2>1, <2>2 DEF Unlaunched, BeforeSpawn
<1> QED
  BY <1>2, <1>3, <1>4, <1>5, SupWrites

\* Of the worker's steps, only Grant starts a worker and only Spawn a payload.
LEMMA WorkerUnlaunched == AInv /\ WorkerSide => Unlaunched' /\ AtMostOnce'
<1> SUFFICES ASSUME AInv, WorkerSide PROVE Unlaunched' /\ AtMostOnce'
  OBVIOUS
<1> /\ AttachedTypeOK /\ AttachedFiles /\ LastWord /\ SupKnows /\ WorkerKnows
    /\ PayloadPlaced /\ Unlaunched /\ AtMostOnce
  BY DEF AInv
<1>1. sup' = sup /\ (salloc' = "pending" => salloc = "pending")
  BY WorkerLeaves
<1> USE DEF memoryVars, historyVars, recordVars
<1>2. CASE Spawn
  <2>1. /\ pc = "spawn" /\ pc' = "wait" /\ stateFile' = stateFile /\ state' = state
        /\ launches' = [launches EXCEPT ![state.attempt] = @ + 1]
    BY <1>2 DEF Spawn
  <2>2. state.attempt = stateFile.attempt /\ state.attempt \in Attempts
    BY <2>1, AttachedAtWork DEF WorkerDone
  <2>3. launches[state.attempt] = 0
    BY <2>1 DEF Unlaunched, BeforeSpawn
  <2>4. \A n \in Attempts : launches'[n] = IF n = state.attempt THEN 1 ELSE launches[n]
    BY <2>1, <2>2, <2>3 DEF AttachedTypeOK
  <2>5. sup # "spawn" /\ salloc' # "pending"
    BY <1>1, <2>1 DEF SupKnows, WorkerDone, Unlaunched
  <2>6. \A n \in Attempts : launches'[n] > 0 => n <= stateFile'.attempt
    BY <2>1, <2>2, <2>4 DEF Unlaunched, Attempts
  <2> QED
    BY <1>1, <2>1, <2>4, <2>5, <2>6 DEF Unlaunched, BeforeSpawn, AtMostOnce
<1>3. CASE WriteState
  <2>1. pc = "state" /\ stateFile' = state /\ state.attempt = stateFile.attempt
    BY <1>3, WorkerWrites DEF WriteState
  <2>2. UNCHANGED <<state, after, launches>>
    BY <1>3, WorkerWrites
  <2>3. BeforeSpawn' => BeforeSpawn
    BY <1>3, <2>1, <2>2, WorkerWrites DEF WriteState, BeforeSpawn, WorkerKnows
  <2> QED
    BY <1>1, <2>1, <2>2, <2>3 DEF Unlaunched, AtMostOnce
<1>4. CASE Grant
  <2>1. salloc' = "granted"
    BY <1>4 DEF Grant
  <2>2. state'.attempt = stateFile.attempt
    BY <1>4, GrantFinds DEF NoRecord
  <2> QED
    BY <1>1, <1>4, <2>1, <2>2, GrantFinds DEF Unlaunched, AtMostOnce
<1>5. CASE ~Spawn /\ ~WriteState /\ ~Grant
  <2>1. stateFile' = stateFile /\ launches' = launches
    BY <1>5, WorkerLeaves
  <2>2. \/ UNCHANGED <<pc, state, after>>
        \/ pc' = "off"
        \/ /\ pc # "off" /\ ~BeforeSpawn'
        \/ pc # "off" /\ BeforeSpawn /\ state'.attempt = state.attempt
    <3>1. CASE ~WorkerStep
      BY <1>5, <3>1, WorkerBystanders
    <3>2. CASE WorkerRefuse \/ WorkerReturn \/ WriteReceipt
      BY <3>2 DEF WorkerRefuse, WorkerReturn, WriteReceipt, Exit, BeforeSpawn
    <3>3. CASE AttemptCancelled \/ AttemptStart
      BY <3>3 DEF AttemptCancelled, AttemptStart, Record, Startable, BeforeSpawn,
         AttachedTypeOK, Records
    <3>4. CASE WaitRequest \/ WaitStop \/ WaitExit \/ SpawnRaises \/ Judge
      BY <3>4 DEF WaitRequest, WaitStop, WaitExit, SpawnRaises, Judge, BeforeSpawn
    <3>5. CASE Seal
      BY <3>5 DEF Seal, Record, BeforeSpawn
    <3> QED
      BY <1>5, <3>1, <3>2, <3>3, <3>4, <3>5 DEF WorkerStep
  <2>3. BeforeSpawn' => launches[state'.attempt] = 0
    BY <2>2 DEF Unlaunched, BeforeSpawn
  <2>4. salloc' = "pending" => pc' = "off"
    BY <1>1, <2>2 DEF Unlaunched
  <2> QED
    BY <1>1, <2>1, <2>3, <2>4 DEF Unlaunched, AtMostOnce
<1> QED
  BY <1>2, <1>3, <1>4, <1>5

LEMMA UnlaunchedStep ==
  AInv /\ [AttachedNext]_attachedVars => Unlaunched' /\ AtMostOnce'
<1> SUFFICES ASSUME AInv, [AttachedNext]_attachedVars PROVE Unlaunched' /\ AtMostOnce'
  OBVIOUS
<1>1. CASE SupMove
  <2>1. launches' = launches
    BY <1>1, SupLeaves
  <2> QED
    BY <1>1, <2>1, SupUnlaunched DEF AInv, AtMostOnce
<1>2. CASE WorkerSide
  BY <1>2, WorkerUnlaunched
<1>3. CASE UNCHANGED attachedVars
  BY <1>3 DEF attachedVars, vars, AInv, Unlaunched, BeforeSpawn, AtMostOnce, memoryVars,
     historyVars, recordVars, supVars, sallocVars
<1> QED
  BY <1>1, <1>2, <1>3, Sides


-----------------------------------------------------------------------------
(* What the worker's records are worth. *)

\* What a payload has proved of an attempt is never taken back, whoever moves.
LEMMA EvidenceStays ==
  ASSUME AttachedTypeOK, AttachedFiles, WorkerKnows, PayloadPlaced,
         [AttachedNext]_attachedVars, NEW n \in Attempts
  PROVE  /\ n \in clean => n \in clean'
         /\ n \in marked => n \in marked'
         /\ captured[n] # {} => captured'[n] = captured[n]
<1>1. CASE SupMove
  BY <1>1, SupLeaves
<1>2. CASE WorkerSide
  <2>1. CASE Capture
    <3>1. state.attempt \in Attempts /\ captured[state.attempt] = {}
      BY <2>1, AttachedAtWork DEF Capture
    <3> QED
      BY <1>2, <2>1, <3>1, WorkerLeaves DEF Capture, AttachedTypeOK
  <2>2. CASE captured' = captured
    BY <1>2, <2>2, WorkerLeaves
  <2> QED
    BY <1>2, <2>1, <2>2, WorkerLeaves
<1>3. CASE UNCHANGED attachedVars
  BY <1>3 DEF attachedVars, vars, linkVars, historyVars
<1> QED
  BY <1>1, <1>2, <1>3, Sides

LEMMA AttachedVerifiedStays ==
  ASSUME AttachedTypeOK, AttachedFiles, WorkerKnows, PayloadPlaced,
         [AttachedNext]_attachedVars, NEW n \in Attempts, Verified(n)
  PROVE  Verified(n)'
<1>1. captured[n] # {}
  BY DEF Verified
<1> QED
  BY <1>1, EvidenceStays DEF Verified

LEMMA AttachedWholeStays ==
  ASSUME AttachedTypeOK, AttachedFiles, WorkerKnows, PayloadPlaced,
         [AttachedNext]_attachedVars, NEW n \in Attempts,
         captured[n] = Outputs, n \in clean
  PROVE  (captured[n] = Outputs /\ n \in clean)'
<1>1. captured[n] # {}
  BY DriverAssumption DEF DriverAssumption
<1> QED
  BY <1>1, EvidenceStays

LEMMA AttachedCleanStep == AInv /\ [AttachedNext]_attachedVars => CleanExit'
<1> SUFFICES ASSUME AInv, [AttachedNext]_attachedVars PROVE CleanExit'
  OBVIOUS
<1> /\ AttachedTypeOK /\ AttachedFiles /\ WorkerKnows /\ PayloadPlaced /\ CleanExit
    /\ Unlaunched
  BY DEF AInv
<1> USE DEF CleanExit, Required
<1>1. CASE SupMove
  BY <1>1, SupLeaves
<1>2. CASE WorkerSide
  <2> USE DEF payloadVars, memoryVars, linkVars, historyVars, workerUnchanged
  <2>1. CASE Grant
    BY <2>1, GrantFinds DEF PayloadPlaced
  <2>2. CASE Refuse \/ SallocEnds
    BY <2>2 DEF Refuse, SallocEnds
  <2>3. CASE WorkerGone \/ WorkerKill
    BY <2>3 DEF WorkerGone, WorkerKill, WorkerEnds, DriverGone, NoPayload
  <2>4. CASE \/ WorkerRefuse \/ WorkerReturn \/ WriteReceipt \/ WriteState
             \/ AttemptCancelled \/ AttemptStart
    BY <2>4 DEF WorkerRefuse, WorkerReturn, WriteReceipt, WriteState, AttemptCancelled,
       AttemptStart, PayloadPlaced
  <2>5. CASE Spawn \/ WaitRequest \/ WaitStop \/ WaitExit
    BY <2>5 DEF Spawn, WaitRequest, WaitStop, WaitExit
  <2>6. CASE SpawnRaises \/ Judge
    BY <2>6 DEF AttachedTypeOK, SpawnRaises, Judge, Records
  <2>7. CASE Seal
    BY <2>7 DEF Seal, NoPayload
  <2>8. PayloadRuns => state.attempt \in Attempts
    BY AttachedAtWork DEF PayloadRuns
  <2>9. CASE Capture
    BY <2>8, <2>9 DEF Capture, payloadUnchanged, PayloadRuns, AttachedTypeOK
  <2>10. CASE Prepare \/ MarkPaused \/ EntrypointReturns
    BY <2>10 DEF Prepare, MarkPaused, EntrypointReturns, PayloadExits, payloadUnchanged,
       AttachedTypeOK
  <2>11. CASE CaptureFails \/ PayloadReturns \/ SigtermPayload
    BY <2>11 DEF CaptureFails, PayloadReturns, SigtermPayload, PayloadExits,
       payloadUnchanged, AttachedTypeOK
  <2>12. ASSUME NEW name \in Outputs, SaveOutput(name) PROVE CleanExit'
    BY <2>12 DEF SaveOutput, payloadUnchanged
  <2>13. CASE Deadline \/ SigtermDriver \/ TouchStop \/ Terminate("cancel")
    BY <2>13 DEF Deadline, PauseSignal, SigtermDriver, TouchStop, Terminate
  <2> QED
    BY <1>2, <2>1, <2>2, <2>3, <2>4, <2>5, <2>6, <2>7, <2>9, <2>10, <2>11, <2>12, <2>13
       DEF WorkerSide, WorkerStep, PayloadStep
<1>3. CASE UNCHANGED attachedVars
  BY <1>3 DEF attachedVars, vars, payloadVars, memoryVars, linkVars, historyVars
<1> QED
  BY <1>1, <1>2, <1>3, Sides

\* What the worker's record may say after a step of its side: what it said, nothing
\* of a payload that ended well, or the verdict on the payload that just exited.
LEMMA WorkerRecords ==
  ASSUME AttachedTypeOK, AttachedFiles, Unlaunched, WorkerSide
  PROVE  \/ state' = state /\ (pc' = pc \/ pc \in Holding \/ pc' \notin Holding)
         \/ state'.state \notin {"paused", "completed"}
         \/ pc = "seal" /\ state'.attempt = state.attempt /\ state'.state = state.state
         \/ Judge /\ state'.attempt = state.attempt /\ state'.state = Verdict
<1> USE DEF Holding, memoryVars
<1>1. CASE ~WorkerStep
  <2>1. CASE Grant
    BY <2>1, GrantFinds DEF NoRecord
  <2> QED
    BY <1>1, <2>1, WorkerBystanders DEF NoRecord
<1>2. CASE WorkerRefuse \/ WorkerReturn \/ WriteReceipt \/ WriteState
  BY <1>2 DEF WorkerRefuse, WorkerReturn, WriteReceipt, WriteState, Exit
<1>3. CASE AttemptCancelled \/ AttemptStart
  BY <1>3 DEF AttemptCancelled, AttemptStart, Record, AttachedTypeOK, Records
<1>4. CASE Spawn \/ WaitRequest \/ WaitStop \/ WaitExit
  BY <1>4 DEF Spawn, WaitRequest, WaitStop, WaitExit
<1>5. CASE SpawnRaises
  BY <1>5 DEF SpawnRaises, AttachedTypeOK, Records
<1>6. CASE Judge
  BY <1>6 DEF Judge, AttachedTypeOK, Records
<1>7. CASE Seal
  BY <1>7 DEF Seal, Record, AttachedTypeOK, Records
<1> QED
  BY <1>1, <1>2, <1>3, <1>4, <1>5, <1>6, <1>7 DEF WorkerStep

\* The verdicts that let a unit go on, or end well, need an exit code of 0.
LEMMA VerdictEarned ==
  ASSUME AttachedTypeOK, PayloadPlaced, CleanExit, Judge
  PROVE  /\ Verdict = "paused" => Verified(state.attempt)
         /\ Verdict = "completed" =>
              captured[state.attempt] = Outputs /\ state.attempt \in clean
<1>1. payload.phase = "exited"
  BY DEF Judge, PayloadPlaced
<1>2. CASE Verdict = "paused"
  <2>1. payload.code = 0 /\ state.attempt \in marked
    BY <1>2 DEF Verdict
  <2> QED
    BY <1>1, <1>2, <2>1 DEF CleanExit, Required, Verified
<1>3. CASE Verdict = "completed"
  <2>1. payload.code = 0 /\ state.attempt \notin marked
    BY <1>3 DEF Verdict
  <2> QED
    BY <1>1, <1>3, <2>1 DEF CleanExit, Required
<1> QED
  BY <1>2, <1>3


\* The supervisor itself never writes that a payload ended well.
LEMMA SupClaimsNothing ==
  ASSUME SupKnows, SupMove
  PROVE  stateFile' = stateFile \/ stateFile'.state \in {"queued", "stopped", "failed"}
<1>1. CASE SupWrite
  BY <1>1, SupWrites DEF SupKnows, Queued
<1> QED
  BY <1>1, SupLeaves

LEMMA AttachedPauseStep == AInv /\ [AttachedNext]_attachedVars => PausesVerified'
<1> SUFFICES ASSUME AInv, [AttachedNext]_attachedVars PROVE PausesVerified'
  OBVIOUS
<1> /\ AttachedTypeOK /\ AttachedFiles /\ LastWord /\ SupKnows /\ WorkerKnows
    /\ PayloadPlaced /\ Unlaunched /\ CleanExit /\ PausesVerified
  BY DEF AInv
<1>1. \A n : Verified(n) => Verified(n)'
  <2>1. \A n : Verified(n) => n \in Attempts
    BY DEF Verified, AttachedTypeOK
  <2> QED
    BY <2>1, AttachedVerifiedStays
<1>2. CASE SupMove
  <2>1. state' = state
    BY <1>2, SupLeaves
  <2> QED
    BY <1>1, <1>2, <2>1, SupClaimsNothing DEF PausesVerified
<1>3. CASE WorkerSide
  <2>1. stateFile' = stateFile \/ stateFile' = state
    BY <1>3, WorkerLeaves, WorkerWrites
  <2>2. state'.state = "paused" => Verified(state'.attempt)
    BY <1>3, WorkerRecords, VerdictEarned DEF PausesVerified
  <2> QED
    BY <1>1, <2>1, <2>2 DEF PausesVerified
<1>4. CASE UNCHANGED attachedVars
  BY <1>1, <1>4 DEF attachedVars, vars, memoryVars, recordVars, PausesVerified
<1> QED
  BY <1>2, <1>3, <1>4, Sides

LEMMA AttachedWholeStep == AInv /\ [AttachedNext]_attachedVars => WholeRecords'
<1> SUFFICES ASSUME AInv, [AttachedNext]_attachedVars PROVE WholeRecords'
  OBVIOUS
<1> /\ AttachedTypeOK /\ AttachedFiles /\ LastWord /\ SupKnows /\ WorkerKnows
    /\ PayloadPlaced /\ Unlaunched /\ CleanExit /\ WholeRecords
  BY DEF AInv
<1> DEFINE Full(n) == captured[n] = Outputs /\ n \in clean
           FullNext(n) == captured'[n] = Outputs /\ n \in clean'
<1>1. \A n : Full(n) => FullNext(n)
  <2>1. \A n : Full(n) => n \in Attempts
    BY DEF AttachedTypeOK
  <2> QED
    BY <2>1, AttachedWholeStays
<1> HIDE DEF Full, FullNext
<1>2. /\ stateFile.state = "completed" => Full(stateFile.attempt)
      /\ pc \in Holding /\ state.state = "completed" => Full(state.attempt)
  BY DEF WholeRecords, Whole, Holding, Full
<1>3. SUFFICES /\ stateFile'.state = "completed" => FullNext(stateFile'.attempt)
               /\ pc' \in Holding /\ state'.state = "completed" => FullNext(state'.attempt)
  BY DEF WholeRecords, Whole, Holding, FullNext
<1>4. CASE SupMove
  <2>1. state' = state /\ pc' = pc
    BY <1>4, SupLeaves
  <2> QED
    BY <1>1, <1>2, <1>4, <2>1, SupClaimsNothing
<1>5. CASE WorkerSide
  <2>1. stateFile' = stateFile \/ (stateFile' = state /\ pc \in Holding)
    BY <1>5, WorkerLeaves, WorkerWrites DEF WriteState, Holding
  <2>2. pc' \in Holding /\ state'.state = "completed" => Full(state'.attempt)
    BY <1>2, <1>5, WorkerRecords, VerdictEarned DEF Full, Holding
  <2> QED
    BY <1>1, <1>2, <2>1, <2>2
<1>6. CASE UNCHANGED attachedVars
  BY <1>1, <1>2, <1>6 DEF attachedVars, vars, memoryVars, recordVars
<1> QED
  BY <1>4, <1>5, <1>6, Sides

\* The supervisor makes a successor's directory only for a pause the worker earned.
LEMMA AttachedResumeStep == AInv /\ [AttachedNext]_attachedVars => VerifiedResume'
<1> SUFFICES ASSUME AInv, [AttachedNext]_attachedVars, NEW n \in begun', n > 1
             PROVE  Verified(n - 1)'
  BY DEF VerifiedResume, Verified
<1> /\ AttachedTypeOK /\ AttachedFiles /\ LastWord /\ SupKnows /\ WorkerKnows
    /\ PayloadPlaced /\ PausesVerified /\ VerifiedResume
  BY DEF AInv
<1>1. SUFFICES Verified(n - 1)
  <2>1. Verified(n - 1) => n - 1 \in Attempts
    BY DEF Verified, AttachedTypeOK
  <2> QED
    BY <1>1, <2>1, AttachedVerifiedStays
<1>2. CASE n \in begun
  BY <1>2 DEF VerifiedResume, Verified
<1>3. CASE n \notin begun
  <2>1. SupBegin
    BY <1>3, Sides, SupLeaves, WorkerLeaves DEF attachedVars, vars
  <2>2. /\ n = stateFile.attempt + 1
        /\ stateFile = NoRecord \/ stateFile.state = "paused"
    BY <1>3, <2>1, SupBeginExtends
  <2>3. stateFile.attempt \in Nat
    BY DEF AttachedTypeOK, Records
  <2>4. stateFile # NoRecord
    BY <2>2, <2>3 DEF NoRecord
  <2> QED
    BY <2>2, <2>3, <2>4 DEF PausesVerified
<1> QED
  BY <1>2, <1>3

-----------------------------------------------------------------------------
(* What a verdict of the supervisor is worth. *)

LEMMA FaultsStick ==
  ASSUME AttachedTypeOK, [AttachedNext]_attachedVars, faults' = 0
  PROVE  faults = 0 /\ ~WorkerKill /\ ~SupKill /\ ~SupRestart
<1>1. faults \in Nat
  BY DriverAssumption DEF DriverAssumption, AttachedTypeOK
<1> USE DEF workerUnchanged, supervisorUnchanged, slurmVars
<1>2. ~WorkerKill /\ ~SupKill /\ ~SupRestart
  BY <1>1 DEF WorkerKill, SupKill, SupRestart
<1> SUFFICES faults = 0
  BY <1>2
<1>3. CASE SupStep \/ SupSignal
  BY <1>1, <1>3 DEF SupStep, SupSignal, SupStart, SupBegin, SupReceipt, SupWrite, SupSpawn,
     SupHangUp, SupWaitExit, SupRead, SupJudge, SupNext
<1>4. CASE Grant \/ Refuse \/ SallocEnds \/ WorkerGone
  BY <1>4 DEF Grant, Refuse, SallocEnds, WorkerGone
<1>5. CASE WorkerStep
  BY <1>5 DEF WorkerStep, WorkerRefuse, AttemptCancelled, AttemptStart, Spawn, SpawnRaises,
     WaitRequest, WaitStop, WaitExit, Judge, Seal, WriteReceipt, WriteState, WorkerReturn
<1>6. CASE PayloadStep \/ Deadline \/ SigtermDriver \/ SigtermPayload \/ TouchStop
  BY <1>6 DEF PayloadStep, Prepare, SaveOutput, MarkPaused, EntrypointReturns, Capture,
     CaptureFails, PayloadReturns, payloadUnchanged, Deadline, PauseSignal, SigtermDriver,
     SigtermPayload, TouchStop
<1>7. CASE Terminate("cancel")
  BY <1>1, <1>7 DEF Terminate
<1>8. CASE UNCHANGED attachedVars
  BY <1>8 DEF attachedVars, vars
<1> QED
  BY <1>2, <1>3, <1>4, <1>5, <1>6, <1>7, <1>8 DEF AttachedNext


LEMMA VerdictStep == AInv /\ [AttachedNext]_attachedVars => VerdictHolds'
<1> SUFFICES ASSUME AInv, [AttachedNext]_attachedVars,
                    outcome' \in {"zero", "one"}, stateFile' # NoRecord, faults' = 0
             PROVE  \/ stateFile'.state \in Settled
                    \/ ~WorkerDone' /\ pc' # "attempt"
  BY DEF VerdictHolds
<1> /\ AttachedTypeOK /\ AttachedFiles /\ LastWord /\ SupKnows /\ WorkerKnows
    /\ Unlaunched /\ VerdictHolds
  BY DEF AInv
<1>1. faults = 0 /\ ~WorkerKill
  BY FaultsStick
\* The supervisor returns on a pause, on a verdict of its own, or before any attempt.
<1>2. CASE SupMove
  <2>1. SupBegin \/ SupWrite \/ SupNext
    <3>1. outcome' = outcome => sup = "off"
      BY DEF SupKnows
    <3>2. ~SupStart /\ ~SupReceipt /\ ~SupSpawn
      BY <3>1 DEF SupStart, SupReceipt, SupSpawn, SupReturn
    <3>3. ~SupHangUp /\ ~SupWaitExit /\ ~SupRead /\ ~SupJudge
      BY <3>1 DEF SupHangUp, SupWaitExit, SupRead, SupJudge, SupRecord
    <3>4. ~SupSignal /\ ~SupKill /\ ~SupRestart
      BY <3>1 DEF SupSignal, SupKill, SupRestart, SupReturn
    <3> QED
      BY <1>2, <3>2, <3>3, <3>4 DEF SupMove, SupStep
  <2>2. CASE SupBegin
    <3>1. stateFile' = stateFile
      BY <2>2 DEF SupBegin, recordVars
    <3>2. outcome # "zero" /\ outcome # "one"
      BY <2>2 DEF SupBegin, SupKnows
    <3>3. stateFile.state \in {"none", "paused"}
      BY <2>2, <3>2, SupBeginExtends
    <3> QED
      BY <3>1, <3>3 DEF AttachedFiles, Settled
  <2>3. CASE SupWrite
    <3>1. CASE Beginning
      BY <2>3, <3>1, SupWrites DEF SupKnows, Beginning, Concluding
    <3>2. CASE Concluding
      BY <2>3, <3>2, SupWrites DEF SupKnows, Settled
    <3> QED
      BY <2>3, <3>1, <3>2, SupWrites
  <2>4. CASE SupNext
    BY <2>4 DEF SupNext, SupKnows, recordVars, Settled
  <2> QED
    BY <2>1, <2>2, <2>3, <2>4
<1>3. CASE WorkerSide
  <2>1. outcome \in {"zero", "one"}
    BY <1>3, WorkerLeaves
  <2>2. CASE WriteState
    BY <2>2, WorkerWrites DEF WorkerDone
  <2>3. CASE ~WriteState /\ stateFile.state \notin Settled
    <3>1. stateFile' = stateFile
      BY <1>3, <2>3, WorkerLeaves
    <3>2. ~WorkerDone /\ pc # "attempt"
      BY <1>1, <2>1, <2>3, <3>1 DEF VerdictHolds
    <3>3. ~Grant /\ ~WorkerGone
      BY <3>2 DEF Grant, WorkerGone, Unlaunched, WorkerDone
    <3>4. CASE ~WorkerStep
      BY <1>1, <1>3, <3>2, <3>3, <3>4, WorkerBystanders DEF WorkerDone
    <3>5. CASE WorkerStep
      <4>1. ~WorkerRefuse /\ ~AttemptCancelled /\ ~AttemptStart /\ ~WorkerReturn
        BY <3>2 DEF WorkerRefuse, AttemptCancelled, AttemptStart, WorkerReturn, WorkerDone
      <4> QED
        BY <2>3, <3>5, <4>1 DEF WorkerStep, Spawn, SpawnRaises, WaitRequest, WaitStop,
           WaitExit, Judge, Seal, Record, WriteReceipt, WorkerDone
    <3> QED
      BY <3>4, <3>5
  <2>4. CASE ~WriteState /\ stateFile.state \in Settled
    BY <1>3, <2>4, WorkerLeaves
  <2> QED
    BY <2>2, <2>3, <2>4
<1>4. CASE UNCHANGED attachedVars
  BY <1>1, <1>4 DEF attachedVars, vars, supVars, recordVars, VerdictHolds, WorkerDone
<1> QED
  BY <1>2, <1>3, <1>4, Sides

LEMMA AInvStep == AInv /\ [AttachedNext]_attachedVars => AInv'
BY AttachedTypeStep, AttachedFilesStep, LastWordStep, SupKnowsStep, WorkerKnowsStep,
   AttachedPlaceStep, UnlaunchedStep, AttachedCleanStep, AttachedPauseStep,
   AttachedWholeStep, AttachedResumeStep, VerdictStep
   DEF AInv

-----------------------------------------------------------------------------
(* The theorems. *)

(***************************************************************************)
(* The inductive invariant of the two drivers: whichever of them writes    *)
(* state.json next, the other has nothing left to write about an earlier   *)
(* attempt, and both name the same one.                                    *)
(***************************************************************************)
THEOREM AttachedInvariance == AttachedSpec => []AInv
<1>1. AttachedInit => AInv
  BY InitAInv
<1>2. AInv /\ [AttachedNext]_attachedVars => AInv'
  BY AInvStep
<1> QED
  BY <1>1, <1>2, PTL DEF AttachedSpec

(***************************************************************************)
(* With a supervisor that may be killed and run again, and workers that    *)
(* outlive their salloc, no attempt's payload is started twice.            *)
(***************************************************************************)
THEOREM AttachedAtMostOnce == AttachedSpec => []AtMostOnce
<1>1. AInv => AtMostOnce
  BY DEF AInv
<1> QED
  BY <1>1, AttachedInvariance, PTL

(***************************************************************************)
(* The supervisor makes a successor's directory only after a payload that  *)
(* wrote the pause marker, exited 0 and has its checkpoint retained.       *)
(***************************************************************************)
THEOREM AttachedVerifiedResume == AttachedSpec => []VerifiedResume
<1>1. AInv => VerifiedResume
  BY DEF AInv
<1> QED
  BY <1>1, AttachedInvariance, PTL

(***************************************************************************)
(* Whatever exit code salloc gave, the supervisor returns 0 only for a     *)
(* payload that exited 0 and whose outputs, or checkpoint, are retained.   *)
(***************************************************************************)
THEOREM SuccessIsEarnedHolds == AttachedSpec => []SuccessIsEarned
<1>1. AInv => SuccessIsEarned
  BY DEF AInv, SuccessIsEarned, SupKnows, PausesVerified, Verified, WholeRecords, Whole
<1> QED
  BY <1>1, AttachedInvariance, PTL

(***************************************************************************)
(* With no process killed, a unit whose supervisor has given its verdict   *)
(* and whose worker is gone reads as settled, whichever of the two wrote   *)
(* state.json last.                                                        *)
(***************************************************************************)
THEOREM VerdictIsSettledHolds == AttachedSpec => []VerdictIsSettled
<1>1. AInv => VerdictIsSettled
  BY DEF AInv, VerdictIsSettled, VerdictHolds, WorkerDone
<1> QED
  BY <1>1, AttachedInvariance, PTL

(***************************************************************************)
(* No step makes the directory of a successor while a payload exists, even *)
(* one that its supervisor has given up on.                                *)
(***************************************************************************)
THEOREM SuccessorWaitsHolds == AttachedSpec => SuccessorWaits
<1>1. AInv /\ [AttachedNext]_attachedVars =>
        [begun' # begun => ~PayloadRuns /\ payload.phase # "exited"]_attachedVars
  <2> SUFFICES ASSUME AInv, [AttachedNext]_attachedVars, begun' # begun
               PROVE  ~PayloadRuns /\ payload.phase # "exited"
    OBVIOUS
  <2> AttachedTypeOK /\ AttachedFiles /\ LastWord /\ SupKnows /\ PayloadPlaced
    BY DEF AInv
  <2>1. SupBegin
    BY Sides, SupLeaves, WorkerLeaves DEF attachedVars, vars
  <2>2. stateFile.state \in {"none", "paused"}
    BY <2>1, SupBeginExtends DEF NoRecord
  <2>3. WorkerDone
    BY <2>2 DEF AttachedFiles, LastWord, WorkerDone
  <2> QED
    BY <2>3 DEF PayloadPlaced, PayloadRuns, WorkerDone
<1> QED
  BY <1>1, AttachedInvariance, PTL DEF AttachedSpec, SuccessorWaits

-----------------------------------------------------------------------------
(* The chain that its supervisor closes. *)

\* Until then a worker finds in state.json what it has itself written there, or
\* what the supervisor left for it to start from.
InStep ==
  ~Closed =>
    /\ pc \in {"receipt", "state"} =>
         \/ stateFile.state = "queued" /\ (after = "spawn" \/ state.state = "stopped")
         \/ stateFile.state = "running" /\ after = "requeue"
    /\ pc \in {"spawn", "wait", "judge", "seal"} => stateFile.state = "running"

\* What is retained, and what a worker waits for, was started.
Started ==
  /\ pc = "wait" => launches[state.attempt] > 0
  /\ \A n \in Attempts : captured[n] # {} => launches[n] > 0

CInv == AInv /\ InStep /\ Started

LEMMA InitCInv == AttachedInit => CInv
<1> SUFFICES ASSUME AttachedInit PROVE CInv
  OBVIOUS
<1>1. InStep /\ Started
  BY DEF AttachedInit, InStep, Started
<1> QED
  BY <1>1, InitAInv DEF CInv

\* A supervisor that has closed the chain does not open it again, and what it does
\* to state.json is to begin a successor in an open one or to overrule in a closed.
LEMMA SupCloses ==
  ASSUME AInv, SupMove
  PROVE  /\ Closed => Closed'
         /\ \/ stateFile' = stateFile
            \/ SupWrite /\ Beginning /\ ~Closed /\ ~Closed'
            \/ SupWrite /\ Concluding /\ Closed /\ Closed'
<1> /\ AttachedFiles /\ SupKnows
  BY DEF AInv
<1>1. CASE SupWrite
  <2>1. CASE Beginning
    BY <1>1, <2>1, SupWrites DEF Beginning, Concluding, Closed
  <2>2. CASE Concluding
    <3>1. stateFile.state # "none" /\ supState.state \in {"stopped", "failed"}
      BY <2>2 DEF SupKnows
    <3>2. stateFile # NoRecord /\ supState # NoRecord
      BY <3>1 DEF NoRecord
    <3>3. stateFile' = supState /\ sup' = "off"
      BY <1>1, <2>2, SupWrites DEF Beginning, Concluding
    <3> QED
      BY <1>1, <2>2, <3>2, <3>3 DEF Concluding, Closed
  <2> QED
    BY <1>1, <2>1, <2>2, SupWrites
<1>2. CASE ~SupWrite
  <2>1. stateFile' = stateFile
    BY <1>2, SupLeaves
  <2>2. Closed => Closed'
    <3> SUFFICES ASSUME Closed PROVE Closed'
      OBVIOUS
    <3>1. stateFile # NoRecord /\ (sup \in {"off", "start"} \/ Concluding)
      BY DEF Closed, Concluding
    <3>2. CASE SupStart \/ SupReceipt
      BY <2>1, <3>1, <3>2 DEF SupStart, SupReceipt, SupReturn, Closed, Concluding
    <3>3. CASE SupSignal \/ SupKill \/ SupRestart
      BY <2>1, <3>1, <3>3 DEF SupSignal, SupKill, SupRestart, SupReturn, Closed, Concluding
    <3>4. CASE SupBegin \/ SupSpawn \/ SupHangUp \/ SupWaitExit
      BY <3>1, <3>4 DEF SupBegin, SupSpawn, SupHangUp, SupWaitExit, Concluding
    <3>5. CASE SupRead \/ SupJudge \/ SupNext
      BY <3>1, <3>5 DEF SupRead, SupJudge, SupNext, Concluding
    <3> QED
      BY <1>2, <3>2, <3>3, <3>4, <3>5 DEF SupMove, SupStep
  <2> QED
    BY <2>1, <2>2
<1> QED
  BY <1>1, <1>2

\* The worker neither opens nor closes it.
LEMMA WorkerKeepsOpen ==
  ASSUME AInv, WorkerSide
  PROVE  Closed' = Closed
<1> /\ AttachedTypeOK /\ AttachedFiles /\ LastWord /\ WorkerKnows
  BY DEF AInv
<1>1. UNCHANGED <<sup, supAfter>> /\ (stateFile' = stateFile \/ WriteState)
  BY WorkerLeaves
<1>2. WriteState => stateFile # NoRecord /\ stateFile' # NoRecord
  BY WorkerWrites DEF NoRecord, Settled
<1> QED
  BY <1>1, <1>2 DEF Closed

LEMMA InStepStep == CInv /\ [AttachedNext]_attachedVars => InStep'
<1> SUFFICES ASSUME CInv, [AttachedNext]_attachedVars, ~Closed'
             PROVE  /\ pc' \in {"receipt", "state"} =>
                         \/ /\ stateFile'.state = "queued"
                            /\ after' = "spawn" \/ state'.state = "stopped"
                         \/ stateFile'.state = "running" /\ after' = "requeue"
                    /\ pc' \in {"spawn", "wait", "judge", "seal"} => stateFile'.state = "running"
  BY DEF InStep
<1> /\ AInv /\ AttachedTypeOK /\ AttachedFiles /\ LastWord /\ SupKnows /\ WorkerKnows
    /\ Unlaunched /\ InStep
  BY DEF CInv, AInv
<1>1. CASE SupMove
  <2>1. ~Closed /\ UNCHANGED <<pc, state, after>>
    BY <1>1, SupCloses, SupLeaves
  <2>2. CASE stateFile' = stateFile
    BY <2>1, <2>2 DEF InStep
  <2>3. CASE SupWrite /\ Beginning
    <3>1. WorkerDone
      BY <2>3, BeginningFinds
    <3> QED
      BY <2>1, <3>1 DEF WorkerDone
  <2> QED
    BY <1>1, <2>2, <2>3, SupCloses
<1>2. CASE WorkerSide
  <2>1. ~Closed
    BY <1>2, WorkerKeepsOpen
  <2> /\ pc \in {"receipt", "state"} =>
           \/ stateFile.state = "queued" /\ (after = "spawn" \/ state.state = "stopped")
           \/ stateFile.state = "running" /\ after = "requeue"
      /\ pc \in {"spawn", "wait", "judge", "seal"} => stateFile.state = "running"
    BY <2>1 DEF InStep
  <2>2. CASE WriteState
    BY <2>2, WorkerWrites DEF WriteState, WorkerKnows
  <2>3. CASE ~WriteState
    <3>1. stateFile' = stateFile
      BY <1>2, <2>3, WorkerLeaves
    <3>2. CASE ~WorkerStep
      BY <1>2, <3>1, <3>2, GrantFinds, WorkerBystanders
    <3>3. CASE WorkerRefuse \/ WorkerReturn \/ WriteReceipt
      BY <3>1, <3>3 DEF WorkerRefuse, WorkerReturn, WriteReceipt, Exit, memoryVars
    <3>4. CASE AttemptCancelled
      BY <3>1, <3>4 DEF AttemptCancelled, Record, Startable, AttachedTypeOK, Records
    <3>5. CASE AttemptStart
      BY <3>1, <3>5 DEF AttemptStart, Record, Startable
    <3>6. CASE Spawn \/ SpawnRaises \/ WaitRequest \/ WaitStop \/ WaitExit \/ Judge
      BY <3>1, <3>6 DEF Spawn, SpawnRaises, WaitRequest, WaitStop, WaitExit, Judge
    <3>7. CASE Seal
      BY <3>1, <3>7 DEF Seal, Record
    <3> QED
      BY <2>3, <3>2, <3>3, <3>4, <3>5, <3>6, <3>7 DEF WorkerStep
  <2> QED
    BY <2>2, <2>3
<1>3. CASE UNCHANGED attachedVars
  <2>1. UNCHANGED <<pc, state, after, stateFile, sup, supAfter>>
    BY <1>3 DEF attachedVars, vars, memoryVars, recordVars, supVars
  <2> QED
    BY <2>1 DEF InStep, Closed
<1> QED
  BY <1>1, <1>2, <1>3, Sides

LEMMA StartedStep == CInv /\ [AttachedNext]_attachedVars => Started'
<1> SUFFICES ASSUME CInv, [AttachedNext]_attachedVars PROVE Started'
  OBVIOUS
<1> /\ AttachedTypeOK /\ AttachedFiles /\ WorkerKnows /\ PayloadPlaced /\ Unlaunched /\ Started
  BY DEF CInv, AInv
<1>1. CASE SupMove
  BY <1>1, SupLeaves DEF Started
<1>2. CASE WorkerSide
  <2>1. CASE Spawn
    <3>1. pc = "spawn" /\ state.attempt \in Attempts
      BY <2>1, AttachedAtWork DEF Spawn, WorkerDone
    <3>2. /\ state' = state /\ captured' = captured
          /\ launches' = [launches EXCEPT ![state.attempt] = launches[state.attempt] + 1]
      BY <2>1 DEF Spawn, memoryVars
    <3>3. \A n \in Attempts : launches[n] \in Nat
      BY DEF AttachedTypeOK
    <3>4. launches'[state.attempt] > 0 /\ \A n \in Attempts : launches[n] > 0 => launches'[n] > 0
      BY <3>1, <3>2, <3>3 DEF AttachedTypeOK
    <3> QED
      BY <3>2, <3>4 DEF Started
  <2>2. CASE Capture
    <3>1. pc = "wait" /\ state.attempt \in Attempts
      BY <2>2, AttachedAtWork DEF Capture, PayloadPlaced, PayloadRuns, WorkerDone
    <3>2. UNCHANGED <<pc, state, launches>>
      BY <2>2 DEF Capture, payloadUnchanged, memoryVars
    <3>3. \A n \in Attempts : n # state.attempt => captured'[n] = captured[n]
      BY <2>2 DEF Capture, AttachedTypeOK
    <3> QED
      BY <3>1, <3>2, <3>3 DEF Started
  <2>3. CASE ~Spawn /\ ~Capture
    <3>1. UNCHANGED <<launches, captured>>
      BY <1>2, <2>3, WorkerLeaves
    <3>2. pc' = "wait" => pc = "wait" /\ state' = state
      <4>1. CASE ~WorkerStep
        BY <1>2, <4>1, GrantFinds, WorkerBystanders
      <4>2. CASE WorkerRefuse \/ WorkerReturn \/ WriteReceipt \/ AttemptCancelled \/ AttemptStart
        BY <4>2 DEF WorkerRefuse, WorkerReturn, WriteReceipt, AttemptCancelled, AttemptStart,
           Exit, Record
      <4>3. CASE SpawnRaises \/ WaitRequest \/ WaitStop \/ WaitExit \/ Judge \/ Seal
        BY <4>3 DEF SpawnRaises, WaitRequest, WaitStop, WaitExit, Judge, Seal, Record, memoryVars
      <4>4. CASE WriteState
        BY <4>4 DEF WriteState, WorkerKnows
      <4> QED
        BY <2>3, <4>1, <4>2, <4>3, <4>4 DEF WorkerStep
    <3> QED
      BY <3>1, <3>2 DEF Started
  <2> QED
    BY <2>1, <2>2, <2>3
<1>3. CASE UNCHANGED attachedVars
  BY <1>3 DEF attachedVars, vars, memoryVars, historyVars, Started
<1> QED
  BY <1>1, <1>2, <1>3, Sides

LEMMA CInvStep == CInv /\ [AttachedNext]_attachedVars => CInv'
BY AInvStep, InStepStep, StartedStep DEF CInv

LEMMA InitSupervised == AttachedInit => Supervised!SupervisedInit
<1> SUFFICES ASSUME AttachedInit PROVE Supervised!SupervisedInit
  OBVIOUS
<1>1. stateFile.attempt = 0 /\ stateFile.state = "none" /\ ~Closed
  BY DEF AttachedInit, NoRecord, Closed
<1>2. {n \in Attempts : Checkpoint \in captured[n]} = {}
  BY DEF AttachedInit
<1> QED
  BY <1>1, <1>2 DEF AttachedInit, Supervised!SupervisedInit, Supervised!Init, Attempts,
     Supervised!Attempts

\* The first record, or that of a pause's successor.
LEMMA BeginsOpen ==
  ASSUME CInv, SupWrite, Beginning, ~Closed, ~Closed'
  PROVE  Supervised!Follow
<1> DEFINE kept == {n \in Attempts : Checkpoint \in captured[n]}
<1> /\ AttachedTypeOK /\ AttachedFiles /\ LastWord /\ SupKnows /\ Unlaunched /\ PausesVerified
  BY DEF CInv, AInv
<1>1. /\ supState.state = "queued" /\ supState.attempt = stateFile.attempt + 1
      /\ stateFile.state \in {"none", "paused"}
  BY BeginningFinds
<1>2. stateFile' = supState /\ UNCHANGED <<captured, launches>>
  BY SupWrites, SupLeaves DEF SupMove, SupStep
<1>3. stateFile.attempt < MaxAttempts
  BY <1>1, DriverAssumption DEF DriverAssumption, AttachedTypeOK, SupKnows, Attempts, Records
<1>4. stateFile.state = "paused" => stateFile.attempt \in kept
  BY DriverAssumption
     DEF DriverAssumption, PausesVerified, Verified, AttachedTypeOK, AttachedFiles, Records, Attempts
<1>5. kept' = kept
  BY <1>2
<1>6. Supervised!Begin
  BY <1>1, <1>2, <1>3, <1>4, <1>5 DEF Supervised!Begin
<1>7. Closed' = Closed
  BY DEF Closed
<1> QED
  BY <1>6, <1>7 DEF Supervised!Follow, Supervised!Next

\* What a worker records: the next step of an open chain, or a word after it closed.
LEMMA WorkerRecordsChain ==
  ASSUME CInv, WriteState, Closed' = Closed
  PROVE  [Supervised!SupervisedNext]_(Supervised!supervisedVars)
<1> DEFINE kept == {n \in Attempts : Checkpoint \in captured[n]}
<1> /\ AttachedTypeOK /\ AttachedFiles /\ LastWord /\ WorkerKnows /\ PausesVerified
    /\ WholeRecords /\ Unlaunched /\ AtMostOnce /\ InStep /\ Started
  BY DEF CInv, AInv
<1>1. /\ stateFile' = state /\ state.attempt = stateFile.attempt
      /\ stateFile.attempt \in Attempts
      /\ stateFile.state \notin {"paused", "completed"}
      /\ UNCHANGED <<captured, launches>>
  BY WorkerWrites
<1>2. kept' = kept
  BY <1>1
<1>3. pc = "state"
  BY DEF WriteState
<1>4. state.state \in {"paused", "completed"} =>
        launches[state.attempt] = 1 /\ state.attempt \in kept
  <2> SUFFICES ASSUME state.state \in {"paused", "completed"}
               PROVE  launches[state.attempt] = 1 /\ state.attempt \in kept
    OBVIOUS
  <2>1. Checkpoint \in captured[state.attempt]
    BY <1>3, DriverAssumption
       DEF DriverAssumption, PausesVerified, Verified, WholeRecords, Whole, Holding
  <2>2. launches[state.attempt] > 0
    BY <1>1, <2>1 DEF Started
  <2>3. launches[state.attempt] \in Nat /\ launches[state.attempt] <= 1
    BY <1>1 DEF AttachedTypeOK, AtMostOnce
  <2> QED
    BY <1>1, <2>1, <2>2, <2>3
<1>5. CASE ~Closed /\ after = "spawn"
  <2>1. stateFile.state = "queued" /\ state.state = "running"
    BY <1>3, <1>5 DEF InStep, WorkerKnows
  <2>2. Supervised!Run
    BY <1>1, <1>2, <2>1 DEF Supervised!Run
  <2> QED
    BY <1>5, <2>2 DEF Supervised!SupervisedNext, Supervised!Follow, Supervised!Next
<1>6. CASE ~Closed /\ after # "spawn"
  <2>1. after = "requeue" /\ state.state \in Settled
    BY <1>3, <1>6 DEF WorkerKnows
  <2>2. CASE stateFile.state = "queued"
    <3>1. Supervised!Cancel
      BY <1>1, <1>2, <1>3, <1>6, <2>2 DEF InStep, Supervised!Cancel
    <3> QED
      BY <1>6, <3>1 DEF Supervised!SupervisedNext, Supervised!Follow, Supervised!Next
  <2>3. CASE stateFile.state = "running"
    <3>1. Supervised!Settle(state.state)
      BY <1>1, <1>2, <1>4, <2>3 DEF Supervised!Settle
    <3> QED
      BY <1>6, <2>1, <3>1
         DEF Supervised!SupervisedNext, Supervised!Follow, Supervised!Next, Settled
  <2> QED
    BY <1>3, <1>6, <2>2, <2>3 DEF InStep
<1>7. CASE Closed /\ after = "spawn"
  <2>1. state.state = "running" /\ launches[stateFile.attempt] = 0
    BY <1>1, <1>3, <1>7 DEF WorkerKnows, Unlaunched, BeforeSpawn
  <2>2. Supervised!LateRun
    BY <1>1, <1>2, <2>1 DEF Supervised!LateRun
  <2> QED
    BY <1>1, <1>7, <2>2 DEF Supervised!SupervisedNext, Supervised!Late
<1>8. CASE Closed /\ after # "spawn"
  <2>1. state.state \in Settled
    BY <1>3, <1>8 DEF WorkerKnows
  <2>2. CASE state.state \in {"failed", "stopped"}
    BY <1>1, <1>2, <1>8, <2>2 DEF Supervised!SupervisedNext, Supervised!Overrule
  <2>3. CASE state.state \in {"paused", "completed"}
    <3>1. Supervised!LateSuccess
      BY <1>1, <1>2, <1>4, <2>3 DEF Supervised!LateSuccess
    <3> QED
      BY <1>1, <1>8, <3>1 DEF Supervised!SupervisedNext, Supervised!Late
  <2> QED
    BY <2>1, <2>2, <2>3 DEF Settled
<1> QED
  BY <1>5, <1>6, <1>7, <1>8

\* A payload starts, or publishes, in an attempt that runs, or in a closed chain.
LEMMA PayloadChain ==
  ASSUME CInv, Spawn \/ Capture, Closed' = Closed
  PROVE  Supervised!Follow \/ Supervised!Late
<1> DEFINE kept == {n \in Attempts : Checkpoint \in captured[n]}
<1> /\ AttachedTypeOK /\ AttachedFiles /\ LastWord /\ WorkerKnows /\ PayloadPlaced
    /\ Unlaunched /\ AtMostOnce /\ InStep /\ Started
  BY DEF CInv, AInv
<1>1. pc \in {"spawn", "wait"}
  BY DEF Spawn, Capture, PayloadPlaced, PayloadRuns
<1>2. /\ state.attempt = stateFile.attempt /\ stateFile.attempt \in Attempts
      /\ stateFile.state \notin {"paused", "completed"}
      /\ ~Closed => stateFile.state = "running"
  BY <1>1, AttachedAtWork DEF WorkerDone, LastWord, InStep
<1>3. CASE Spawn
  <2>1. launches[stateFile.attempt] = 0
    BY <1>2, <1>3 DEF Spawn, Unlaunched, BeforeSpawn
  <2>2. /\ launches' = [launches EXCEPT ![state.attempt] = launches[state.attempt] + 1]
        /\ UNCHANGED <<stateFile, captured>>
    BY <1>3 DEF Spawn, recordVars
  <2>3. launches' = [launches EXCEPT ![stateFile.attempt] = 1]
    <3>1. launches' = [launches EXCEPT ![stateFile.attempt] = launches[stateFile.attempt] + 1]
      BY <1>2, <2>2
    <3> QED
      BY <2>1, <3>1
  <2>4. CASE Closed
    <3>1. Supervised!LateLaunch
      BY <2>1, <2>2, <2>3 DEF Supervised!LateLaunch
    <3> QED
      BY <1>2, <2>2, <2>4, <3>1 DEF Supervised!Late
  <2>5. CASE ~Closed
    <3>1. Supervised!Launch
      BY <1>2, <2>1, <2>2, <2>3, <2>5 DEF Supervised!Launch
    <3> QED
      BY <2>5, <3>1 DEF Supervised!Follow, Supervised!Next
  <2> QED
    BY <2>4, <2>5
<1>4. CASE Capture
  <2>1. pc = "wait"
    BY <1>4 DEF Capture, PayloadPlaced, PayloadRuns
  <2>2. launches[stateFile.attempt] > 0 /\ launches[stateFile.attempt] \in Nat
        /\ launches[stateFile.attempt] <= 1
    BY <1>2, <2>1 DEF Started, AttachedTypeOK, AtMostOnce
  <2>3. launches[stateFile.attempt] = 1
    BY <2>2
  <2>4. /\ captured' = [captured EXCEPT ![stateFile.attempt] = Required(stateFile.attempt)]
        /\ UNCHANGED <<stateFile, launches>>
        /\ Checkpoint \in Required(stateFile.attempt)
    BY <1>2, <1>4, DriverAssumption
       DEF DriverAssumption, Capture, payloadUnchanged, recordVars, Required
  <2>5. kept' = kept \cup {stateFile.attempt}
    BY <1>2, <2>4 DEF AttachedTypeOK
  <2>6. CASE Closed
    <3>1. Supervised!LateRetain
      BY <2>3, <2>4, <2>5 DEF Supervised!LateRetain
    <3> QED
      BY <1>2, <2>4, <2>6, <3>1 DEF Supervised!Late
  <2>7. CASE ~Closed
    <3>1. Supervised!Retain
      BY <1>2, <2>3, <2>4, <2>5, <2>7 DEF Supervised!Retain
    <3> QED
      BY <2>7, <3>1 DEF Supervised!Follow, Supervised!Next
  <2> QED
    BY <2>6, <2>7
<1> QED
  BY <1>3, <1>4

LEMMA StepSupervised ==
  CInv /\ [AttachedNext]_attachedVars => [Supervised!SupervisedNext]_(Supervised!supervisedVars)
<1> SUFFICES ASSUME CInv, [AttachedNext]_attachedVars
             PROVE  [Supervised!SupervisedNext]_(Supervised!supervisedVars)
  OBVIOUS
<1> USE DEF Supervised!supervisedVars, Supervised!chainVars
<1> DEFINE kept == {n \in Attempts : Checkpoint \in captured[n]}
<1> /\ AInv /\ AttachedFiles /\ SupKnows
  BY DEF CInv, AInv
<1>0. Closed \in BOOLEAN /\ Closed' \in BOOLEAN
  BY DEF Closed
<1>1. CASE SupMove
  <2>1. kept' = kept /\ launches' = launches
    BY <1>1, SupLeaves
  <2>2. CASE SupWrite /\ Beginning /\ ~Closed /\ ~Closed'
    BY <2>2, BeginsOpen DEF Supervised!SupervisedNext
  <2>3. CASE SupWrite /\ Concluding /\ Closed /\ Closed'
    <3>1. /\ stateFile' = supState /\ supState.attempt = stateFile.attempt
          /\ supState.state \in {"stopped", "failed"}
      BY <2>3, SupWrites DEF SupKnows
    <3>2. Supervised!Overrule
      BY <2>1, <2>3, <3>1 DEF Supervised!Overrule
    <3> QED
      BY <3>2 DEF Supervised!SupervisedNext
  <2>4. CASE stateFile' = stateFile /\ Closed' = Closed
    BY <2>1, <2>4
  <2>5. CASE stateFile' = stateFile /\ ~Closed /\ Closed'
    <3>1. stateFile.state # "none"
      BY <2>5 DEF Closed, AttachedFiles
    <3>2. Supervised!Close
      BY <2>1, <2>5, <3>1 DEF Supervised!Close
    <3> QED
      BY <3>2 DEF Supervised!SupervisedNext
  <2> QED
    BY <1>0, <1>1, <2>2, <2>3, <2>4, <2>5, SupCloses
<1>2. CASE WorkerSide
  <2>1. Closed' = Closed
    BY <1>2, WorkerKeepsOpen
  <2>2. CASE WriteState
    BY <2>1, <2>2, WorkerRecordsChain
  <2>3. CASE Spawn \/ Capture
    BY <2>1, <2>3, PayloadChain DEF Supervised!SupervisedNext
  <2>4. CASE ~WriteState /\ ~Spawn /\ ~Capture
    <3>1. UNCHANGED <<stateFile, launches, captured>>
      BY <1>2, <2>4, WorkerLeaves
    <3> QED
      BY <2>1, <3>1
  <2> QED
    BY <2>2, <2>3, <2>4
<1>3. CASE UNCHANGED attachedVars
  <2>1. UNCHANGED <<stateFile, launches, captured, sup, supAfter>>
    BY <1>3 DEF attachedVars, vars, recordVars, historyVars, supVars
  <2>2. Closed' = Closed /\ kept' = kept
    BY <2>1 DEF Closed
  <2> QED
    BY <2>1, <2>2
<1> QED
  BY <1>1, <1>2, <1>3, Sides

(***************************************************************************)
(* An attached unit is a chain that its supervisor closes, for every       *)
(* budget: while the supervisor lives without a verdict, what it and the   *)
(* worker write to state.json are the steps of one chain; afterwards they  *)
(* may write over each other, but no attempt is begun, no payload started  *)
(* twice, and no success written that the payload did not earn.            *)
(***************************************************************************)
THEOREM SupervisedImplemented == AttachedSpec => ImplementsSupervised
<1>1. AttachedInit => CInv
  BY InitCInv
<1>2. CInv /\ [AttachedNext]_attachedVars => CInv'
  BY CInvStep
<1>3. AttachedInit => Supervised!SupervisedInit
  BY InitSupervised
<1>4. CInv /\ [AttachedNext]_attachedVars =>
        [Supervised!SupervisedNext]_(Supervised!supervisedVars)
  BY StepSupervised
<1> QED
  BY <1>1, <1>2, <1>3, <1>4, PTL
     DEF AttachedSpec, ImplementsSupervised, Supervised!SupervisedSpec

=============================================================================
