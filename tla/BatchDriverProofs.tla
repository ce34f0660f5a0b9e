------------------------- MODULE BatchDriverProofs -------------------------
(***************************************************************************)
(* Proofs about BatchDriver, for every budget, every set of outputs and    *)
(* every number of faults.                                                 *)
(*                                                                         *)
(* None of TypeOK, AtMostOnce and VerifiedResume is inductive by itself.   *)
(* What makes them so is where the driver's record comes from: while the   *)
(* driver is at work its record names an attempt whose directory it made   *)
(* itself; up to the spawn that attempt has launched nothing; a payload    *)
(* exists only between spawn and seal; and "paused" is only ever written   *)
(* about an attempt whose payload exited 0 after its checkpoint was        *)
(* published.                                                              *)
(***************************************************************************)
EXTENDS BatchDriver, TLAPS

\* A pause that a successor may rely on.
Verified(n) == n \in marked \cap clean /\ Checkpoint \in captured[n]

\* The driver is at work on an attempt whose directory exists.
Located ==
  pc \in Steps \ {"off", "batch", "exit"} => state.attempt \in begun

\* A driver runs only inside the allocation of a running job.
Allocated == pc # "off" => job = "running"

\* There is a payload only while the driver waits for it or judges it.
PayloadPlaced ==
  /\ payload.phase # "none" => pc \in {"wait", "judge", "seal"}
  /\ PayloadRuns => pc = "wait"
  /\ pc = "wait" => payload.phase # "none"
  /\ pc = "judge" => payload.phase = "exited"

\* The payload of the attempt at hand has not been started yet.
BeforeSpawn ==
  \/ pc \in {"attempt", "spawn"}
  \/ pc \in {"receipt", "state"} /\ after \in {"attempt", "spawn"}

Fresh ==
  /\ BeforeSpawn => launches[state.attempt] = 0
  /\ \A n \in Attempts : launches[n] > 0 => n \in begun

\* A payload that exited 0 has published what its script requires.
CleanExit ==
  /\ payload.phase = "published" =>
       captured[state.attempt] = Required(state.attempt)
  /\ payload.phase = "exited" /\ payload.code = 0 =>
       /\ state.attempt \in clean
       /\ captured[state.attempt] = Required(state.attempt)

PausesVerified ==
  /\ state.state = "paused" => Verified(state.attempt)
  /\ stateFile.state = "paused" => Verified(stateFile.attempt)

IInv ==
  /\ TypeOK
  /\ Located
  /\ Allocated
  /\ PayloadPlaced
  /\ Fresh
  /\ AtMostOnce
  /\ CleanExit
  /\ PausesVerified
  /\ VerifiedResume

-----------------------------------------------------------------------------
\* read() of a file that is not there is one of the records.
LEMMA NoRecordType == NoRecord \in Records
  BY DriverAssumption DEF DriverAssumption, NoRecord, Records, States

LEMMA InitIInv == Init => IInv
<1> SUFFICES ASSUME Init PROVE IInv
  OBVIOUS
<1> USE DEF Init
<1>1. TypeOK
  <2>1. /\ stateFile \in Records
        /\ receipts \in [Attempts -> Records]
        /\ state \in Records
    BY NoRecordType
  <2>2. /\ job \in {"pending", "running"} \cup Terminal
        /\ ending \in {"none", "cancel", "timeout", "preempt"}
        /\ requeued \in BOOLEAN
    BY DEF Terminal
  <2>7. faults \in 0 .. MaxFaults
    BY DriverAssumption DEF DriverAssumption
  <2>3. /\ begun \subseteq Attempts
        /\ stopFile \in BOOLEAN
        /\ requested \subseteq Attempts
        /\ marked \subseteq Attempts
        /\ captured \in [Attempts -> SUBSET Outputs]
    OBVIOUS
  <2>4. /\ pc \in Steps
        /\ after \in {"attempt", "spawn", "requeue", "exit"}
        /\ cancelled \in BOOLEAN
        /\ pause \in BOOLEAN
        /\ code \in {0, 1}
    BY DEF Steps
  <2>5. /\ payload \in [phase : PayloadPhases, code : {0, 1}]
        /\ written \subseteq Outputs
    BY DEF NoPayload, PayloadPhases
  <2>6. /\ launches \in [Attempts -> Nat]
        /\ clean \subseteq Attempts
        /\ lateStarts \in Nat
    OBVIOUS
  <2> QED
    BY <2>1, <2>2, <2>3, <2>4, <2>5, <2>6, <2>7 DEF TypeOK
<1>2. Located /\ Allocated /\ PayloadPlaced /\ CleanExit
  BY DEF Located, Allocated, PayloadPlaced, PayloadRuns, CleanExit, Steps, NoPayload
<1>3. Fresh /\ AtMostOnce
  BY DEF Fresh, BeforeSpawn, AtMostOnce
<1>4. PausesVerified /\ VerifiedResume
  BY DEF PausesVerified, VerifiedResume, NoRecord
<1> QED
  BY <1>1, <1>2, <1>3, <1>4 DEF IInv

-----------------------------------------------------------------------------
\* While the driver is at work, its record names one of the attempts.
LEMMA AtWork ==
  ASSUME TypeOK, Located, pc \in Steps \ {"off", "batch", "exit"}
  PROVE  state.attempt \in Attempts
BY DEF TypeOK, Located

\* The updates of a record that the driver makes keep it a record.
LEMMA StateUpdate ==
  ASSUME NEW r \in Records, NEW s \in States
  PROVE  [r EXCEPT !.state = s] \in Records
BY DEF Records

LEMMA NativeUpdate ==
  ASSUME NEW r \in Records, NEW s \in States, NEW b \in BOOLEAN
  PROVE  [r EXCEPT !.state = s, !.native = b] \in Records
BY DEF Records

LEMMA ContinuingUpdate ==
  ASSUME NEW r \in Records, NEW s \in States, NEW b \in BOOLEAN
  PROVE  [r EXCEPT !.state = s, !.continuing = b] \in Records
BY DEF Records

LEMMA SealUpdate ==
  ASSUME NEW r \in Records, NEW n \in 0 .. MaxAttempts, NEW b \in BOOLEAN
  PROVE  [r EXCEPT !.artifacts = n, !.continuing = b] \in Records
BY DEF Records

LEMMA StateNames ==
  {"queued", "running", "paused", "completed", "failed", "stopped"} \subseteq States
BY DEF States

\* The successor that begin() writes, while the budget lasts.
LEMMA SuccessorType ==
  ASSUME TypeOK, stateFile = NoRecord \/ can_continue(stateFile)
  PROVE  /\ Queued(stateFile) \in Records
         /\ Queued(stateFile).attempt \in Attempts
         /\ Queued(stateFile).attempt = stateFile.attempt + 1
         /\ Queued(stateFile).state = "queued"
<1> USE DriverAssumption DEF DriverAssumption
<1>1. stateFile.attempt + 1 \in Attempts
  BY DEF TypeOK, Records, can_continue, NoRecord, Attempts
<1>2. stateFile.artifacts \in 0 .. MaxAttempts /\ 1 \in 0 .. MaxAttempts
  BY DEF TypeOK, Records
<1> QED
  BY <1>1, <1>2 DEF Queued, Records, States, Attempts

LEMMA TypeStep == IInv /\ [Next]_vars => TypeOK'
<1> SUFFICES ASSUME IInv, [Next]_vars PROVE TypeOK'
  OBVIOUS
<1> USE DEF IInv, slurmVars, recordVars, linkVars, memoryVars, payloadVars, historyVars
<1>1. CASE UNCHANGED vars
  BY <1>1 DEF TypeOK, vars
<1>2. CASE BatchRefuse
  BY <1>2 DEF TypeOK, BatchRefuse, Exit, Steps
<1>3. CASE BatchBegin
  BY <1>3, SuccessorType DEF TypeOK, BatchBegin, Record, Exit, Steps
<1>4. CASE WriteReceipt
  BY <1>4, AtWork DEF TypeOK, WriteReceipt, Steps
<1>5. CASE WriteState
  BY <1>5 DEF TypeOK, WriteState, Steps
<1>6. CASE AttemptCancelled
  <2>1. state' \in Records
    BY <1>6, StateUpdate, StateNames DEF TypeOK, AttemptCancelled, Record
  <2> QED
    BY <1>6, <2>1 DEF TypeOK, AttemptCancelled, Record, Steps
<1>7. CASE AttemptStart
  <2>1. state' \in Records
    BY <1>7, NativeUpdate, StateNames DEF TypeOK, AttemptStart, Record
  <2> QED
    BY <1>7, <2>1 DEF TypeOK, AttemptStart, Record, Steps
<1>8. CASE Spawn
  BY <1>8, AtWork DEF TypeOK, Spawn, Steps, PayloadPhases
<1>9. CASE SpawnRaises
  <2>1. state' \in Records
    BY <1>9, StateUpdate, StateNames DEF TypeOK, SpawnRaises
  <2> QED
    BY <1>9, <2>1 DEF TypeOK, SpawnRaises, Steps
<1>10. CASE WaitRequest \/ WaitExit
  BY <1>10, AtWork DEF TypeOK, WaitRequest, WaitExit, Steps
<1>18. CASE WaitStop
  BY <1>18 DEF TypeOK, WaitStop, Steps, PayloadPhases
<1>11. CASE Judge
  <2>1. Verdict \in States
    BY DEF Verdict, States
  <2>2. state' \in Records
    BY <1>11, <2>1, StateUpdate DEF TypeOK, Judge
  <2> QED
    BY <1>11, <2>2 DEF TypeOK, Judge, Steps
<1>12. CASE Seal
  <2>1. RetainedBy(state) \in 0 .. MaxAttempts
    BY DEF TypeOK, RetainedBy, Records
  <2>2. can_continue(state) \in BOOLEAN
    BY DEF can_continue
  <2>3. state' \in Records
    BY <1>12, <2>1, <2>2, SealUpdate DEF TypeOK, Seal, Record
  <2> QED
    BY <1>12, <2>3 DEF TypeOK, Seal, Record, NoPayload, PayloadPhases, Steps
<1>13. CASE Requeue \/ BatchReturn
  BY <1>13 DEF TypeOK, Requeue, BatchReturn, Exit, Steps
<1>14. ASSUME NEW accepted \in BOOLEAN, RequeueFails(accepted) PROVE TypeOK'
  <2>1. state' \in Records
    BY <1>14, ContinuingUpdate, StateNames DEF TypeOK, RequeueFails, Record
  <2> QED
    BY <1>14, <2>1 DEF TypeOK, RequeueFails, Record, Steps
<1>15. CASE PayloadStep
  BY <1>15, AtWork DEF TypeOK, PayloadStep, Prepare, SaveOutput, MarkPaused,
     EntrypointReturns, Capture, CaptureFails, PayloadReturns, PayloadExits,
     payloadUnchanged, PayloadPhases, Required, Steps, PayloadPlaced, PayloadRuns
<1>16. CASE SlurmStep
  <2>1. CASE Allocate
    BY <2>1 DEF TypeOK, Allocate, Steps
  <2>6. CASE PauseSignal \/ SigtermDriver
    BY <2>6 DEF TypeOK, PauseSignal, SigtermDriver
  <2>2. ASSUME NEW reason \in {"timeout", "preempt"}, Terminate(reason)
        PROVE  TypeOK'
    BY <2>2, DriverAssumption DEF DriverAssumption, TypeOK, Terminate
  <2>3. CASE SigtermPayload
    BY <2>3, AtWork DEF TypeOK, SigtermPayload, PayloadExits, payloadUnchanged,
       PayloadPhases, PayloadPlaced, Steps
  <2>4. CASE Finish
    BY <2>4, NoRecordType DEF TypeOK, Finish, DriverGone, Ended, NoPayload,
       PayloadPhases, Steps, Terminal
  <2>5. CASE Kill
    <3>1. faults' \in 0 .. MaxFaults
      BY <2>5, DriverAssumption DEF DriverAssumption, TypeOK, Kill
    <3> QED
      BY <2>5, <3>1, NoRecordType DEF TypeOK, Kill, DriverGone, Ended, NoPayload,
         PayloadPhases, Steps, Terminal
  <2> QED
    BY <1>16, <2>1, <2>2, <2>3, <2>4, <2>5, <2>6 DEF SlurmStep
<1>17. CASE Scancel \/ TouchStop
  BY <1>17 DEF TypeOK, Scancel, TouchStop, Terminal
<1> QED
  BY <1>1, <1>2, <1>3, <1>4, <1>5, <1>6, <1>7, <1>8, <1>9, <1>10, <1>11, <1>12,
     <1>13, <1>14, <1>15, <1>16, <1>17, <1>18 DEF Next, DriverStep

-----------------------------------------------------------------------------
(* Where the driver and its payload are. *)

Placed == Located /\ Allocated /\ PayloadPlaced

LEMMA PlaceStep == IInv /\ [Next]_vars => Placed'
<1> SUFFICES ASSUME IInv, [Next]_vars PROVE Placed'
  OBVIOUS
<1> TypeOK /\ Placed
  BY DEF IInv, Placed
<1> USE DEF Placed, Located, Allocated, PayloadPlaced, PayloadRuns, slurmVars,
            recordVars, linkVars, memoryVars, payloadVars, historyVars
<1>1. CASE UNCHANGED vars
  BY <1>1 DEF vars
<1>2. CASE BatchRefuse \/ BatchReturn \/ Requeue
  BY <1>2 DEF BatchRefuse, BatchReturn, Requeue, Exit, Steps
<1>3. CASE BatchBegin
  BY <1>3, SuccessorType DEF BatchBegin, Record, Exit, Steps
<1>4. CASE WriteReceipt
  BY <1>4 DEF WriteReceipt, Steps
<1>5. CASE WriteState
  BY <1>5 DEF WriteState, Steps, TypeOK
<1>6. CASE AttemptCancelled \/ AttemptStart
  BY <1>6 DEF TypeOK, AttemptCancelled, AttemptStart, Startable, Record, Records, Steps
<1>7. CASE Spawn \/ WaitRequest \/ WaitExit
  BY <1>7 DEF Spawn, WaitRequest, WaitExit, Steps
<1>14. CASE WaitStop
  <2>1. payload.phase # "exited" => PayloadRuns
    BY <1>14 DEF TypeOK, PayloadPhases, WaitStop
  <2> QED
    BY <1>14, <2>1 DEF WaitStop, Steps
<1>8. CASE SpawnRaises \/ Judge
  BY <1>8 DEF TypeOK, SpawnRaises, Judge, Records, Steps
<1>9. CASE Seal
  BY <1>9 DEF TypeOK, Seal, Record, Records, NoPayload, Steps
<1>10. ASSUME NEW accepted \in BOOLEAN, RequeueFails(accepted)
       PROVE  Placed'
  BY <1>10 DEF TypeOK, RequeueFails, Record, Records, Steps
<1>11. CASE PayloadStep
  BY <1>11 DEF PayloadStep, Prepare, SaveOutput, MarkPaused, EntrypointReturns,
     Capture, CaptureFails, PayloadReturns, PayloadExits, payloadUnchanged, TypeOK
<1>12. CASE SlurmStep
  <2>1. CASE Allocate
    BY <2>1 DEF Allocate, Steps, TypeOK
  <2>2. CASE PauseSignal \/ SigtermDriver
    BY <2>2 DEF PauseSignal, SigtermDriver
  <2>3. ASSUME NEW reason \in {"timeout", "preempt"}, Terminate(reason)
        PROVE  Placed'
    BY <2>3 DEF Terminate
  <2>4. CASE SigtermPayload
    BY <2>4 DEF SigtermPayload, PayloadExits, payloadUnchanged
  <2>5. CASE Finish \/ Kill
    BY <2>5 DEF Finish, Kill, DriverGone, NoPayload, Steps
  <2> QED
    BY <1>12, <2>1, <2>2, <2>3, <2>4, <2>5 DEF SlurmStep
<1>13. CASE Scancel \/ TouchStop
  BY <1>13 DEF Scancel, TouchStop
<1> QED
  BY <1>1, <1>2, <1>3, <1>4, <1>5, <1>6, <1>7, <1>8, <1>9, <1>10, <1>11, <1>12,
     <1>13, <1>14 DEF Next, DriverStep

-----------------------------------------------------------------------------
(* How often a payload is started. *)

LEMMA OnceStep == IInv /\ [Next]_vars => Fresh' /\ AtMostOnce'
<1> SUFFICES ASSUME IInv, [Next]_vars PROVE Fresh' /\ AtMostOnce'
  OBVIOUS
<1> TypeOK /\ Located /\ Fresh /\ AtMostOnce
  BY DEF IInv
<1> USE DEF Fresh, BeforeSpawn, AtMostOnce, slurmVars, recordVars, linkVars,
            memoryVars, payloadVars, historyVars
<1>1. CASE UNCHANGED vars
  BY <1>1 DEF vars
<1>2. CASE BatchRefuse \/ BatchReturn \/ Requeue
  BY <1>2 DEF BatchRefuse, BatchReturn, Requeue, Exit
\* The directory of the successor was not there, so nothing ran in it.
<1>3. CASE BatchBegin
  <2> DEFINE number == Queued(stateFile).attempt
  <2>1. number \in Attempts
    BY <1>3, SuccessorType DEF BatchBegin
  <2>2. CASE number \in begun
    BY <1>3, <2>2 DEF BatchBegin, Exit
  <2>3. CASE number \notin begun
    <3>1. launches[number] = 0
      BY <2>1, <2>3 DEF TypeOK
    <3>2. state'.attempt = number /\ begun' = begun \cup {number} /\ launches' = launches
      BY <1>3, <2>3 DEF BatchBegin, Record
    <3> QED
      BY <3>1, <3>2
  <2> QED
    BY <2>2, <2>3
<1>4. CASE WriteReceipt \/ WriteState
  BY <1>4 DEF WriteReceipt, WriteState
<1>5. CASE AttemptCancelled \/ AttemptStart
  BY <1>5 DEF TypeOK, AttemptCancelled, AttemptStart, Startable, Record, Records
\* The only step that starts a payload, and it leaves the steps before spawn.
<1>6. CASE Spawn
  <2>1. state.attempt \in Attempts /\ state.attempt \in begun
    BY <1>6, AtWork DEF Spawn, Steps, Located
  <2>2. launches[state.attempt] = 0
    BY <1>6 DEF Spawn
  <2>3. /\ launches' = [launches EXCEPT ![state.attempt] = @ + 1]
        /\ begun' = begun /\ pc' = "wait"
    BY <1>6 DEF Spawn
  <2> QED
    BY <2>1, <2>2, <2>3 DEF TypeOK
<1>7. CASE WaitRequest \/ WaitStop \/ WaitExit \/ SpawnRaises \/ Judge
  BY <1>7 DEF WaitRequest, WaitStop, WaitExit, SpawnRaises, Judge
<1>8. CASE Seal
  BY <1>8 DEF Seal, Record
<1>9. ASSUME NEW accepted \in BOOLEAN, RequeueFails(accepted)
      PROVE  Fresh' /\ AtMostOnce'
  BY <1>9 DEF RequeueFails, Record
<1>10. CASE PayloadStep
  BY <1>10 DEF PayloadStep, Prepare, SaveOutput, MarkPaused, EntrypointReturns,
     Capture, CaptureFails, PayloadReturns, payloadUnchanged
<1>11. CASE SlurmStep
  BY <1>11 DEF SlurmStep, Allocate, PauseSignal, Terminate, SigtermDriver,
     SigtermPayload, payloadUnchanged, Finish, Kill, DriverGone
<1>12. CASE Scancel \/ TouchStop
  BY <1>12 DEF Scancel, TouchStop
<1> QED
  BY <1>1, <1>2, <1>3, <1>4, <1>5, <1>6, <1>7, <1>8, <1>9, <1>10, <1>11, <1>12
     DEF Next, DriverStep

-----------------------------------------------------------------------------
(* What a pause is worth. *)

\* What a payload has proved of an attempt is never taken back.
LEMMA VerifiedStays ==
  ASSUME TypeOK, Located, PayloadPlaced, [Next]_vars, NEW n \in Attempts, Verified(n)
  PROVE  Verified(n)'
<1> USE DEF Verified, slurmVars, recordVars, linkVars, memoryVars, payloadVars,
            historyVars
<1>1. CASE UNCHANGED vars
  BY <1>1 DEF vars
<1>2. CASE DriverStep
  BY <1>2 DEF DriverStep, BatchRefuse, BatchBegin, WriteReceipt, WriteState,
     AttemptCancelled, AttemptStart, Spawn, SpawnRaises, WaitRequest, WaitStop,
     WaitExit, Judge, Seal, Requeue, RequeueFails, BatchReturn
<1>3. CASE PayloadStep
  <2>1. CASE Capture
    <3>1. state.attempt \in Attempts /\ n # state.attempt
      BY <2>1, AtWork DEF Capture, PayloadPlaced, PayloadRuns, Steps
    <3> QED
      BY <2>1, <3>1 DEF Capture, payloadUnchanged, TypeOK
  <2>2. CASE Prepare \/ MarkPaused \/ EntrypointReturns \/ CaptureFails \/ PayloadReturns
    BY <2>2 DEF Prepare, MarkPaused, EntrypointReturns, CaptureFails, PayloadReturns,
       PayloadExits, payloadUnchanged
  <2>3. ASSUME NEW name \in Outputs, SaveOutput(name) PROVE Verified(n)'
    BY <2>3 DEF SaveOutput, payloadUnchanged
  <2> QED
    BY <1>3, <2>1, <2>2, <2>3 DEF PayloadStep
<1>4. CASE SlurmStep
  BY <1>4 DEF SlurmStep, Allocate, PauseSignal, Terminate, SigtermDriver,
     SigtermPayload, PayloadExits, payloadUnchanged, Finish, Kill, DriverGone
<1>5. CASE Scancel \/ TouchStop
  BY <1>5 DEF Scancel, TouchStop
<1> QED
  BY <1>1, <1>2, <1>3, <1>4, <1>5 DEF Next

LEMMA CleanExitStep == IInv /\ [Next]_vars => CleanExit'
<1> SUFFICES ASSUME IInv, [Next]_vars PROVE CleanExit'
  OBVIOUS
<1> TypeOK /\ Located /\ PayloadPlaced /\ CleanExit
  BY DEF IInv
<1> USE DEF CleanExit, Required, slurmVars, recordVars, linkVars, memoryVars,
            payloadVars, historyVars
<1>1. CASE UNCHANGED vars
  BY <1>1 DEF vars
\* The driver's steps before spawn and after seal find no payload.
<1>2. CASE \/ BatchRefuse \/ BatchBegin \/ WriteReceipt \/ WriteState
           \/ AttemptCancelled \/ AttemptStart \/ Requeue \/ BatchReturn
  BY <1>2 DEF BatchRefuse, BatchBegin, WriteReceipt, WriteState, AttemptCancelled,
     AttemptStart, Requeue, BatchReturn, PayloadPlaced
<1>3. ASSUME NEW accepted \in BOOLEAN, RequeueFails(accepted) PROVE CleanExit'
  BY <1>3 DEF RequeueFails, PayloadPlaced
<1>4. CASE Spawn \/ WaitRequest \/ WaitStop \/ WaitExit
  BY <1>4 DEF Spawn, WaitRequest, WaitStop, WaitExit
<1>5. CASE SpawnRaises \/ Judge
  BY <1>5 DEF TypeOK, SpawnRaises, Judge, Records
<1>6. CASE Seal
  BY <1>6 DEF Seal, NoPayload
<1>7. CASE PayloadStep
  <2>1. PayloadRuns => state.attempt \in Attempts
    BY AtWork DEF PayloadPlaced, Steps
  <2>2. CASE Capture
    BY <2>1, <2>2 DEF Capture, payloadUnchanged, PayloadRuns, TypeOK
  <2>3. CASE Prepare \/ MarkPaused \/ EntrypointReturns
    BY <2>3 DEF Prepare, MarkPaused, EntrypointReturns, PayloadExits, payloadUnchanged, TypeOK
  <2>4. CASE CaptureFails \/ PayloadReturns
    BY <2>4 DEF CaptureFails, PayloadReturns, PayloadExits, payloadUnchanged, TypeOK
  <2>5. ASSUME NEW name \in Outputs, SaveOutput(name) PROVE CleanExit'
    BY <2>5 DEF SaveOutput, payloadUnchanged
  <2> QED
    BY <1>7, <2>2, <2>3, <2>4, <2>5 DEF PayloadStep
<1>8. CASE SlurmStep
  BY <1>8 DEF SlurmStep, Allocate, PauseSignal, Terminate, SigtermDriver,
     SigtermPayload, PayloadExits, payloadUnchanged, Finish, Kill, DriverGone, NoPayload
<1>9. CASE Scancel \/ TouchStop
  BY <1>9 DEF Scancel, TouchStop
<1> QED
  BY <1>1, <1>2, <1>3, <1>4, <1>5, <1>6, <1>7, <1>8, <1>9 DEF Next, DriverStep

LEMMA PauseStep == IInv /\ [Next]_vars => PausesVerified'
<1> SUFFICES ASSUME IInv, [Next]_vars PROVE PausesVerified'
  OBVIOUS
<1> TypeOK /\ Located /\ PayloadPlaced /\ PausesVerified
  BY DEF IInv
<1>a. /\ Verified(state.attempt) => state.attempt \in Attempts
      /\ Verified(stateFile.attempt) => stateFile.attempt \in Attempts
  BY DEF Verified, TypeOK
<1>b. \A n \in Attempts : Verified(n) => Verified(n)'
  BY VerifiedStays
<1>c. SUFFICES \/ stateFile' = stateFile /\ state' = state
               \/ stateFile' = state /\ state' = state
               \/ stateFile' = stateFile /\ state'.state # "paused"
               \/ /\ stateFile' = stateFile
                  /\ state'.attempt = state.attempt
                  /\ state.state = "paused" \/ Verified(state.attempt)
  BY <1>a, <1>b DEF PausesVerified
<1> USE DEF slurmVars, recordVars, linkVars, memoryVars, payloadVars, historyVars
<1>1. CASE UNCHANGED vars
  BY <1>1 DEF vars
<1>2. CASE \/ BatchRefuse \/ WriteReceipt \/ WriteState \/ Spawn \/ WaitRequest
           \/ WaitStop \/ WaitExit \/ Requeue \/ BatchReturn
  BY <1>2 DEF BatchRefuse, WriteReceipt, WriteState, Spawn, WaitRequest, WaitStop,
     WaitExit, Requeue, BatchReturn, Exit
<1>3. CASE BatchBegin
  BY <1>3, SuccessorType DEF BatchBegin, Record, Exit
<1>4. CASE AttemptCancelled \/ AttemptStart \/ SpawnRaises
  BY <1>4 DEF TypeOK, AttemptCancelled, AttemptStart, SpawnRaises, Record, Records
\* The verdict "paused" needs an exit code of 0 and the marker.
<1>5. CASE Judge
  <2>1. Verdict = "paused" => Verified(state.attempt)
    <3> SUFFICES ASSUME Verdict = "paused" PROVE Verified(state.attempt)
      OBVIOUS
    <3>1. payload.code = 0 /\ state.attempt \in marked
      BY <1>5 DEF Verdict, Judge, TypeOK
    <3>2. payload.phase = "exited"
      BY <1>5 DEF Judge, PayloadPlaced
    <3> QED
      BY <3>1, <3>2 DEF IInv, CleanExit, Required, Verified
  <2>2. /\ stateFile' = stateFile
        /\ state'.attempt = state.attempt
        /\ state'.state = Verdict
    BY <1>5 DEF Judge, TypeOK, Records
  <2> QED
    BY <2>1, <2>2
<1>6. CASE Seal
  BY <1>6 DEF TypeOK, Seal, Record, Records
<1>7. ASSUME NEW accepted \in BOOLEAN, RequeueFails(accepted)
      PROVE  stateFile' = stateFile /\ state'.state # "paused"
  BY <1>7 DEF TypeOK, RequeueFails, Record, Records
<1>8. CASE PayloadStep
  BY <1>8 DEF PayloadStep, Prepare, SaveOutput, MarkPaused, EntrypointReturns,
     Capture, CaptureFails, PayloadReturns, payloadUnchanged
<1>9. CASE SlurmStep
  BY <1>9 DEF SlurmStep, Allocate, PauseSignal, Terminate, SigtermDriver,
     SigtermPayload, payloadUnchanged, Finish, Kill, DriverGone, NoRecord
<1>10. CASE Scancel \/ TouchStop
  BY <1>10 DEF Scancel, TouchStop
<1> QED
  BY <1>1, <1>2, <1>3, <1>4, <1>5, <1>6, <1>7, <1>8, <1>9, <1>10 DEF Next, DriverStep

\* A successor's directory is made only on the strength of a proved pause.
LEMMA ResumeStep == IInv /\ [Next]_vars => VerifiedResume'
<1> SUFFICES ASSUME IInv, [Next]_vars,
                    NEW n \in begun', n > 1
             PROVE  Verified(n - 1)'
  BY DEF VerifiedResume, Verified
<1> TypeOK /\ Located /\ PayloadPlaced /\ PausesVerified /\ VerifiedResume
  BY DEF IInv
<1>1. n \in begun \/ (BatchBegin /\ n = Queued(stateFile).attempt)
  <2> USE DEF slurmVars, recordVars, linkVars, memoryVars, payloadVars, historyVars
  <2>1. CASE BatchBegin
    BY <2>1 DEF BatchBegin
  <2>2. CASE DriverStep /\ ~BatchBegin
    BY <2>2 DEF DriverStep, BatchRefuse, WriteReceipt, WriteState, AttemptCancelled,
       AttemptStart, Spawn, SpawnRaises, WaitRequest, WaitStop, WaitExit, Judge, Seal,
       Requeue, RequeueFails, BatchReturn
  <2>3. CASE PayloadStep
    BY <2>3 DEF PayloadStep, Prepare, SaveOutput, MarkPaused, EntrypointReturns,
       Capture, CaptureFails, PayloadReturns, payloadUnchanged
  <2>4. CASE SlurmStep
    BY <2>4 DEF SlurmStep, Allocate, PauseSignal, Terminate, SigtermDriver,
       SigtermPayload, payloadUnchanged, Finish, Kill, DriverGone
  <2>5. CASE Scancel \/ TouchStop \/ UNCHANGED vars
    BY <2>5 DEF Scancel, TouchStop, vars
  <2> QED
    BY <2>1, <2>2, <2>3, <2>4, <2>5 DEF Next
<1>2. CASE n \in begun
  <2>1. Verified(n - 1) /\ n - 1 \in Attempts
    BY <1>2 DEF VerifiedResume, Verified, TypeOK
  <2> QED
    BY <2>1, VerifiedStays
<1>3. CASE BatchBegin /\ n = Queued(stateFile).attempt
  <2>1. n = stateFile.attempt + 1 /\ stateFile.attempt \in Nat
    BY <1>3, SuccessorType DEF BatchBegin, TypeOK, Records
  <2>2. stateFile # NoRecord
    BY <2>1 DEF NoRecord
  <2>3. stateFile.state = "paused"
    BY <1>3, <2>2 DEF BatchBegin, can_continue
  <2>4. Verified(n - 1) /\ n - 1 \in Attempts
    BY <2>1, <2>3 DEF PausesVerified, Verified, TypeOK
  <2> QED
    BY <2>4, VerifiedStays
<1> QED
  BY <1>1, <1>2, <1>3

-----------------------------------------------------------------------------
(* The theorems. *)

(***************************************************************************)
(* The inductive invariant: in every state the driver's record names an    *)
(* attempt it began itself, a payload that has not been spawned has not    *)
(* run, and a record that says "paused" tells the truth.                   *)
(***************************************************************************)
THEOREM Invariance == Spec => []IInv
<1>1. Init => IInv
  BY InitIInv
<1>2. IInv /\ [Next]_vars => IInv'
  BY TypeStep, PlaceStep, OnceStep, CleanExitStep, PauseStep, ResumeStep
     DEF IInv, Placed
<1> QED
  BY <1>1, <1>2, PTL DEF Spec

(***************************************************************************)
(* Every variable keeps its type; among other things the driver never      *)
(* writes a record of an attempt beyond the budget.                        *)
(***************************************************************************)
THEOREM TypeCorrect == Spec => []TypeOK
<1>1. IInv => TypeOK
  BY DEF IInv
<1> QED
  BY <1>1, Invariance, PTL

(***************************************************************************)
(* No payload is replayed: begin() refuses a directory that exists and     *)
(* attempt() one that is not queued, wherever drivers were killed before.  *)
(***************************************************************************)
THEOREM AtMostOnceHolds == Spec => []AtMostOnce
<1>1. IInv => AtMostOnce
  BY DEF IInv
<1> QED
  BY <1>1, Invariance, PTL

(***************************************************************************)
(* Every attempt after the first rests on a payload that wrote the pause   *)
(* marker, exited 0 and has its checkpoint retained, for every budget and  *)
(* every number of crashes and preemptions.                                *)
(***************************************************************************)
THEOREM VerifiedResumeHolds == Spec => []VerifiedResume
<1>1. IInv => VerifiedResume
  BY DEF IInv
<1> QED
  BY <1>1, Invariance, PTL

=============================================================================
