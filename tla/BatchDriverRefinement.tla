----------------------- MODULE BatchDriverRefinement -----------------------
(***************************************************************************)
(* What the files of a batch job mean, for every budget, every set of      *)
(* outputs and every number of faults: the artifact directory is the       *)
(* newest one, a completed record is whole, receipts lead, and the files   *)
(* implement Chain.                                                        *)
(*                                                                         *)
(* The invariant of BatchDriverProofs says where the driver's record comes *)
(* from; the one added here says how it differs from state.json until it   *)
(* is written, and what the directories hold beyond state.json.            *)
(***************************************************************************)
EXTENDS BatchDriverProofs

\* The pending record() is the step of the chain that `after` says.
Follows ==
  /\ after = "attempt" =>
       /\ state = Queued(stateFile)
       /\ stateFile = NoRecord \/ stateFile.state = "paused"
  /\ after # "attempt" =>
       /\ state.attempt = stateFile.attempt
       /\ state.artifacts = IF after = "requeue" THEN RetainedBy(stateFile) ELSE stateFile.artifacts
  /\ after = "spawn" => stateFile.state = "queued" /\ state.state = "running"
  /\ after = "requeue" =>
       \/ stateFile.state = "queued" /\ state.state = "stopped"
       \/ stateFile.state = "running" /\ state.state \in Settled
  /\ after = "exit" => stateFile.state = "paused" /\ state.state = "failed"

\* What the driver's record is, next to state.json, at each of its steps.
Bookkeeping ==
  /\ pc \in {"receipt", "state"} => Follows
  /\ pc = "state" => receipts[state.attempt] = state
  /\ pc \in {"attempt", "spawn", "wait", "judge", "requeue"} => state = stateFile
  /\ pc = "attempt" => stateFile.state = "queued"
  /\ pc \in {"spawn", "wait", "judge", "seal"} => stateFile.state = "running"
  /\ pc = "seal" => /\ state.state \in Settled
                    /\ state.attempt = stateFile.attempt
                    /\ state.artifacts = stateFile.artifacts
  /\ pc = "requeue" => state.state \in Settled

\* The directories are those of the attempts in state.json, and perhaps of one
\* more that a driver made and did not live to record.
Directories ==
  /\ stateFile.state = "none" <=> stateFile.attempt = 0
  /\ stateFile.state = "none" => stateFile = NoRecord
  /\ \/ begun = 1 .. stateFile.attempt
     \/ stateFile.state \in {"none", "paused"} /\ begun = 1 .. stateFile.attempt + 1
  /\ pc = "requeue" \/ (pc \in {"receipt", "state"} /\ after = "exit") =>
       begun = 1 .. stateFile.attempt

\* What is retained was launched, and what was launched is in state.json.
Launched ==
  /\ \A n \in Attempts : captured[n] # {} => launches[n] > 0
  /\ \A n \in Attempts : launches[n] > 0 =>
       \/ n < stateFile.attempt
       \/ n = stateFile.attempt /\ stateFile.state # "queued"
  /\ pc = "wait" => launches[state.attempt] > 0

\* a is the newest of the attempts in S, or the first if there is none.
Newest(a, S) ==
  \/ S = {} /\ a = 1
  \/ a \in S /\ \A n \in S : n <= a

Before(number) == {n \in Retained : n < number}

ArtifactsFollow ==
  /\ stateFile.state \in {"queued", "running"} =>
       Newest(stateFile.artifacts, Before(stateFile.attempt))
  /\ stateFile.state \in Settled => Newest(stateFile.artifacts, Retained)

\* A completed record, written or not, is about a clean payload and all outputs.
Whole(record) ==
  record.state = "completed" =>
    captured[record.attempt] = Outputs /\ record.attempt \in clean

WholeRecords ==
  /\ Whole(stateFile)
  /\ pc \in {"seal", "receipt", "state", "requeue"} => Whole(state)

\* A record that tells of a payload names the native job it ran in.
Named(record) == record.state \in {"running", "paused", "completed"} => record.native

NamedRecords ==
  /\ Named(stateFile)
  /\ pc \in {"seal", "receipt", "state", "requeue"} => Named(state)

RInv ==
  /\ IInv
  /\ Bookkeeping
  /\ Directories
  /\ Launched
  /\ ArtifactsFollow
  /\ WholeRecords
  /\ NamedRecords
  /\ ReceiptsLead

\* One late start at most, and no other once it has been made.
AboutToSpawn ==
  \/ pc = "spawn"
  \/ pc \in {"receipt", "state"} /\ after = "spawn"

LateInv ==
  /\ lateStarts \in {0, 1}
  /\ lateStarts = 1 => stopFile /\ ~AboutToSpawn

-----------------------------------------------------------------------------
(* Who writes what. *)

\* Each file, and each piece of history, has a single kind of step that writes it.
LEMMA Writers ==
  ASSUME [Next]_vars
  PROVE  /\ stateFile' = stateFile \/ WriteState
         /\ receipts' = receipts \/ WriteReceipt
         /\ begun' = begun \/ BatchBegin
         /\ captured' = captured \/ Capture
         /\ launches' = launches \/ Spawn
         /\ lateStarts' = lateStarts \/ Spawn
         /\ clean \subseteq clean'
<1> USE DEF slurmVars, recordVars, linkVars, memoryVars, payloadVars, historyVars
<1>1. CASE UNCHANGED vars
  BY <1>1 DEF vars
<1>2. CASE \/ BatchRefuse \/ BatchBegin \/ WriteReceipt \/ WriteState
           \/ AttemptCancelled \/ AttemptStart \/ Spawn \/ SpawnRaises
  BY <1>2 DEF BatchRefuse, BatchBegin, WriteReceipt, WriteState, AttemptCancelled,
     AttemptStart, Spawn, SpawnRaises
<1>3. CASE WaitRequest \/ WaitStop \/ WaitExit \/ Judge \/ Seal \/ Requeue \/ BatchReturn
  BY <1>3 DEF WaitRequest, WaitStop, WaitExit, Judge, Seal, Requeue, BatchReturn
<1>4. CASE \E accepted \in BOOLEAN : RequeueFails(accepted)
  BY <1>4 DEF RequeueFails
<1>5. CASE PayloadStep
  BY <1>5 DEF PayloadStep, Prepare, SaveOutput, MarkPaused, EntrypointReturns, Capture,
     CaptureFails, PayloadReturns, PayloadExits, payloadUnchanged
<1>6. CASE SlurmStep
  BY <1>6 DEF SlurmStep, Allocate, PauseSignal, Terminate, SigtermDriver,
     SigtermPayload, PayloadExits, payloadUnchanged, Finish, Kill, DriverGone
<1>7. CASE Scancel \/ TouchStop
  BY <1>7 DEF Scancel, TouchStop
<1> QED
  BY <1>1, <1>2, <1>3, <1>4, <1>5, <1>6, <1>7 DEF Next, DriverStep

\* Around the driver, a step leaves its memory alone, or it starts or ends the driver.
LEMMA Bystanders ==
  ASSUME [Next]_vars, ~DriverStep
  PROVE  /\ UNCHANGED <<pc, state, after>> \/ Allocate \/ Finish \/ Kill
         /\ UNCHANGED <<pc, state, after>> \/ pc' \in {"off", "batch"}
<1> USE DEF slurmVars, recordVars, linkVars, memoryVars, payloadVars, historyVars
<1>1. CASE UNCHANGED vars
  BY <1>1 DEF vars
<1>2. CASE PayloadStep
  BY <1>2 DEF PayloadStep, Prepare, SaveOutput, MarkPaused, EntrypointReturns, Capture,
     CaptureFails, PayloadReturns, payloadUnchanged
<1>3. CASE SlurmStep
  BY <1>3 DEF SlurmStep, Allocate, PauseSignal, Terminate, SigtermDriver,
     SigtermPayload, payloadUnchanged, Finish, Kill, DriverGone
<1>4. CASE Scancel \/ TouchStop
  BY <1>4 DEF Scancel, TouchStop
<1> QED
  BY <1>1, <1>2, <1>3, <1>4 DEF Next

\* A payload is at work only on the attempt that state.json says is running.
LEMMA PayloadAtWork ==
  ASSUME TypeOK, Located, PayloadPlaced, Bookkeeping, PayloadRuns
  PROVE  /\ pc = "wait"
         /\ state = stateFile
         /\ stateFile.attempt \in Attempts
         /\ stateFile.state = "running"
<1>1. pc = "wait"
  BY DEF PayloadPlaced
<1> QED
  BY <1>1, AtWork DEF Bookkeeping, Steps

-----------------------------------------------------------------------------
(* The initial state, and one lemma for each part of the invariant. *)

LEMMA InitRInv == Init => RInv
<1> SUFFICES ASSUME Init PROVE RInv
  OBVIOUS
<1> USE DEF Init, NoRecord
<1>1. IInv
  BY InitIInv
<1>2. Bookkeeping /\ Directories /\ Launched
  BY DEF Bookkeeping, Directories, Launched
<1>3. ArtifactsFollow /\ WholeRecords /\ NamedRecords /\ ReceiptsLead
  BY DEF ArtifactsFollow, Settled, WholeRecords, Whole, NamedRecords, Named, ReceiptsLead
<1> QED
  BY <1>1, <1>2, <1>3 DEF RInv

\* The record that begin() extends is absent or a pause.
LEMMA BeginExtends ==
  ASSUME BatchBegin, Queued(stateFile).attempt \notin begun
  PROVE  /\ state' = Queued(stateFile)
         /\ stateFile = NoRecord \/ stateFile.state = "paused"
         /\ pc' = "receipt" /\ after' = "attempt"
         /\ begun' = begun \cup {Queued(stateFile).attempt}
         /\ UNCHANGED <<stateFile, receipts, captured>>
BY DEF BatchBegin, Record, can_continue, recordVars

LEMMA BookStep == RInv /\ [Next]_vars => Bookkeeping'
<1> SUFFICES ASSUME RInv, [Next]_vars PROVE Bookkeeping'
  OBVIOUS
<1> TypeOK /\ Located /\ PayloadPlaced /\ Bookkeeping /\ Directories /\ Launched
  BY DEF RInv, IInv
<1> USE DEF slurmVars, recordVars, linkVars, memoryVars, payloadVars, historyVars
<1>1. CASE ~DriverStep
  <2>1. CASE pc' \in {"off", "batch"}
    BY <2>1 DEF Bookkeeping
  <2>2. CASE UNCHANGED <<pc, state, after>>
    <3>1. UNCHANGED <<stateFile, receipts>>
      BY <1>1, Writers DEF DriverStep
    <3>2. UNCHANGED captured \/ Capture
      BY Writers
    <3>3. CASE UNCHANGED captured
      BY <2>2, <3>1, <3>3 DEF Bookkeeping, Follows, RetainedBy, Settled
    <3>4. CASE Capture
      <4>1. pc = "wait"
        BY <3>4 DEF Capture, PayloadPlaced, PayloadRuns
      <4> QED
        BY <2>2, <3>1, <4>1 DEF Bookkeeping
    <3> QED
      BY <3>2, <3>3, <3>4
  <2> QED
    BY <1>1, <2>1, <2>2, Bystanders
<1>2. CASE BatchRefuse \/ Requeue \/ BatchReturn
  BY <1>2 DEF BatchRefuse, Requeue, BatchReturn, Exit, Bookkeeping
<1>3. CASE BatchBegin
  <2>1. CASE Queued(stateFile).attempt \in begun
    BY <1>3, <2>1 DEF BatchBegin, Exit, Bookkeeping
  <2>2. CASE Queued(stateFile).attempt \notin begun
    BY <1>3, <2>2, BeginExtends DEF Bookkeeping, Follows, NoRecord, Queued
  <2> QED
    BY <2>1, <2>2
<1>4. CASE WriteReceipt
  <2>1. state.attempt \in Attempts
    BY <1>4, AtWork DEF WriteReceipt, Steps
  <2>2. receipts'[state.attempt] = state
    BY <1>4, <2>1 DEF WriteReceipt, TypeOK
  <2> QED
    BY <1>4, <2>2 DEF WriteReceipt, Bookkeeping, Follows, RetainedBy, Settled
<1>5. CASE WriteState
  <2>1. after \in {"attempt", "spawn", "requeue", "exit"}
    BY DEF TypeOK
  <2>2. pc' = after /\ stateFile' = state /\ state' = state /\ Follows
    BY <1>5 DEF WriteState, Bookkeeping
  <2> QED
    BY <2>1, <2>2 DEF Bookkeeping, Follows, Queued, Settled
<1>6. CASE AttemptCancelled
  <2>1. /\ pc = "attempt" /\ stateFile.state = "queued"
        /\ pc' = "receipt" /\ after' = "requeue"
        /\ UNCHANGED <<stateFile, captured, receipts>>
        /\ state' = [stateFile EXCEPT !.state = "stopped"]
    BY <1>6 DEF AttemptCancelled, Record, Bookkeeping
  <2>2. state'.attempt = stateFile.attempt /\ state'.state = "stopped"
        /\ state'.artifacts = stateFile.artifacts
    BY <2>1 DEF TypeOK, Records
  <2>3. stateFile.attempt \in Attempts
    BY <2>1, AtWork DEF Bookkeeping, Steps
  <2>4. ~(launches[stateFile.attempt] > 0)
    BY <2>1, <2>3 DEF Launched, Attempts
  <2>5. captured[stateFile.attempt] = {}
    BY <2>3, <2>4 DEF Launched
  <2> QED
    BY <2>1, <2>2, <2>5 DEF Bookkeeping, Follows, RetainedBy
<1>7. CASE AttemptStart
  <2>1. /\ pc = "attempt" /\ stateFile.state = "queued"
        /\ pc' = "receipt" /\ after' = "spawn"
        /\ UNCHANGED <<stateFile, captured, receipts>>
        /\ state' = [stateFile EXCEPT !.state = "running", !.native = TRUE]
    BY <1>7 DEF AttemptStart, Record, Bookkeeping
  <2>2. state'.attempt = stateFile.attempt /\ state'.state = "running"
        /\ state'.artifacts = stateFile.artifacts
    BY <2>1 DEF TypeOK, Records
  <2> QED
    BY <2>1, <2>2 DEF Bookkeeping, Follows
<1>8. CASE Spawn \/ WaitRequest \/ WaitStop \/ WaitExit
  BY <1>8 DEF Spawn, WaitRequest, WaitStop, WaitExit, Bookkeeping
<1>9. CASE SpawnRaises
  BY <1>9 DEF SpawnRaises, Bookkeeping, TypeOK, Records, Settled
<1>10. CASE Judge
  <2>1. Verdict \in Settled
    BY DEF Verdict, Settled
  <2> QED
    BY <1>10, <2>1 DEF Judge, Bookkeeping, TypeOK, Records
<1>11. CASE Seal
  <2>1. /\ pc = "seal" /\ pc' = "receipt" /\ after' = "requeue"
        /\ UNCHANGED <<stateFile, captured, receipts>>
        /\ state' = [state EXCEPT !.artifacts = RetainedBy(state),
                                  !.continuing = can_continue(state)]
    BY <1>11 DEF Seal, Record
  <2>2. /\ state'.attempt = state.attempt
        /\ state'.artifacts = RetainedBy(state)
        /\ state'.state = state.state
    BY <2>1 DEF TypeOK, Records
  <2>3. RetainedBy(state) = RetainedBy(stateFile)
    BY <2>1 DEF RetainedBy, Bookkeeping
  <2> QED
    BY <2>1, <2>2, <2>3 DEF Bookkeeping, Follows, RetainedBy
<1>12. ASSUME NEW accepted \in BOOLEAN, RequeueFails(accepted) PROVE Bookkeeping'
  <2>1. /\ pc = "requeue" /\ pc' = "receipt" /\ after' = "exit"
        /\ UNCHANGED <<stateFile, captured, receipts>>
        /\ state' = [state EXCEPT !.state = "failed", !.continuing = FALSE]
        /\ state.state = "paused"
    BY <1>12 DEF RequeueFails, Record, can_continue
  <2>2. state'.attempt = state.attempt /\ state'.artifacts = state.artifacts
        /\ state'.state = "failed"
    BY <2>1 DEF TypeOK, Records
  <2> QED
    BY <2>1, <2>2 DEF Bookkeeping, Follows
<1> QED
  BY <1>1, <1>2, <1>3, <1>4, <1>5, <1>6, <1>7, <1>8, <1>9, <1>10, <1>11, <1>12
     DEF DriverStep

\* WriteState carries out what the pending record() follows.
LEMMA WriteFollows ==
  ASSUME Bookkeeping, WriteState
  PROVE  /\ Follows
         /\ stateFile' = state
         /\ pc' = after
         /\ receipts[state.attempt] = state
         /\ UNCHANGED <<state, after, receipts, begun, captured, launches, clean>>
BY DEF WriteState, Bookkeeping, memoryVars, historyVars

LEMMA DirectoryStep == RInv /\ [Next]_vars => Directories'
<1> SUFFICES ASSUME RInv, [Next]_vars PROVE Directories'
  OBVIOUS
<1> TypeOK /\ Located /\ Bookkeeping /\ Directories
  BY DEF RInv, IInv
<1>1. stateFile.attempt \in Nat
  BY DEF TypeOK, Records
<1>2. CASE WriteState
  <2>1. pc = "state" /\ state.attempt \in begun
    BY <1>2 DEF WriteState, Located, Steps
  <2>2. CASE after = "attempt"
    <3>1. /\ stateFile.state \in {"none", "paused"}
          /\ state.attempt = stateFile.attempt + 1
          /\ state.state = "queued"
      BY <1>2, <2>2, WriteFollows DEF Follows, Queued, NoRecord
    <3>2. begun = 1 .. state.attempt
      BY <1>1, <2>1, <3>1 DEF Directories
    <3> QED
      BY <1>1, <1>2, <2>2, <3>1, <3>2, WriteFollows DEF Directories
  <2>3. CASE after \in {"spawn", "requeue"}
    <3>1. /\ stateFile.state \in {"queued", "running"}
          /\ state.attempt = stateFile.attempt
          /\ state.state # "none"
      BY <1>2, <2>3, WriteFollows DEF Follows, Settled
    <3>2. begun = 1 .. stateFile.attempt
      BY <3>1 DEF Directories
    <3> QED
      BY <1>2, <2>3, <3>1, <3>2, WriteFollows DEF Directories
  <2>4. CASE after = "exit"
    <3>1. /\ stateFile.state = "paused"
          /\ state.attempt = stateFile.attempt
          /\ state.state = "failed"
      BY <1>2, <2>4, WriteFollows DEF Follows
    <3>2. begun = 1 .. stateFile.attempt
      BY <2>1, <2>4 DEF Directories
    <3> QED
      BY <1>2, <2>4, <3>1, <3>2, WriteFollows DEF Directories
  <2> QED
    BY <2>2, <2>3, <2>4 DEF TypeOK
<1>3. CASE BatchBegin
  <2>1. CASE Queued(stateFile).attempt \in begun
    BY <1>3, <2>1 DEF BatchBegin, Exit, recordVars, Directories
  <2>2. CASE Queued(stateFile).attempt \notin begun
    <3>1. /\ stateFile.state \in {"none", "paused"}
          /\ Queued(stateFile).attempt = stateFile.attempt + 1
      BY <1>3, <2>2, BeginExtends DEF NoRecord, Queued
    <3>2. begun = 1 .. stateFile.attempt
      BY <1>1, <2>2, <3>1 DEF Directories
    <3>4. begun' = (1 .. stateFile.attempt) \cup {stateFile.attempt + 1}
      BY <1>3, <2>2, <3>1, <3>2, BeginExtends
    <3>3. begun' = 1 .. stateFile.attempt + 1
      BY <1>1, <3>4
    <3> QED
      BY <1>3, <2>2, <3>1, <3>3, BeginExtends DEF Directories
  <2> QED
    BY <2>1, <2>2
<1>4. CASE ~WriteState /\ ~BatchBegin
  <2>1. UNCHANGED <<stateFile, begun>>
    BY <1>4, Writers
  <2>2. SUFFICES ASSUME \/ pc' = "requeue"
                        \/ pc' \in {"receipt", "state"} /\ after' = "exit"
                 PROVE  begun = 1 .. stateFile.attempt
    BY <2>1 DEF Directories
  <2>3. CASE DriverStep
    <3> USE <2>2
    <3>1. ~(BatchRefuse \/ Requeue \/ BatchReturn)
      BY DEF BatchRefuse, Requeue, BatchReturn, Exit
    <3>2. ~(AttemptCancelled \/ AttemptStart \/ Seal)
      BY DEF AttemptCancelled, AttemptStart, Seal, Record
    <3>3. ~(Spawn \/ WaitRequest \/ WaitStop \/ WaitExit \/ SpawnRaises \/ Judge)
      BY DEF Spawn, WaitRequest, WaitStop, WaitExit, SpawnRaises, Judge
    <3>4. CASE WriteReceipt
      BY <3>4 DEF WriteReceipt, memoryVars, Directories
    <3>5. CASE \E accepted \in BOOLEAN : RequeueFails(accepted)
      BY <3>5 DEF RequeueFails, Directories
    <3> QED
      BY <1>4, <2>3, <3>1, <3>2, <3>3, <3>4, <3>5 DEF DriverStep
  <2>4. CASE ~DriverStep
    BY <2>2, <2>4, Bystanders DEF Directories
  <2> QED
    BY <2>3, <2>4
<1> QED
  BY <1>2, <1>3, <1>4

LEMMA LaunchedStep == RInv /\ [Next]_vars => Launched'
<1> SUFFICES ASSUME RInv, [Next]_vars PROVE Launched'
  OBVIOUS
<1> TypeOK /\ Located /\ PayloadPlaced /\ Bookkeeping /\ Directories /\ Launched
  BY DEF RInv, IInv
<1>1. stateFile.attempt \in Nat /\ \A n \in Attempts : n > 0 /\ n \in Nat
  BY DEF TypeOK, Records, Attempts
<1>2. CASE WriteState
  <2>1. \A n \in Attempts : launches[n] > 0 =>
          \/ n < state.attempt
          \/ n = state.attempt /\ state.state # "queued"
    <3>1. CASE after = "attempt"
      BY <1>1, <1>2, <3>1, WriteFollows DEF Launched, Follows, Queued, NoRecord
    <3>2. CASE after # "attempt"
      BY <1>2, <3>2, WriteFollows DEF Launched, Follows, TypeOK, Settled
    <3> QED
      BY <3>1, <3>2
  <2>2. pc' # "wait"
    BY <1>2, WriteFollows DEF TypeOK
  <2> QED
    BY <1>2, <2>1, <2>2, WriteFollows DEF Launched
<1>3. CASE Spawn
  <2>1. /\ state.attempt \in Attempts /\ state = stateFile
        /\ stateFile.state = "running"
    BY <1>3, AtWork DEF Spawn, Bookkeeping, Steps
  <2>2. /\ UNCHANGED <<state, stateFile, captured>>
        /\ launches' = [launches EXCEPT ![state.attempt] = launches[state.attempt] + 1]
    BY <1>3 DEF Spawn, recordVars, memoryVars
  <2>3. \A n \in Attempts : launches[n] \in Nat
    BY DEF TypeOK
  <2>4. /\ \A n \in Attempts : n # state.attempt => launches'[n] = launches[n]
        /\ launches'[state.attempt] > 0
        /\ launches[state.attempt] + 1 > 0
    BY <2>1, <2>2, <2>3 DEF TypeOK
  <2> QED
    BY <2>1, <2>2, <2>3, <2>4 DEF Launched
<1>4. CASE Capture
  <2>1. pc = "wait" /\ state.attempt \in Attempts
    BY <1>4, AtWork DEF Capture, PayloadPlaced, PayloadRuns, Steps
  <2>2. /\ UNCHANGED <<stateFile, launches, state, pc>>
        /\ \A n \in Attempts : n # state.attempt => captured'[n] = captured[n]
    BY <1>4 DEF Capture, payloadUnchanged, recordVars, memoryVars, TypeOK
  <2> QED
    BY <2>1, <2>2 DEF Launched
<1>5. CASE ~WriteState /\ ~Spawn /\ ~Capture
  <2>1. UNCHANGED <<stateFile, launches, captured>>
    BY <1>5, Writers
  <2>2. SUFFICES ASSUME pc' = "wait" PROVE launches[state'.attempt] > 0
    BY <2>1 DEF Launched
  <2>3. CASE DriverStep
    <3> USE <2>2
    <3>1. ~(BatchRefuse \/ Requeue \/ BatchReturn)
      BY DEF BatchRefuse, Requeue, BatchReturn, Exit
    <3>2. ~(AttemptCancelled \/ AttemptStart \/ Seal)
      BY DEF AttemptCancelled, AttemptStart, Seal, Record
    <3>3. ~(WriteReceipt \/ WaitStop \/ WaitExit \/ SpawnRaises \/ Judge)
      BY DEF WriteReceipt, WaitStop, WaitExit, SpawnRaises, Judge
    <3>4. ~(\E accepted \in BOOLEAN : RequeueFails(accepted))
      BY DEF RequeueFails, Record
    <3>5. ~BatchBegin
      BY DEF BatchBegin, Record, Exit
    <3>6. CASE WaitRequest
      BY <3>6 DEF WaitRequest, memoryVars, Launched
    <3> QED
      BY <1>5, <2>3, <3>1, <3>2, <3>3, <3>4, <3>5, <3>6 DEF DriverStep
  <2>4. CASE ~DriverStep
    BY <2>2, <2>4, Bystanders DEF Launched
  <2> QED
    BY <2>3, <2>4
<1> QED
  BY <1>2, <1>3, <1>4, <1>5

-----------------------------------------------------------------------------
(* The artifact directory. *)

\* Nothing is retained beyond the attempt in state.json.
LEMMA RetainedReach ==
  ASSUME TypeOK, Launched, NEW n \in Retained
  PROVE  /\ n \in Attempts
         /\ n <= stateFile.attempt
         /\ n = stateFile.attempt => stateFile.state # "queued"
<1>1. n \in Attempts /\ launches[n] > 0
  BY DEF Retained, Launched
<1> QED
  BY <1>1 DEF Launched, TypeOK, Records, Attempts

LEMMA ArtifactStep == RInv /\ [Next]_vars => ArtifactsFollow'
<1> SUFFICES ASSUME RInv, [Next]_vars PROVE ArtifactsFollow'
  OBVIOUS
<1> TypeOK /\ Located /\ PayloadPlaced /\ Bookkeeping /\ Directories /\ Launched /\ ArtifactsFollow
  BY DEF RInv, IInv
<1>a. stateFile.attempt \in 0 .. MaxAttempts /\ state.attempt \in 0 .. MaxAttempts
  BY DEF TypeOK, Records
<1>b. MaxAttempts \in Nat
  BY DriverAssumption DEF DriverAssumption
<1>1. CASE WriteState
  <2>1. Retained' = Retained
    BY <1>1, WriteFollows DEF Retained
  <2>2. CASE after = "attempt"
    <3>1. /\ state.attempt = stateFile.attempt + 1 /\ state.state = "queued"
          /\ \/ stateFile = NoRecord /\ state.artifacts = 1
             \/ stateFile.state = "paused" /\ stateFile # NoRecord
                /\ state.artifacts = stateFile.artifacts
      BY <1>1, <2>2, WriteFollows DEF Follows, Queued, NoRecord
    <3>2. Before(state.attempt) = Retained
      BY <1>a, <1>b, <3>1, RetainedReach DEF Before, Attempts
    <3>3. stateFile = NoRecord => Retained = {}
      BY <1>b, RetainedReach DEF NoRecord, Attempts
    <3>4. Newest(state.artifacts, Retained)
      BY <3>1, <3>3 DEF ArtifactsFollow, Newest, Settled
    <3> QED
      BY <1>1, <2>1, <3>1, <3>2, <3>4, WriteFollows
         DEF ArtifactsFollow, Before, Settled
  <2>3. CASE after = "spawn"
    BY <1>1, <2>1, <2>3, WriteFollows DEF ArtifactsFollow, Before, Follows, Settled
  <2>4. CASE after = "requeue"
    <3>1. /\ Newest(stateFile.artifacts, Before(stateFile.attempt))
          /\ state.artifacts = RetainedBy(stateFile)
          /\ state.state \in Settled
      BY <1>1, <2>4, WriteFollows DEF ArtifactsFollow, Follows, Settled
    <3>2. stateFile.attempt \in Attempts
      BY <1>1, <2>4, AtWork, WriteFollows DEF Follows, WriteState, Steps
    <3>3. CASE captured[stateFile.attempt] # {}
      <4>1. stateFile.attempt \in Retained /\ state.artifacts = stateFile.attempt
        BY <3>1, <3>2, <3>3 DEF Retained, RetainedBy
      <4>2. Newest(state.artifacts, Retained)
        BY <4>1, RetainedReach DEF Newest
      <4> QED
        BY <1>1, <2>1, <3>1, <4>2, WriteFollows DEF ArtifactsFollow, Settled
    <3>4. CASE captured[stateFile.attempt] = {}
      <4>1. state.artifacts = stateFile.artifacts /\ stateFile.attempt \notin Retained
        BY <3>1, <3>4 DEF Retained, RetainedBy
      <4>2. Before(stateFile.attempt) = Retained
        BY <1>a, <1>b, <4>1, RetainedReach DEF Before, Attempts
      <4> QED
        BY <1>1, <2>1, <3>1, <4>1, <4>2, WriteFollows DEF ArtifactsFollow, Settled
    <3> QED
      BY <3>3, <3>4
  <2>5. CASE after = "exit"
    BY <1>1, <2>1, <2>5, WriteFollows DEF ArtifactsFollow, Follows, Settled
  <2> QED
    BY <2>2, <2>3, <2>4, <2>5 DEF TypeOK
\* While the payload publishes, state.json says "running".
<1>2. CASE Capture
  <2>1. /\ state = stateFile /\ stateFile.attempt \in Attempts
        /\ stateFile.state = "running"
    BY <1>2, PayloadAtWork DEF Capture, PayloadRuns
  <2>2. /\ stateFile' = stateFile
        /\ \A n \in Attempts : n # stateFile.attempt => captured'[n] = captured[n]
    BY <1>2, <2>1 DEF Capture, payloadUnchanged, recordVars, TypeOK
  <2>3. Before(stateFile.attempt)' = Before(stateFile.attempt)
    BY <2>1, <2>2 DEF Before, Retained, Attempts
  <2> QED
    BY <2>1, <2>2, <2>3 DEF ArtifactsFollow, Settled
<1>3. CASE ~WriteState /\ ~Capture
  <2>1. UNCHANGED <<stateFile, captured>>
    BY <1>3, Writers
  <2> QED
    BY <2>1 DEF ArtifactsFollow, Before, Retained
<1> QED
  BY <1>1, <1>2, <1>3

-----------------------------------------------------------------------------
(* What a record of a payload is worth. *)

\* What a completed attempt published, and that its payload exited 0, stays.
LEMMA WholeStays ==
  ASSUME TypeOK, Located, PayloadPlaced, [Next]_vars, NEW n \in Attempts,
         captured[n] = Outputs, n \in clean
  PROVE  (captured[n] = Outputs /\ n \in clean)'
<1>1. n \in clean'
  BY Writers
<1>2. CASE Capture
  <2>1. state.attempt \in Attempts /\ captured[state.attempt] = {}
    BY <1>2, AtWork DEF Capture, PayloadPlaced, PayloadRuns, Steps
  <2>2. n # state.attempt
    BY <2>1, DriverAssumption DEF DriverAssumption
  <2>3. captured'[n] = captured[n]
    BY <1>2, <2>1, <2>2 DEF Capture, TypeOK
  <2> QED
    BY <1>1, <2>3
<1>3. CASE captured' = captured
  BY <1>1, <1>3
<1> QED
  BY <1>2, <1>3, Writers

\* The steps at which the driver holds a record about to be written.
Holding == {"seal", "receipt", "state", "requeue"}

\* Where such a record comes from: it is kept, it makes no claim about a payload
\* that has run, or it is the verdict on the one that just exited.
LEMMA RecordSources ==
  ASSUME TypeOK, Bookkeeping, [Next]_vars, pc' \in Holding
  PROVE  \/ /\ pc \in Holding
            /\ state'.attempt = state.attempt
            /\ state'.state = state.state
            /\ state'.native = state.native
         \/ state'.state \in {"queued", "failed", "stopped"}
         \/ state'.state = "running" /\ state'.native
         \/ /\ Judge
            /\ state = stateFile
            /\ stateFile.state = "running"
            /\ state'.attempt = state.attempt
            /\ state'.state = Verdict
            /\ state'.native = state.native
<1> USE DEF Holding
<1>1. CASE ~DriverStep
  BY <1>1, Bystanders
<1>2. CASE BatchRefuse \/ Requeue \/ BatchReturn
  BY <1>2 DEF BatchRefuse, Requeue, BatchReturn, Exit
<1>3. CASE BatchBegin
  BY <1>3 DEF BatchBegin, Record, Exit, Queued
<1>4. CASE WriteReceipt \/ WriteState
  BY <1>4 DEF WriteReceipt, WriteState, memoryVars
<1>5. CASE AttemptCancelled \/ AttemptStart
  BY <1>5 DEF AttemptCancelled, AttemptStart, Record, TypeOK, Records
<1>6. CASE Spawn \/ WaitRequest \/ WaitStop \/ WaitExit
  BY <1>6 DEF Spawn, WaitRequest, WaitStop, WaitExit
<1>7. CASE SpawnRaises
  BY <1>7 DEF SpawnRaises, TypeOK, Records
<1>8. CASE Judge
  BY <1>8 DEF Judge, Bookkeeping, TypeOK, Records
<1>9. CASE Seal
  BY <1>9 DEF Seal, Record, TypeOK, Records
<1>10. CASE \E accepted \in BOOLEAN : RequeueFails(accepted)
  BY <1>10 DEF RequeueFails, Record, TypeOK, Records
<1> QED
  BY <1>1, <1>2, <1>3, <1>4, <1>5, <1>6, <1>7, <1>8, <1>9, <1>10 DEF DriverStep

LEMMA WholeStep == RInv /\ [Next]_vars => WholeRecords'
<1> SUFFICES ASSUME RInv, [Next]_vars PROVE WholeRecords'
  OBVIOUS
<1> /\ TypeOK /\ Located /\ PayloadPlaced /\ CleanExit
    /\ Bookkeeping /\ Directories /\ WholeRecords
  BY DEF RInv, IInv
<1>1. stateFile.state = "completed" => stateFile.attempt \in Attempts
  BY DEF Directories, TypeOK, Records, Attempts
<1>2. pc \in Holding \cup {"judge"} => state.attempt \in Attempts
  BY AtWork DEF Holding, Steps
<1>3. Whole(stateFile)'
  <2>1. CASE stateFile' = stateFile
    BY <1>1, <2>1, WholeStays DEF WholeRecords, Whole
  <2>2. CASE WriteState
    <3>1. stateFile' = state /\ pc \in Holding
      BY <2>2 DEF WriteState, Holding
    <3> QED
      BY <1>2, <3>1, WholeStays DEF WholeRecords, Whole, Holding
  <2> QED
    BY <2>1, <2>2, Writers
<1>4. ASSUME pc' \in Holding PROVE Whole(state)'
  <2>1. CASE /\ pc \in Holding
             /\ state'.attempt = state.attempt
             /\ state'.state = state.state
    BY <1>2, <2>1, WholeStays DEF WholeRecords, Whole, Holding
  <2>2. CASE state'.state # "completed"
    BY <2>2 DEF Whole
  \* The verdict "completed" needs an exit code of 0 and no pause marker.
  <2>3. CASE /\ Judge /\ state'.attempt = state.attempt
             /\ state'.state = Verdict /\ Verdict = "completed"
    <3>1. payload.phase = "exited" /\ payload.code = 0 /\ state.attempt \notin marked
      BY <2>3 DEF Judge, Verdict, PayloadPlaced, TypeOK
    <3>2. captured[state.attempt] = Outputs /\ state.attempt \in clean
      BY <3>1 DEF CleanExit, Required
    <3>3. state.attempt \in Attempts
      BY <1>2, <2>3 DEF Judge
    <3> QED
      BY <2>3, <3>2, <3>3, WholeStays DEF Whole
  <2> QED
    BY <1>4, <2>1, <2>2, <2>3, RecordSources
<1> QED
  BY <1>3, <1>4 DEF WholeRecords, Whole, Holding

LEMMA NamedStep == RInv /\ [Next]_vars => NamedRecords'
<1> SUFFICES ASSUME RInv, [Next]_vars PROVE NamedRecords'
  OBVIOUS
<1> TypeOK /\ Bookkeeping /\ NamedRecords
  BY DEF RInv, IInv
<1>1. Named(stateFile)'
  <2>1. CASE stateFile' = stateFile
    BY <2>1 DEF NamedRecords
  <2>2. CASE WriteState
    BY <2>2 DEF WriteState, NamedRecords
  <2> QED
    BY <2>1, <2>2, Writers
<1>2. ASSUME pc' \in Holding PROVE Named(state)'
  BY <1>2, RecordSources DEF NamedRecords, Named, Holding
<1> QED
  BY <1>1, <1>2 DEF NamedRecords, Named, Holding

-----------------------------------------------------------------------------
(* Receipts. *)

LEMMA ReceiptStep == RInv /\ [Next]_vars => ReceiptsLead'
<1> SUFFICES ASSUME RInv, [Next]_vars PROVE ReceiptsLead'
  OBVIOUS
<1> TypeOK /\ Located /\ Bookkeeping /\ Directories /\ ReceiptsLead
  BY DEF RInv, IInv
<1>1. /\ stateFile.attempt \in Nat
      /\ \A n \in 1 .. stateFile.attempt : n \in Attempts
  BY DriverAssumption DEF DriverAssumption, TypeOK, Records, Attempts
<1>2. CASE WriteReceipt
  <2>1. /\ stateFile' = stateFile /\ Follows
        /\ state.attempt \in Attempts
        /\ receipts' = [receipts EXCEPT ![state.attempt] = state]
    BY <1>2, AtWork DEF WriteReceipt, Bookkeeping, Steps
  <2>2. /\ receipts'[state.attempt] = state
        /\ \A n \in Attempts : n # state.attempt => receipts'[n] = receipts[n]
    BY <2>1 DEF TypeOK
  <2>3. CASE after = "attempt"
    <3>1. state.attempt = stateFile.attempt + 1
      BY <2>1, <2>3 DEF Follows, Queued
    <3> QED
      BY <1>1, <2>1, <2>2, <3>1 DEF ReceiptsLead
  <2>4. CASE after # "attempt"
    <3>1. state.attempt = stateFile.attempt /\ Progress(stateFile.state, state.state)
      BY <2>1, <2>4 DEF Follows, Progress, Settled, TypeOK
    <3> QED
      BY <1>1, <2>1, <2>2, <3>1 DEF ReceiptsLead
  <2> QED
    BY <2>3, <2>4
<1>3. CASE WriteState
  <2>1. /\ stateFile' = state /\ receipts' = receipts /\ Follows
        /\ receipts[state.attempt] = state
    BY <1>3, WriteFollows
  <2>2. CASE after = "attempt"
    <3>1. /\ state.attempt = stateFile.attempt + 1
          /\ stateFile.state = "paused" \/ stateFile.attempt = 0
      BY <2>1, <2>2 DEF Follows, Queued, NoRecord
    <3>2. \A n \in 1 .. stateFile.attempt : receipts[n].state \in {"paused", "failed"}
      BY <1>1, <3>1 DEF ReceiptsLead, Progress
    <3>3. \A n \in 1 .. state.attempt : n = state.attempt \/ n \in 1 .. stateFile.attempt
      BY <1>1, <3>1
    <3> QED
      BY <2>1, <3>2, <3>3 DEF ReceiptsLead
  <2>3. CASE after # "attempt"
    BY <2>1, <2>3 DEF ReceiptsLead, Follows
  <2> QED
    BY <2>2, <2>3
<1>4. CASE ~WriteReceipt /\ ~WriteState
  BY <1>4, Writers DEF ReceiptsLead
<1> QED
  BY <1>2, <1>3, <1>4

-----------------------------------------------------------------------------
(* The stop file. *)

LEMMA LateStep == TypeOK /\ LateInv /\ [Next]_vars => LateInv'
<1> SUFFICES ASSUME TypeOK, LateInv, [Next]_vars PROVE LateInv'
  OBVIOUS
<1> USE DEF slurmVars, recordVars, linkVars, memoryVars, payloadVars, historyVars
<1>1. stopFile => stopFile'
  <2>1. CASE UNCHANGED vars
    BY <2>1 DEF vars
  <2>2. CASE DriverStep
    BY <2>2 DEF DriverStep, BatchRefuse, BatchBegin, WriteReceipt, WriteState,
       AttemptCancelled, AttemptStart, Spawn, SpawnRaises, WaitRequest, WaitStop,
       WaitExit, Judge, Seal, Requeue, RequeueFails, BatchReturn
  <2>3. CASE PayloadStep
    BY <2>3 DEF PayloadStep, Prepare, SaveOutput, MarkPaused, EntrypointReturns,
       Capture, CaptureFails, PayloadReturns, payloadUnchanged
  <2>4. CASE SlurmStep
    BY <2>4 DEF SlurmStep, Allocate, PauseSignal, Terminate, SigtermDriver,
       SigtermPayload, payloadUnchanged, Finish, Kill, DriverGone
  <2>5. CASE Scancel \/ TouchStop
    BY <2>5 DEF Scancel, TouchStop
  <2> QED
    BY <2>1, <2>2, <2>3, <2>4, <2>5 DEF Next
\* The last look at the stop file is in attempt(), before the record is written.
<1>2. ~AboutToSpawn /\ stopFile => ~AboutToSpawn'
  <2> SUFFICES ASSUME ~AboutToSpawn, stopFile PROVE ~AboutToSpawn'
    OBVIOUS
  <2> USE DEF AboutToSpawn
  <2>1. CASE ~DriverStep
    BY <2>1, Bystanders
  <2>2. CASE BatchRefuse \/ Requeue \/ BatchReturn \/ BatchBegin
    BY <2>2 DEF BatchRefuse, Requeue, BatchReturn, BatchBegin, Exit, Record
  <2>3. CASE WriteReceipt \/ WriteState
    BY <2>3 DEF WriteReceipt, WriteState, TypeOK
  <2>4. CASE AttemptCancelled \/ AttemptStart
    BY <2>4 DEF AttemptCancelled, AttemptStart, Record, stopped
  <2>5. CASE Spawn \/ WaitRequest \/ WaitStop \/ WaitExit \/ SpawnRaises \/ Judge
    BY <2>5 DEF Spawn, WaitRequest, WaitStop, WaitExit, SpawnRaises, Judge
  <2>6. CASE Seal \/ \E accepted \in BOOLEAN : RequeueFails(accepted)
    BY <2>6 DEF Seal, RequeueFails, Record
  <2> QED
    BY <2>1, <2>2, <2>3, <2>4, <2>5, <2>6 DEF DriverStep
<1>3. CASE Spawn
  <2>1. pc = "spawn" /\ pc' = "wait" /\ stopFile' = stopFile
        /\ lateStarts' = IF stopFile THEN lateStarts + 1 ELSE lateStarts
    BY <1>3 DEF Spawn
  <2>2. lateStarts = 0
    BY <2>1 DEF LateInv, AboutToSpawn
  <2> QED
    BY <2>1, <2>2 DEF LateInv, AboutToSpawn
<1>4. CASE lateStarts' = lateStarts
  BY <1>1, <1>2, <1>4 DEF LateInv
<1> QED
  BY <1>3, <1>4, Writers

LEMMA RInvStep == RInv /\ [Next]_vars => RInv'
<1>1. IInv /\ [Next]_vars => IInv'
  BY TypeStep, PlaceStep, OnceStep, CleanExitStep, PauseStep, ResumeStep
     DEF IInv, Placed
<1> QED
  BY <1>1, BookStep, DirectoryStep, LaunchedStep, ArtifactStep, WholeStep,
     NamedStep, ReceiptStep DEF RInv

-----------------------------------------------------------------------------
(* The theorems about the files. *)

(***************************************************************************)
(* The inductive invariant of the files: until record() has finished, the  *)
(* driver's record is one step of the chain ahead of state.json; what is   *)
(* retained was launched; and no directory lies beyond the next attempt.   *)
(***************************************************************************)
THEOREM FilesInvariance == Spec => []RInv
<1>1. Init => RInv
  BY InitRInv
<1>2. RInv /\ [Next]_vars => RInv'
  BY RInvStep
<1> QED
  BY <1>1, <1>2, PTL DEF Spec

(***************************************************************************)
(* Whatever failed, was cancelled or was killed, the artifact directory in *)
(* a settled state.json is that of the newest attempt that published.      *)
(***************************************************************************)
THEOREM ArtifactsAreNewestHolds == Spec => []ArtifactsAreNewest
<1>1. RInv => ArtifactsAreNewest
  BY DEF RInv, ArtifactsFollow, ArtifactsAreNewest, Newest
<1> QED
  BY <1>1, FilesInvariance, PTL

(***************************************************************************)
(* "completed" in state.json means all declared outputs, from a payload    *)
(* that exited 0, in the last attempt there will be a directory for.       *)
(***************************************************************************)
THEOREM CompletedIsWholeHolds == Spec => []CompletedIsWhole
<1>1. RInv => CompletedIsWhole
  BY DEF RInv, WholeRecords, Whole, Directories, CompletedIsWhole
<1> QED
  BY <1>1, FilesInvariance, PTL

(***************************************************************************)
(* A reader of the attempt receipts never sees one behind state.json, nor  *)
(* one that skipped a step of the attempt's life.                          *)
(***************************************************************************)
THEOREM ReceiptsLeadHolds == Spec => []ReceiptsLead
<1>1. RInv => ReceiptsLead
  BY DEF RInv
<1> QED
  BY <1>1, FilesInvariance, PTL

(***************************************************************************)
(* However many allocations, requeues and crashes follow it, at most one   *)
(* payload starts after the stop file was made.                            *)
(***************************************************************************)
THEOREM StopIsFinalHolds == Spec => []StopIsFinal
<1>1. Init => LateInv
  BY DEF Init, LateInv
<1>2. TypeOK /\ LateInv /\ [Next]_vars => LateInv'
  BY LateStep
<1>3. LateInv => StopIsFinal
  BY DEF LateInv, StopIsFinal
<1> QED
  BY <1>1, <1>2, <1>3, TypeCorrect, PTL DEF Spec

-----------------------------------------------------------------------------
(* Refinement: the files implement the chain of attempts. *)

LEMMA InitChain == Init => Abstract!Init
BY DEF Init, NoRecord, Abstract!Init, Abstract!Attempts, Attempts

\* A payload of the attempt at hand was launched exactly once.
LEMMA LaunchedOnce ==
  ASSUME TypeOK, AtMostOnce, NEW n \in Attempts, launches[n] > 0
  PROVE  launches[n] = 1
BY DEF TypeOK, AtMostOnce

\* A pause or completion that the driver has recorded kept its checkpoint.
LEMMA SettledRetained ==
  ASSUME RInv, pc \in Holding, state.state \in {"paused", "completed"}
  PROVE  /\ state.attempt \in Attempts
         /\ Checkpoint \in captured[state.attempt]
         /\ launches[state.attempt] = 1
<1> USE DEF RInv, IInv
<1>1. state.attempt \in Attempts
  BY AtWork DEF Holding, Steps
<1>2. Checkpoint \in captured[state.attempt]
  BY DriverAssumption
     DEF DriverAssumption, PausesVerified, Verified, WholeRecords, Whole, Holding
<1>3. launches[state.attempt] > 0
  BY <1>1, <1>2 DEF Launched
<1> QED
  BY <1>1, <1>2, <1>3, LaunchedOnce

LEMMA StepChain == RInv /\ [Next]_vars => [Abstract!Next]_(Abstract!chainVars)
<1> SUFFICES ASSUME RInv, [Next]_vars PROVE [Abstract!Next]_(Abstract!chainVars)
  OBVIOUS
<1> DEFINE kept == {n \in Attempts : Checkpoint \in captured[n]}
<1> /\ TypeOK /\ Located /\ PayloadPlaced /\ Fresh /\ AtMostOnce /\ PausesVerified
    /\ Bookkeeping /\ Directories /\ Launched
  BY DEF RInv, IInv
<1>1. CASE WriteState
  <2>1. /\ Follows /\ stateFile' = state /\ UNCHANGED <<captured, launches>>
        /\ pc = "state" /\ state.attempt \in Attempts
    BY <1>1, AtWork, WriteFollows DEF WriteState, Steps
  <2>2. kept' = kept
    BY <2>1
  <2>3. CASE after = "attempt"
    <3>1. /\ state.attempt = stateFile.attempt + 1 /\ state.state = "queued"
          /\ stateFile.state \in {"none", "paused"}
      BY <2>1, <2>3 DEF Follows, Queued, NoRecord
    <3>2. stateFile.attempt < MaxAttempts
      BY <2>1, <3>1, DriverAssumption DEF DriverAssumption, Attempts, TypeOK, Records
    <3>3. stateFile.state = "paused" => stateFile.attempt \in kept
      BY DEF PausesVerified, Verified, TypeOK
    <3>4. Abstract!Begin
      BY <2>1, <2>2, <3>1, <3>2, <3>3 DEF Abstract!Begin
    <3> QED
      BY <3>4 DEF Abstract!Next
  <2>4. CASE after = "spawn"
    <3>1. Abstract!Run
      BY <2>1, <2>2, <2>4 DEF Follows, Abstract!Run
    <3> QED
      BY <3>1 DEF Abstract!Next
  <2>5. CASE after = "requeue"
    <3>1. CASE stateFile.state = "queued" /\ state.state = "stopped"
      <4>1. Abstract!Cancel
        BY <2>1, <2>2, <2>5, <3>1 DEF Follows, Abstract!Cancel
      <4> QED
        BY <4>1 DEF Abstract!Next
    <3>2. CASE stateFile.state = "running" /\ state.state \in Settled
      <4>1. state.state \in {"paused", "completed"} =>
              launches[state.attempt] = 1 /\ state.attempt \in kept
        BY <2>1, SettledRetained DEF Holding
      <4>2. Abstract!Settle(state.state)
        BY <2>1, <2>2, <2>5, <3>2, <4>1 DEF Follows, Abstract!Settle
      <4> QED
        BY <3>2, <4>2 DEF Abstract!Next, Settled
    <3> QED
      BY <2>1, <2>5, <3>1, <3>2 DEF Follows
  <2>6. CASE after = "exit"
    <3>1. Abstract!GiveUp
      BY <2>1, <2>2, <2>6 DEF Follows, Abstract!GiveUp
    <3> QED
      BY <3>1 DEF Abstract!Next
  <2> QED
    BY <2>3, <2>4, <2>5, <2>6 DEF TypeOK
<1>2. CASE Spawn
  <2>1. /\ state.attempt \in Attempts /\ state = stateFile
        /\ stateFile.state = "running" /\ launches[state.attempt] = 0
    BY <1>2, AtWork DEF Spawn, Bookkeeping, Steps, Fresh, BeforeSpawn
  <2>2. /\ UNCHANGED <<stateFile, captured>>
        /\ launches' = [launches EXCEPT ![state.attempt] = launches[state.attempt] + 1]
    BY <1>2 DEF Spawn, recordVars
  <2>3. launches' = [launches EXCEPT ![stateFile.attempt] = 1]
    BY <2>1, <2>2
  <2>4. Abstract!Launch
    BY <2>1, <2>2, <2>3 DEF Abstract!Launch
  <2> QED
    BY <2>4 DEF Abstract!Next
<1>3. CASE Capture
  <2>1. /\ state = stateFile /\ stateFile.attempt \in Attempts /\ pc = "wait"
        /\ stateFile.state = "running"
    BY <1>3, PayloadAtWork DEF Capture, PayloadRuns
  <2>2. launches[stateFile.attempt] = 1
    BY <2>1, LaunchedOnce DEF Launched
  <2>3. /\ UNCHANGED <<stateFile, launches>>
        /\ captured' = [captured EXCEPT ![stateFile.attempt] = Required(stateFile.attempt)]
        /\ Checkpoint \in Required(stateFile.attempt)
    BY <1>3, <2>1, DriverAssumption
       DEF DriverAssumption, Capture, payloadUnchanged, recordVars, Required
  <2>4. kept' = kept \cup {stateFile.attempt}
    BY <2>1, <2>3 DEF TypeOK
  <2>5. Abstract!Retain
    BY <2>1, <2>2, <2>3, <2>4 DEF Abstract!Retain
  <2> QED
    BY <2>5 DEF Abstract!Next
<1>4. CASE ~WriteState /\ ~Spawn /\ ~Capture
  <2>1. UNCHANGED <<stateFile, launches, captured>>
    BY <1>4, Writers
  <2> QED
    BY <2>1 DEF Abstract!chainVars
<1> QED
  BY <1>1, <1>2, <1>3, <1>4

(***************************************************************************)
(* state.json, the launches and the retained checkpoints are a chain of    *)
(* attempts, for every budget: writing state.json is a step of the chain,  *)
(* and so are the start of a payload and the publication of a checkpoint;  *)
(* every other step leaves the chain where it is.                          *)
(***************************************************************************)
THEOREM ChainImplemented == Spec => ImplementsChain
<1>1. Init => Abstract!Init
  BY InitChain
<1>2. RInv /\ [Next]_vars => [Abstract!Next]_(Abstract!chainVars)
  BY StepChain
<1> QED
  BY <1>1, <1>2, FilesInvariance, PTL DEF Spec, ImplementsChain, Abstract!Spec

=============================================================================
