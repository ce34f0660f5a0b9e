------------------------------- MODULE Chain -------------------------------
(***************************************************************************)
(* What a continuation chain promises, whichever driver runs it.  One      *)
(* logical unit of work is executed as a sequence of attempts.  An attempt *)
(* is queued, runs one payload at most once, and settles with a verdict.   *)
(* Only a paused attempt whose checkpoint is retained has a successor, and *)
(* the number of attempts never exceeds the budget.                        *)
(*                                                                         *)
(* The module has no counterpart of its own in the source.  It is the      *)
(* contract that execution/continuation.py keeps; BatchDriver is shown to  *)
(* implement it by refinement.                                             *)
(***************************************************************************)
EXTENDS Naturals

CONSTANT MaxAttempts  \* Continuation.max_attempts, the first attempt included

VARIABLES
  attempt,    \* the latest attempt begun, 0 before the first
  phase,      \* where that attempt stands
  launches,   \* launches[n]: how often the payload of attempt n was started
  retained    \* the attempts whose checkpoint is retained

chainVars == <<attempt, phase, launches, retained>>

Attempts == 1 .. MaxAttempts

Phases == {"none", "queued", "running",
           "paused", "completed", "failed", "stopped"}

Init ==
  /\ attempt = 0
  /\ phase = "none"
  /\ launches = [n \in Attempts |-> 0]
  /\ retained = {}

(***************************************************************************)
(* The first attempt, or the successor of a pause that was verified: the   *)
(* checkpoint it resumes from is retained.                                 *)
(***************************************************************************)
Begin ==
  /\ \/ phase = "none"
     \/ phase = "paused" /\ attempt \in retained
  /\ attempt < MaxAttempts
  /\ attempt' = attempt + 1
  /\ phase' = "queued"
  /\ UNCHANGED <<launches, retained>>

Run ==
  /\ phase = "queued"
  /\ phase' = "running"
  /\ UNCHANGED <<attempt, launches, retained>>

Launch ==
  /\ phase = "running"
  /\ launches[attempt] = 0
  /\ launches' = [launches EXCEPT ![attempt] = 1]
  /\ UNCHANGED <<attempt, phase, retained>>

Retain ==
  /\ phase = "running"
  /\ launches[attempt] = 1
  /\ retained' = retained \cup {attempt}
  /\ UNCHANGED <<attempt, phase, launches>>

Cancel ==
  /\ phase = "queued"
  /\ phase' = "stopped"
  /\ UNCHANGED <<attempt, launches, retained>>

Settle(verdict) ==
  /\ phase = "running"
  /\ verdict \in {"paused", "completed"} =>
       launches[attempt] = 1 /\ attempt \in retained
  /\ phase' = verdict
  /\ UNCHANGED <<attempt, launches, retained>>

\* A verified pause whose successor could not be scheduled.
GiveUp ==
  /\ phase = "paused"
  /\ phase' = "failed"
  /\ UNCHANGED <<attempt, launches, retained>>

Next ==
  \/ Begin
  \/ Run
  \/ Launch
  \/ Retain
  \/ Cancel
  \/ \E verdict \in {"paused", "completed", "failed", "stopped"} : Settle(verdict)
  \/ GiveUp

Spec == Init /\ [][Next]_chainVars

=============================================================================
