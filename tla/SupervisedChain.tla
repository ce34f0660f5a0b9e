-------------------------- MODULE SupervisedChain --------------------------
(***************************************************************************)
(* What a chain promises when its attempts are recorded by their workers   *)
(* and a supervisor that nothing keeps apart.  Until the supervisor closes *)
(* it, because it ends, dies or has come to a verdict, the record is that  *)
(* of Chain.  From then on its verdict and what a worker that outlives it  *)
(* says may replace each other, but there is no other attempt, no second   *)
(* payload, and still no success without what it takes.                    *)
(*                                                                         *)
(* The module has no counterpart of its own in the source.  It is the      *)
(* contract of an attached unit; AttachedDriver is shown to implement it.  *)
(***************************************************************************)
EXTENDS Chain

VARIABLE closed  \* no attempt will follow the latest

supervisedVars == <<chainVars, closed>>

SupervisedInit == Init /\ closed = FALSE

Follow == ~closed /\ Next /\ UNCHANGED closed

Close ==
  /\ ~closed /\ phase # "none"
  /\ closed' = TRUE
  /\ UNCHANGED chainVars

\* A verdict of failure, whoever gives it, over whatever the record says.
Overrule ==
  /\ closed
  /\ phase' \in {"failed", "stopped"}
  /\ UNCHANGED <<attempt, launches, retained, closed>>

\* What a worker and its payload still do, until the worker's last word.
LateRun    == launches[attempt] = 0 /\ phase' = "running" /\ UNCHANGED <<launches, retained>>
LateLaunch ==
  /\ launches[attempt] = 0
  /\ launches' = [launches EXCEPT ![attempt] = 1]
  /\ UNCHANGED <<phase, retained>>
LateRetain ==
  /\ launches[attempt] = 1
  /\ retained' = retained \cup {attempt}
  /\ UNCHANGED <<phase, launches>>
LateSuccess ==
  /\ launches[attempt] = 1 /\ attempt \in retained
  /\ phase' \in {"paused", "completed"}
  /\ UNCHANGED <<launches, retained>>
Late ==
  /\ closed /\ phase \notin {"paused", "completed"}
  /\ LateRun \/ LateLaunch \/ LateRetain \/ LateSuccess
  /\ UNCHANGED <<attempt, closed>>

SupervisedNext == Follow \/ Close \/ Overrule \/ Late

SupervisedSpec == SupervisedInit /\ [][SupervisedNext]_supervisedVars

=============================================================================
