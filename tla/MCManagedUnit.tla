--------------------------- MODULE MCManagedUnit ---------------------------
(***************************************************************************)
(* ManagedUnit for TLC: two attempts, so that there is one requeue.        *)
(***************************************************************************)
EXTENDS ManagedUnit

MCOutputs == {"checkpoint", "metrics"}

=============================================================================
