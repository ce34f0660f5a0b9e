-------------------------- MODULE MCAttachedDriver --------------------------
(***************************************************************************)
(* AttachedDriver for TLC: at least two attempts, so that the supervisor   *)
(* goes round its loop, and one death or restart of either driver.         *)
(***************************************************************************)
EXTENDS AttachedDriver

MCOutputs == {"checkpoint"}

=============================================================================
