--------------------------- MODULE MCBatchDriver ---------------------------
(***************************************************************************)
(* BatchDriver for TLC: three attempts, so that a chain has a first, a     *)
(* middle and a last one; a checkpoint and one further output.             *)
(***************************************************************************)
EXTENDS BatchDriver

MCOutputs == {"checkpoint", "metrics"}

=============================================================================
