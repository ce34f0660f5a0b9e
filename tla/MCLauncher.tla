---------------------------- MODULE MCLauncher ----------------------------
(* The instance of Launcher that TLC checks: every two of the backends, the  *)
(* first unit also as a generator of two payloads.                           *)
EXTENDS Launcher

Unit(backend, twice) == [backend |-> backend, twice |-> twice]
MCPairs ==
  {<<"local", "local">>, <<"local", "slurm">>, <<"slurm", "slurm">>, <<"local", "attached">>,
   <<"attached", "slurm">>, <<"attached", "attached">>}
MCScripts ==
  {<<Unit(p[1], twice), Unit(p[2], FALSE)>> : p \in MCPairs, twice \in BOOLEAN}
===========================================================================
