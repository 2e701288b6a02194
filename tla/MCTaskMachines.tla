--------------------------- MODULE MCTaskMachines ---------------------------
(***************************************************************************)
(* Constants for checking TaskMachines.                                    *)
(***************************************************************************)
EXTENDS TaskMachinesProps, TLC

Symmetric == Permutations(Threads) \cup Permutations(Machines)

=============================================================================
