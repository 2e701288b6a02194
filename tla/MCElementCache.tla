--------------------------- MODULE MCElementCache ---------------------------
(***************************************************************************)
(* Constants for checking ElementCache.                                    *)
(***************************************************************************)
EXTENDS ElementCacheProps, TLC

Symmetric == Permutations(Procs) \cup Permutations(Threads) \cup Permutations(Versions)

=============================================================================
