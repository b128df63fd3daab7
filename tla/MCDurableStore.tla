--------------------------- MODULE MCDurableStore ---------------------------
(***************************************************************************)
(* TLC instances of DurableStore: one process alone, and two that share    *)
(* the file.                                                               *)
(***************************************************************************)
EXTENDS DurableStore, TLC

CONSTANTS p1, p2

Symmetry == Permutations(Procs)
=============================================================================
