--------------------------- MODULE MCServiceWrites ---------------------------
(***************************************************************************)
(* ServiceWrites with two callers of one entity's service.                 *)
(***************************************************************************)
EXTENDS ServiceWrites, TLC

Symmetry == Permutations(Callers) \cup Permutations(Keys)
=============================================================================
