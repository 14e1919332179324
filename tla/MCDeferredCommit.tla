-------------------------- MODULE MCDeferredCommit --------------------------
(***************************************************************************)
(* DeferredCommit with two keys.                                           *)
(***************************************************************************)
EXTENDS DeferredCommit, TLC

Symmetry == Permutations(Keys)
=============================================================================
