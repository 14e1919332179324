--------------------------- MODULE MCUniqueInserts ---------------------------
(***************************************************************************)
(* UniqueInserts with an entity that has two unique columns, `code` with   *)
(* two values and `slug`, whose values are few enough to clash.            *)
(***************************************************************************)
EXTENDS UniqueInserts, TLC

X == [code |-> "x", slug |-> Null]
XS == [code |-> "x", slug |-> "s"]
YS == [code |-> "y", slug |-> "s"]

MCItems == {X, XS, YS}

(* Two batches that can wait for each other, and one that repeats a value. *)
MCBatches == {<<X, YS>>, <<YS, X>>, <<X, XS>>}

Symmetry == Permutations(Writers)
=============================================================================
