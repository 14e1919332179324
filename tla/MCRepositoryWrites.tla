------------------------- MODULE MCRepositoryWrites -------------------------
(***************************************************************************)
(* RepositoryWrites on small sets of rows and writers.                     *)
(***************************************************************************)
EXTENDS RepositoryWrites, TLC

CONSTANTS Often,    \* rows that change often
          Bound     \* how often; the other rows change at most twice

RowBounds == [r \in Rows |-> IF r \in Often THEN Bound ELSE 2]

(* Writers are interchangeable where none has a role of its own.           *)
Symmetry == Permutations(Writers)
=============================================================================
