-------------------------- MODULE MCMigrationEngine --------------------------
(***************************************************************************)
(* MigrationEngine on three patches and a few releases.                    *)
(***************************************************************************)
EXTENDS MigrationEngine

(* A first release; its successor, which corrects patch 2 and adds patch 3;*)
(* and a branch that ships patch 3 without patch 2.                        *)
SomeReleases == {<<1, 1, 0>>, <<1, 2, 1>>, <<1, 0, 1>>}

MixedPatches == {1}
ReviewPatches == {2, 3}
ClearedPatches == {3}
=============================================================================
