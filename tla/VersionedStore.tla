--------------------------- MODULE VersionedStore ---------------------------
(***************************************************************************)
(* What the optimistic lock promises to the callers of the data layer: a   *)
(* table is a multi-row compare-and-set register.  A writer may change a   *)
(* set of rows only if every one of them is exactly as that writer last    *)
(* read it, and then it changes all of them in one step.  Where identities *)
(* are inserted again the lock promises less: what a writer has read may be*)
(* of an earlier row.                                                      *)
(*                                                                         *)
(* There are no versions here: `gen` counts the changes a row has really   *)
(* undergone, which no code can observe.  RepositoryWrites implements this *)
(* specification with a version column, guarded statements and row locks.  *)
(***************************************************************************)
EXTENDS Naturals

CONSTANTS Rows,      \* identities of the rows of one table
          Writers,   \* concurrent callers of the data layer
          Reusable   \* identities that may be inserted again

VARIABLES gen,       \* gen[r]: changes row r has undergone, 0 before its insert
          alive,     \* alive[r]: row r is physically in the table
          seen       \* seen[w][r]: the generation writer w last read of r, 0 if none

vars == <<gen, alive, seen>>

Init ==
  /\ gen = [r \in Rows |-> 0]
  /\ alive = [r \in Rows |-> FALSE]
  /\ seen = [w \in Writers |-> [r \in Rows |-> 0]]

(* Writer w reads row r. *)
Read(w, r) ==
  /\ seen' = [seen EXCEPT ![w][r] = IF alive[r] THEN gen[r] ELSE 0]
  /\ UNCHANGED <<gen, alive>>

(* The insert of identity r, the only one unless it is reusable; w may     *)
(* learn the new row.                                                      *)
Insert(w, r) ==
  /\ ~alive[r] /\ (gen[r] = 0 \/ r \in Reusable)
  /\ gen' = [gen EXCEPT ![r] = @ + 1]
  /\ alive' = [alive EXCEPT ![r] = TRUE]
  /\ seen' \in {seen, [seen EXCEPT ![w][r] = gen[r] + 1]}

(* Writer w changes, or removes, all the rows of S, each as w last read it.*)
Change(w, S) ==
  /\ \A r \in S : alive[r] /\ (seen[w][r] = gen[r] \/ (r \in Reusable /\ seen[w][r] > 0))
  /\ gen' = [r \in Rows |-> IF r \in S THEN gen[r] + 1 ELSE gen[r]]
  /\ alive' \in {alive, [r \in Rows |-> alive[r] /\ r \notin S]}
  /\ seen' \in {seen,
                [seen EXCEPT ![w] = [r \in Rows |-> IF r \in S THEN gen[r] + 1 ELSE @[r]]]}

Next ==
  \E w \in Writers :
    \/ \E r \in Rows : Read(w, r) \/ Insert(w, r)
    \/ \E S \in SUBSET Rows : Change(w, S)

Spec == Init /\ [][Next]_vars
=============================================================================
