----------------------------- MODULE PatchLedger -----------------------------
(***************************************************************************)
(* What the migration engine promises to whoever ships patches: a ledger   *)
(* of one schema.  A run finds some patches open, when it begins, and then *)
(* works on these only, in the order of their names, as if it were alone   *)
(* and saw at each moment what the ledger says; a patch of one transaction *)
(* is entered with its SQL or not at all.  Administrators may settle a     *)
(* patch by hand, and only the run under way can overrule them.            *)
(*                                                                         *)
(* There are no locks here, no copies of the registry and no failures:     *)
(* MigrationEngine implements this with an advisory lock, a registry read  *)
(* once, and connections that may be lost at any statement.                *)
(***************************************************************************)
EXTENDS Naturals

CONSTANTS N,         \* patches 1 .. N, in the order of their file names
          Releases,  \* what a release ships: functions from patches to contents, 0 if none
          Mixed      \* patches that are not one transaction

VARIABLES entry,  \* entry[p]: how patch p is settled, and with which content
          ran,    \* ran[p]: contents of p of which some SQL is committed
          run     \* the run under way: its release, and the patches that it found open

vars == <<entry, ran, run>>

Patches == 1 .. N

Open == [status |-> "open", sha |-> 0]
NoRun == [release |-> [p \in Patches |-> 0], todo |-> {}]

Init ==
  /\ entry = [p \in Patches |-> Open]
  /\ ran = [p \in Patches |-> {}]
  /\ run = NoRun

(* p is in the ledger with the content that release f ships. *)
Stands(f, p) == entry[p] # Open /\ entry[p].sha = f[p]

(* A run of release f begins; what is settled, it ships as it was settled. *)
Begin(f) ==
  /\ run = NoRun
  /\ \A p \in Patches : f[p] # 0 /\ entry[p] # Open => Stands(f, p)
  /\ run' = [release |-> f, todo |-> {p \in Patches : entry[p] = Open}]
  /\ UNCHANGED <<entry, ran>>

(* The run may work on p: it ships it, nobody has applied it, and every    *)
(* patch before it stands.                                                 *)
Turn(p) ==
  /\ run.release[p] # 0 /\ entry[p].status # "applied"
  /\ \A q \in 1 .. p - 1 : run.release[q] # 0 => Stands(run.release, q)

(* The patch is entered with the content of the run; a run may end with    *)
(* any of its steps.                                                       *)
Enter(p) ==
  /\ entry' = [entry EXCEPT ![p] = [status |-> "applied", sha |-> run.release[p]]]
  /\ run' \in {run, NoRun}

(* SQL of the patch is committed. *)
Execute(p) == ran' = [ran EXCEPT ![p] = @ \cup {run.release[p]}]

(* A patch of one transaction runs, for the first and only time. *)
Apply(p) == p \notin Mixed /\ ran[p] = {} /\ Execute(p) /\ Enter(p)

(* A part of another patch runs. *)
Advance(p) ==
  /\ p \in Mixed
  /\ Execute(p)
  /\ run' \in {run, NoRun}
  /\ UNCHANGED entry

(* A patch that has run is entered. *)
Register(p) ==
  /\ p \in Mixed /\ run.release[p] \in ran[p]
  /\ Enter(p)
  /\ UNCHANGED ran

(* The run fails, or stops, at patch p, which is open again. *)
Stop(p) ==
  /\ entry' = [entry EXCEPT ![p] = Open]
  /\ run' = NoRun
  /\ UNCHANGED ran

(* The run ends. *)
End == run' = NoRun /\ UNCHANGED <<entry, ran>>

(* An administrator settles an open patch, with a content that was shipped.*)
Resolve(p) ==
  /\ entry[p] = Open
  /\ \E f \in Releases :
       f[p] # 0 /\ entry' = [entry EXCEPT ![p] = [status |-> "resolved_manual", sha |-> f[p]]]
  /\ UNCHANGED <<ran, run>>

(* The run works on a patch that it found open, when it is its turn. *)
Work ==
  \E p \in run.todo : Turn(p) /\ (Apply(p) \/ Advance(p) \/ Register(p) \/ Stop(p))

Next ==
  \/ \E f \in Releases : Begin(f)
  \/ Work \/ End
  \/ \E p \in Patches : Resolve(p)

Spec == Init /\ [][Next]_vars
=============================================================================
