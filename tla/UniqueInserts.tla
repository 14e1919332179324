---------------------------- MODULE UniqueInserts ----------------------------
(***************************************************************************)
(* The writes that can violate a unique constraint: add in raise and in    *)
(* ignore mode, addMany, and update of @Unique columns, by concurrent      *)
(* writers at READ COMMITTED.                                              *)
(*                                                                         *)
(* Each of them looks for the rows it conflicts with, on the snapshot of a *)
(* statement, to raise ERR04 (a live row has the value) or ERR05 (a soft-  *)
(* deleted one has it).  What decides is the unique index, which knows of  *)
(* rows committed since, makes an insert wait for the uncommitted rows of  *)
(* others, and answers 23505.                                              *)
(*                                                                         *)
(* A row is the values of its unique columns, its version and whether it   *)
(* is soft-deleted; NULL conflicts with nothing.  A unique group is one    *)
(* column here: the code treats the columns of a group as one value.       *)
(***************************************************************************)
EXTENDS Naturals, FiniteSets, Sequences

CONSTANTS
  Writers,   \* concurrent callers
  Groups,    \* the unique groups of the entity
  Bindable,  \* those whose attempted value the statement can name: no DB-side default
  Null,      \* the NULL value
  KeySets,   \* groups that conflictKeys, or matchBy, may name; without it, all
  Batches,   \* the batches that addMany is called with: sequences of Items
  Items,     \* the values that rows are written with: functions from Groups
  Kinds,     \* add, ignore, addMany, update
  MaxVer     \* bound: rows beyond this version are not changed

ASSUME UniqueInsertsAssumption ==
  /\ Bindable \subseteq Groups /\ KeySets \subseteq SUBSET Groups
  /\ \A v \in Items : DOMAIN v = Groups /\ \E g \in Groups : v[g] # Null
  /\ Batches \subseteq Seq(Items)
  /\ Kinds \subseteq {"add", "ignore", "addMany", "update"}
  /\ MaxVer \in Nat

VARIABLES
  table,   \* the committed rows
  pc,      \* pc[w]: the statement of w's operation that runs next
  op,      \* op[w]: kind, items, groups of conflictKeys or, for the update of a row
           \* that was read (target), of matchBy; a probe drops those it has tried
  snap,    \* snap[w]: of the snapshot of its statement, the rows that the search can find
  fresh,   \* fresh[w]: the rows that w's open transaction has inserted
  res,     \* res[w]: what the last step has told w
  overtaken \* history: writers whose row to update was changed since they read it

vars == <<table, pc, op, snap, fresh, res, overtaken>>

Row == [val : Items, ver : Nat, deleted : BOOLEAN]
NewRow(v) == [val |-> v, ver |-> 1, deleted |-> FALSE]
Revised(r, v, deleted) == [val |-> v, ver |-> r.ver + 1, deleted |-> deleted]
NoTarget == [ver |-> 0]
NoOp == [kind |-> "none", items |-> <<>>, keys |-> {}, target |-> NoTarget]

Outcomes ==
  {"none", "ok", "skipped", "ERR01", "ERR03", "ERR04", "ERR05", "ERR10", "23505", "aborted"}

NoNews == [w \in Writers |-> "none"]

TypeOK ==
  /\ table \subseteq Row
  /\ pc \in [Writers -> {"idle", "read", "add", "detect", "load", "update", "probe", "fields"}]
  /\ op \in [Writers -> [kind : Kinds \cup {"none"}, items : Seq(Items),
                         keys : SUBSET Groups, target : Row \cup {NoTarget}]]
  /\ snap \in [Writers -> SUBSET Row]
  /\ fresh \in [Writers -> SUBSET Row]
  /\ res \in [Writers -> Outcomes]
  /\ overtaken \subseteq Writers

Init ==
  /\ table = {}
  /\ pc = [w \in Writers |-> "idle"]
  /\ op = [w \in Writers |-> NoOp]
  /\ snap = [w \in Writers |-> {}]
  /\ fresh = [w \in Writers |-> {}]
  /\ res = NoNews
  /\ overtaken = {}

(***************************************************************************)
(* Conflicts                                                               *)
(***************************************************************************)

(* Two rows cannot both have these values of the groups of G. *)
Clash(v, u, G) == \E g \in G : v[g] # Null /\ v[g] = u[g]

(* The rows of R that clash with one of the items by a group of G. *)
Among(items, R, G) == {r \in R : \E i \in DOMAIN items : Clash(items[i], r.val, G)}
Clashing(w, R, G) == Among(op[w].items, R, G)

(* MUTANT of Searched: conflictKeys is not looked at, and DB-side defaults *)
(* are taken for NULL.                                                     *)
SearchedNone(w) == {}

(* The groups with which w's statement searches its snapshot for conflicts:*)
(* for an insert those that conflictKeys leaves, if their values can be    *)
(* named; for an update all, with the row's own value if it has no new one.*)
Searched(w) == IF op[w].kind = "update" THEN Groups ELSE op[w].keys \cap Bindable

(* The rows that have the identity of the row w updates: its values of the*)
(* columns of matchBy, which are unique.  Those in the version expected.   *)
Same(w, R) == {r \in R : \A g \in op[w].keys : r.val[g] = op[w].target.val[g]}
Current(w, R) == {r \in Same(w, R) : r.ver = op[w].target.ver}

(* The rows of R that w's search finds, other than the row it updates. *)
Apart(w, R) == IF op[w].kind = "update" THEN R \ Same(w, R) ELSE R
Found(w, R) == Clashing(w, Apart(w, R), Searched(w))

(* The unique indexes: v clashes with a committed row other than `self`.   *)
Taken(v, self) == \E r \in table \ {self} : Clash(v, r.val, Groups)

(* v has to wait for the open transaction of another writer x, or of any.  *)
WaitsFor(x, v) == \E r \in fresh[x] : Clash(v, r.val, Groups)
Waits(w, v) == \E x \in Writers \ {w} : WaitsFor(x, v)

Finish(w, outcome) ==
  /\ pc' = [pc EXCEPT ![w] = "idle"]
  /\ res' = [NoNews EXCEPT ![w] = outcome]
  /\ fresh' = [fresh EXCEPT ![w] = {}]
  /\ op' = [op EXCEPT ![w] = NoOp]
  /\ snap' = [snap EXCEPT ![w] = {}]

(* The writers that have row r to update. *)
Holders(r) == {w \in Writers : op[w].target = r}

(* The code that pg_raise gives for a conflict with row r. *)
Code(r) == IF r.deleted THEN "ERR05" ELSE "ERR04"

(***************************************************************************)
(* The caller                                                              *)
(***************************************************************************)

(* w calls an operation, with all the groups or those of conflictKeys; an  *)
(* update of a row that w has read, identified by values it does not set.  *)
(* The statement of an add takes its snapshot.                             *)
Call(w, kind, items, keys, target) ==
  /\ pc[w] = "idle"
  /\ items \in IF kind = "addMany" THEN Batches ELSE {<<v>> : v \in Items}
  /\ keys = Groups \/ (kind # "ignore" /\ keys \in KeySets)
  /\ IF kind = "update"
       THEN /\ target \in table /\ target.ver <= MaxVer
            /\ \A g \in keys : target.val[g] # Null /\ items[1][g] = target.val[g]
       ELSE target = NoTarget
  /\ op' = [op EXCEPT ![w] =
             [kind |-> kind, items |-> items, keys |-> keys, target |-> target]]
  /\ pc' = [pc EXCEPT ![w] = CASE kind = "addMany" -> "detect"
                                [] kind = "update"  -> "read"
                                [] OTHER            -> "add"]
  /\ res' = NoNews
  /\ snap' = [snap EXCEPT ![w] =
       IF kind = "add" THEN Among(items, table, keys \cap Bindable) ELSE {}]
  /\ overtaken' = overtaken \ {w}
  /\ UNCHANGED <<table, fresh>>

(* That of an update does, some time after its caller has read the row. *)
Start(w) ==
  /\ pc[w] = "read"
  /\ snap' = [snap EXCEPT ![w] =
       Among(op[w].items, table, Groups) \cup Same(w, table)]
  /\ pc' = [pc EXCEPT ![w] = "update"]
  /\ res' = NoNews
  /\ UNCHANGED <<table, op, fresh, overtaken>>

(***************************************************************************)
(* add                                                                     *)
(***************************************************************************)

(* Raise mode: the conflict branch finds a row, one of them (LIMIT 1). *)
AddRaises(w) ==
  /\ pc[w] = "add" /\ op[w].kind = "add"
  /\ \E r \in Found(w, snap[w]) : Finish(w, Code(r))
  /\ UNCHANGED <<table, overtaken>>

CanInsert(w) ==
  /\ pc[w] = "add"
  /\ op[w].kind = "add" => Found(w, snap[w]) = {}
  /\ ~Waits(w, op[w].items[1])

AddInserts(w) ==
  /\ CanInsert(w) /\ ~Taken(op[w].items[1], NoTarget)
  /\ table' = table \cup {NewRow(op[w].items[1])}
  /\ Finish(w, "ok")
  /\ UNCHANGED overtaken

(* A row that the search did not find has the value: ON CONFLICT DO NOTHING*)
(* in ignore mode and in raise mode with a search; a plain INSERT without. *)
AddCollides(w) ==
  /\ CanInsert(w) /\ Taken(op[w].items[1], NoTarget)
  /\ Finish(w, IF op[w].kind = "ignore" THEN "skipped"
               ELSE IF Searched(w) # {} THEN "ERR04" ELSE "23505")
  /\ UNCHANGED <<table, overtaken>>

(***************************************************************************)
(* addMany: one transaction                                                *)
(***************************************************************************)

(* MUTANT of DetectRaises: the branches of the code are swapped. *)
DetectRaisesAny(w) ==
  LET found == Found(w, table)
  IN  /\ pc[w] = "detect" /\ found # {}
      /\ Finish(w, IF \E r \in found : r.deleted THEN "ERR05" ELSE "ERR04")
      /\ UNCHANGED <<table, overtaken>>

(* The conflict query finds rows: ERR05 only if all of them are deleted. *)
DetectRaises(w) ==
  LET found == Found(w, table)
  IN  /\ pc[w] = "detect" /\ found # {}
      /\ Finish(w, IF \A r \in found : r.deleted THEN "ERR05" ELSE "ERR04")
      /\ UNCHANGED <<table, overtaken>>

(* It finds none, or there is no group to search with. *)
DetectClean(w) ==
  /\ pc[w] = "detect" /\ Found(w, table) = {}
  /\ snap' = [snap EXCEPT ![w] = Clashing(w, table, op[w].keys \cap Bindable)]
  /\ pc' = [pc EXCEPT ![w] = "load"]
  /\ res' = NoNews
  /\ UNCHANGED <<table, op, fresh, overtaken>>

(* The items that w's INSERT ... SELECT has still to insert: it takes them *)
(* in their order.                                                         *)
NextItem(w) == op[w].items[Cardinality(fresh[w]) + 1]
Loading(w) == pc[w] = "load" /\ Cardinality(fresh[w]) < Len(op[w].items)

(* The item clashes with a row that is there, or with one of the batch. *)
Refused(w) ==
  Taken(NextItem(w), NoTarget) \/ \E r \in fresh[w] : Clash(NextItem(w), r.val, Groups)

LoadItem(w) ==
  /\ Loading(w) /\ ~Waits(w, NextItem(w)) /\ ~Refused(w)
  /\ fresh' = [fresh EXCEPT ![w] = @ \cup {NewRow(NextItem(w))}]
  /\ res' = NoNews
  /\ UNCHANGED <<table, pc, op, snap, overtaken>>

(* 23505, ROLLBACK, and the error goes to the caller as it is. *)
LoadFails(w) ==
  /\ Loading(w) /\ ~Waits(w, NextItem(w)) /\ Refused(w)
  /\ Finish(w, "23505")
  /\ UNCHANGED <<table, overtaken>>

CommitMany(w) ==
  /\ pc[w] = "load" /\ Cardinality(fresh[w]) = Len(op[w].items)
  /\ table' = table \cup fresh[w]
  /\ Finish(w, "ok")
  /\ UNCHANGED overtaken

(* Two batches wait for each other's rows, and PostgreSQL aborts one. *)
Deadlocked(w) ==
  /\ Loading(w)
  /\ \E x \in Writers \ {w} :
       Loading(x) /\ WaitsFor(x, NextItem(w)) /\ WaitsFor(w, NextItem(x))

BreakDeadlock(w) ==
  /\ Deadlocked(w)
  /\ Finish(w, "aborted")
  /\ UNCHANGED <<table, overtaken>>

(***************************************************************************)
(* update of unique columns                                                *)
(***************************************************************************)

(* The search starts from the row to update, in the version expected. *)
UpdateRaises(w) ==
  /\ pc[w] = "update" /\ Current(w, snap[w]) # {}
  /\ \E r \in Found(w, snap[w]) : Finish(w, Code(r))
  /\ UNCHANGED <<table, overtaken>>

CanUpdate(w) ==
  /\ pc[w] = "update"
  /\ Current(w, snap[w]) # {} => Found(w, snap[w]) = {}

UpdateWrites(w) ==
  LET v == op[w].items[1]
  IN  /\ CanUpdate(w) /\ ~Waits(w, v)
      /\ \E t \in Current(w, snap[w] \cap table) :
           /\ ~Taken(v, t)
           /\ table' = (table \ {t}) \cup {Revised(t, v, t.deleted)}
           /\ overtaken' = overtaken \cup Holders(t)
      /\ Finish(w, "ok")

(* The unique index refuses what the search has let pass. *)
UpdateCollides(w) ==
  /\ CanUpdate(w) /\ ~Waits(w, op[w].items[1])
  /\ \E t \in Current(w, snap[w] \cap table) : Taken(op[w].items[1], t)
  /\ Finish(w, "23505")
  /\ UNCHANGED <<table, overtaken>>

(* MUTANT of UpdateMisses: a conflict that the search finds leaves the     *)
(* statement without a row instead of raising.                             *)
UpdateMissesUnraised(w) ==
  /\ pc[w] = "update"
  /\ Current(w, snap[w] \cap table) = {} \/ Found(w, snap[w]) # {}
  /\ pc' = [pc EXCEPT ![w] = "probe"]
  /\ res' = NoNews
  /\ UNCHANGED <<table, op, snap, fresh, overtaken>>

(* The row is not, or not any more, in the version expected. *)
UpdateMisses(w) ==
  /\ CanUpdate(w) /\ Current(w, snap[w] \cap table) = {}
  /\ pc' = [pc EXCEPT ![w] = "probe"]
  /\ res' = NoNews
  /\ UNCHANGED <<table, op, snap, fresh, overtaken>>

(* disambiguateZeroRows looks for a row of that identity: there is one, in *)
(* another version.                                                        *)
ProbeFinds(w) ==
  /\ pc[w] = "probe" /\ Same(w, table) # {}
  /\ Finish(w, "ERR01")
  /\ UNCHANGED <<table, overtaken>>

(* There is none: one more statement for each of the values. *)
ProbeMisses(w) ==
  /\ pc[w] = "probe" /\ Same(w, table) = {}
  /\ pc' = [pc EXCEPT ![w] = "fields"]
  /\ res' = NoNews
  /\ UNCHANGED <<table, op, snap, fresh, overtaken>>

(* A row has the value of group g that the caller read. *)
Holds(w, g) == \E r \in table : Clash(op[w].target.val, r.val, {g})

(* The value that is looked for now is that of some row. *)
FieldFound(w) ==
  /\ pc[w] = "fields" /\ \E g \in op[w].keys : Holds(w, g)
  /\ Finish(w, "ERR10")
  /\ UNCHANGED <<table, overtaken>>

(* It is not, and others are left, or it was the last. *)
FieldMissing(w) ==
  /\ pc[w] = "fields"
  /\ \E g \in op[w].keys :
       /\ ~Holds(w, g) /\ op[w].keys # {g}
       /\ op' = [op EXCEPT ![w] = [kind |-> op[w].kind, items |-> op[w].items,
                                   keys |-> op[w].keys \ {g}, target |-> op[w].target]]
  /\ res' = NoNews
  /\ UNCHANGED <<table, pc, snap, fresh, overtaken>>

Vanished(w) ==
  /\ pc[w] = "fields" /\ \E g \in op[w].keys : ~Holds(w, g) /\ op[w].keys = {g}
  /\ Finish(w, "ERR03")
  /\ UNCHANGED <<table, overtaken>>

(***************************************************************************)
(* Other statements                                                        *)
(***************************************************************************)

(* A soft delete or a restore, or a hardDelete of a row. *)
SoftDelete(r) ==
  /\ r \in table /\ r.ver <= MaxVer
  /\ table' = (table \ {r}) \cup {Revised(r, r.val, ~r.deleted)}
  /\ res' = NoNews
  /\ overtaken' = overtaken \cup Holders(r)
  /\ UNCHANGED <<pc, op, snap, fresh>>

HardDelete(r) ==
  /\ r \in table
  /\ table' = table \ {r}
  /\ res' = NoNews
  /\ overtaken' = overtaken \cup Holders(r)
  /\ UNCHANGED <<pc, op, snap, fresh>>

Step(w) ==
  \/ Start(w) \/ AddRaises(w) \/ AddInserts(w) \/ AddCollides(w)
  \/ DetectRaises(w) \/ DetectClean(w) \/ LoadItem(w) \/ LoadFails(w) \/ CommitMany(w)
  \/ BreakDeadlock(w)
  \/ UpdateRaises(w) \/ UpdateWrites(w) \/ UpdateCollides(w) \/ UpdateMisses(w)
  \/ ProbeFinds(w) \/ ProbeMisses(w) \/ FieldFound(w) \/ FieldMissing(w) \/ Vanished(w)

Next ==
  \/ \E w \in Writers :
       \/ Step(w)
       \/ \E kind \in Kinds, items \in Batches \cup {<<v>> : v \in Items},
             keys \in KeySets \cup {Groups},
             target \in table \cup {NoTarget} : Call(w, kind, items, keys, target)
  \/ \E r \in table : SoftDelete(r) \/ HardDelete(r)

Spec == Init /\ [][Next]_vars

(***************************************************************************)
(* Properties                                                              *)
(***************************************************************************)

Ends(w, outcome) == pc[w] # "idle" /\ pc'[w] = "idle" /\ res'[w] = outcome

(* The rows that w's statement saw and that clash with what it writes: by  *)
(* a group it was asked to look at and can, or by any group.               *)
Visible(w) ==
  Clashing(w, Apart(w, IF pc[w] = "detect" THEN table ELSE snap[w]),
           IF op[w].kind = "update" THEN Groups ELSE op[w].keys \cap Bindable)

(* What the caller is told is deserved.  ERR05: a soft-deleted row holds   *)
(* the value, and for a batch no live one does, so a restore can help.     *)
(* ERR04: a live row holds it, or one holds it now that the statement could*)
(* not see or not ask for.  skipped: a row holds a value now (add 665-767, *)
(* addMany 2436-2508).                                                     *)
ConflictsAreDeserved ==
  [][\A w \in Writers :
       LET deleted == {r \in Visible(w) : r.deleted}
       IN  /\ Ends(w, "ERR05") =>
                /\ deleted # {}
                /\ op[w].kind = "addMany" => deleted = Visible(w)
           /\ Ends(w, "ERR04") =>
                \/ deleted # Visible(w)
                \/ op[w].kind = "add" /\ Visible(w) = {} /\ Clashing(w, table, Groups) # {}
           /\ Ends(w, "skipped") => Clashing(w, table, Groups) # {}]_vars

(* PostgreSQL's own 23505 reaches the caller only when no row that the     *)
(* statement could see and ask for holds a value: for a race, a value that *)
(* the statement cannot name, a group left out of conflictKeys, or a batch *)
(* that repeats a value (add 670-675, addMany 2510-2513).                  *)
RawErrorsHaveAReason ==
  [][\A w \in Writers : Ends(w, "23505") =>
       /\ Visible(w) = {}
       /\ \/ \E own \in IF op[w].kind = "update" THEN Current(w, table) ELSE {NoTarget} :
               Clashing(w, table \ {own}, Groups) # {}
          \/ \E i, j \in DOMAIN op[w].items :
               i # j /\ Clash(op[w].items[i], op[w].items[j], Groups)]_vars

(* Who is told that the row it read has changed, has gone, or has lost its *)
(* identity to another has been overtaken since it read it, although the   *)
(* statement looked for its version on a snapshot, the index and the lock  *)
(* at a later moment, and up to three probes each at one of their own      *)
(* (update 1696-1752, disambiguateZeroRows 158-193).                       *)
MissesAreDeserved ==
  [][\A w \in Writers :
       Ends(w, "ERR01") \/ Ends(w, "ERR03") \/ Ends(w, "ERR10") => w \in overtaken]_vars
=============================================================================
