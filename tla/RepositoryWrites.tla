-------------------------- MODULE RepositoryWrites --------------------------
(***************************************************************************)
(* The write operations of the Repository class on one table, run by       *)
(* concurrent writers against PostgreSQL at READ COMMITTED.                *)
(*                                                                         *)
(* Single-row operations (update, delete, restore, hardDelete) are several *)
(* statements, each its own transaction: the read of the old image for the *)
(* audit trail, the guarded write, and, when that hit no row, the probes   *)
(* that tell ERR01 from ERR03 and ERR10.  Bulk operations (updateMany, deleteMany,  *)
(* restoreMany, hardDeleteMany) are one transaction: the snapshot of the   *)
(* old images, the diagnose of stale rows, the guarded set-based write,    *)
(* which locks the rows it reaches one after the other, the race guard,    *)
(* the audit rows and COMMIT.  Between any two of those statements the     *)
(* statements of other writers run.                                        *)
(*                                                                         *)
(* Row contents are abstracted to a generation: `gen[r]` (which the code   *)
(* cannot see) counts the changes committed to row r, so equal generations *)
(* mean equal contents.  `row[r].ver` is the version column, all the code  *)
(* has to tell contents apart.                                             *)
(***************************************************************************)
EXTENDS Naturals, FiniteSets

CONSTANTS
  Rows,        \* identities of rows: a value of uuid or of another @Unique selector
  Writers,     \* concurrent callers, each with one operation under way at a time
  Kinds,       \* the operations that the writers use
  Versioned,   \* the entity has an @AuditableField(VERSION) column
  Unstamped,   \* writers that pass no `actor` in the options of their writes
  Auditors,    \* writers that pass an audit port, and an actor with it
  Repeats,     \* a caller of a bulk write may list a row twice
  Lossy,       \* an answer of the server may be lost with its connection
  Reusable,    \* identities that may be inserted again after a hardDelete
  Paired,      \* writers whose payloads carry the row's serial id beside that identity
  MaxGen       \* bound: no operation starts on row r once it changed MaxGen[r] times

ASSUME ConstantsOK ==
  /\ Kinds \subseteq {"update", "delete", "restore", "hardDelete"}
  /\ Versioned \in BOOLEAN
  /\ Repeats \in BOOLEAN
  /\ Lossy \in BOOLEAN
  /\ Unstamped \subseteq Writers
  /\ Auditors \subseteq Writers \ Unstamped
  /\ Auditors # {} => Versioned
  /\ Reusable \subseteq Rows
  /\ Paired \subseteq Writers
  /\ MaxGen \in [Rows -> Nat]

(* The outcome of a writer's last operation.  "unknown": the statement or   *)
(* the COMMIT ran in the server and the answer was lost with the connection.*)
Results ==
  {"none", "ok", "unknown", "aborted", "NotFound", "ERR01", "ERR03", "ERR10"}

(* The statements of an operation: the read of the old images, then for one*)
(* row the guarded write, `SELECT 1` of the whole identity and that of each*)
(* identity field, for many the diagnose and the set-based write.          *)
Statements == {"old", "write", "probe", "selector", "id", "check", "apply"}

VARIABLES
  row,       \* row[r]: the committed tuple of r
  gen,       \* gen[r]: changes committed to r (history, not in the database)
  seen,      \* seen[w][r]: the image of r that w last received
  pc,        \* pc[w]: the statement of w's operation that runs next
  op,        \* op[w]: w's last operation: kind, rows, bulk or not, a row listed twice
  old,       \* old[w][r]: the old image that the operation read for the audit
  todo,      \* todo[w]: rows w's bulk write has still to reach
  hit,       \* hit[w]: rows w's operation has written, or wrote if it is over
  res,       \* res[w]: outcome of w's last operation
  audit,     \* audit trail: entries in {table}_audit
  inflight   \* audit entries handed to writeAudit and not awaited

vars == <<row, gen, seen, pc, op, old, todo, hit, res, audit, inflight>>

(***************************************************************************)
(* Images, rows and audit entries                                          *)
(***************************************************************************)

Image == [ver : Nat, gen : Nat, id : Nat]
NoImage == [ver |-> 0, gen |-> 0, id |-> 0]

(* A row that is in the table: the id is a serial that no two inserts get, *)
(* and stands here for the generation that the insert made.                *)
Tuple == [live : BOOLEAN, ver : Nat, id : Nat]
NoRow == [live |-> FALSE, ver |-> 0, id |-> 0]
FreshRow(r) == [live |-> TRUE, ver |-> 1, id |-> gen[r] + 1]

(* Whether the answer to a statement reaches the writer. *)
Acks == IF Lossy THEN BOOLEAN ELSE {TRUE}

(* What a SELECT returns of row r. *)
Snapshot(r) ==
  IF row[r].live THEN [ver |-> row[r].ver, gen |-> gen[r], id |-> row[r].id] ELSE NoImage

Entry == [row : Rows, act : Kinds \cup {"insert"}, ver : Nat, old : Nat, new : Nat]

TypeOK ==
  /\ row \in [Rows -> Tuple]
  /\ gen \in [Rows -> Nat]
  /\ seen \in [Writers -> [Rows -> Image]]
  /\ pc \in [Writers -> {"idle"} \cup Statements]
  /\ op \in [Writers -> [kind : Kinds \cup {"none"}, rows : SUBSET Rows,
                       many : BOOLEAN, twice : BOOLEAN]]
  /\ old \in [Writers -> [Rows -> Image]]
  /\ todo \in [Writers -> SUBSET Rows]
  /\ hit \in [Writers -> SUBSET Rows]
  /\ res \in [Writers -> Results]
  /\ audit \subseteq Entry
  /\ inflight \subseteq Entry

Init ==
  /\ row = [r \in Rows |-> NoRow]
  /\ gen = [r \in Rows |-> 0]
  /\ seen = [w \in Writers |-> [r \in Rows |-> NoImage]]
  /\ pc = [w \in Writers |-> "idle"]
  /\ op = [w \in Writers |->
            [kind |-> "none", rows |-> {}, many |-> FALSE, twice |-> FALSE]]
  /\ old = [w \in Writers |-> [r \in Rows |-> NoImage]]
  /\ todo = [w \in Writers |-> {}]
  /\ hit = [w \in Writers |-> {}]
  /\ res = [w \in Writers |-> "none"]
  /\ audit = {}
  /\ inflight = {}

(***************************************************************************)
(* The guarded statement                                                   *)
(***************************************************************************)

(* The rows that the uncommitted bulk writes hold. *)
Locked(r) == \E x \in Writers : pc[x] = "apply" /\ r \in hit[x]

(* A row has the id that w's payload carries. *)
SameId(w, r) == row[r].live /\ row[r].id = seen[w][r].id

(* A row has every identity field of w's payload: id and uuid, where they  *)
(* are present, are ANDed to the selector.                                 *)
Identified(w, r) ==
  /\ row[r].live
  /\ w \in Paired => SameId(w, r)

(* MUTANT of Matches: the version guard is left out of the WHERE clause. *)
MatchesAnyVersion(w, r) == Identified(w, r)

(* The WHERE clause of w's write: identity and, on a versioned entity, the *)
(* version that the caller read.                                           *)
Matches(w, r) ==
  /\ Identified(w, r)
  /\ Versioned => row[r].ver = seen[w][r].ver

(* MUTANT of Bumps: update() leaves the version column alone. *)
BumpsExceptUpdate(w) == Versioned /\ op[w].kind # "update"

(* MUTANT of Bumps: a soft delete leaves the version column alone. *)
BumpsExceptDelete(w) == Versioned /\ op[w].kind # "delete"

(* The write increments the version column: always for delete and restore, *)
(* for update only when it is stamped with an actor.                       *)
Bumps(w) ==
  /\ Versioned
  /\ op[w].kind = "update" => w \notin Unstamped

(* The tuple that w's write makes of row r.  A soft delete and a restore    *)
(* are updates: what they write is part of the content.                    *)
Written(w, r) ==
  IF op[w].kind = "hardDelete" THEN NoRow
  ELSE [row[r] EXCEPT !.ver = IF Bumps(w) THEN @ + 1 ELSE @]

(* The audit rows of w's write of the rows of S; a hardDelete records the  *)
(* version of the old image.                                               *)
AuditOf(w, S) ==
  {[row |-> r, act |-> op[w].kind,
    ver |-> IF op[w].kind = "hardDelete" THEN old[w][r].ver ELSE Written(w, r).ver,
    old |-> old[w][r].gen, new |-> gen[r] + 1] :
     r \in {x \in S : w \in Auditors /\ old[w][x] # NoImage}}

(* The rows of S become what w's write makes of them. *)
Apply(w, S) ==
  /\ row' = [r \in Rows |-> IF r \in S THEN Written(w, r) ELSE row[r]]
  /\ gen' = [r \in Rows |-> IF r \in S THEN gen[r] + 1 ELSE gen[r]]

(* RETURNING gives w the images of the rows of S that its write made. *)
Returned(w, S) ==
  [seen EXCEPT ![w] = [r \in Rows |->
     IF r \in S THEN [ver |-> Written(w, r).ver, gen |-> gen[r] + 1, id |-> row[r].id]
     ELSE @[r]]]

(* w's operation is over, with outcome `outcome`, having written the rows  *)
(* of S; its old images and its temporary tables are gone.                 *)
Finish(w, outcome, S) ==
  /\ pc' = [pc EXCEPT ![w] = "idle"]
  /\ res' = [res EXCEPT ![w] = outcome]
  /\ hit' = [hit EXCEPT ![w] = S]
  /\ old' = [old EXCEPT ![w] = [r \in Rows |-> NoImage]]
  /\ todo' = [todo EXCEPT ![w] = {}]

(***************************************************************************)
(* Operations of one statement                                             *)
(***************************************************************************)

(* A finder returns row r, or null, to the idle writer w. *)
Find(w, r) ==
  /\ pc[w] = "idle"
  /\ seen' = [seen EXCEPT ![w][r] = Snapshot(r)]
  /\ res' = [res EXCEPT ![w] = "none"]
  /\ UNCHANGED <<row, gen, pc, op, old, todo, hit, audit, inflight>>

(* add() of an identity that is not in the table; the INSERT waits for an  *)
(* uncommitted delete of it.  `ack`: the answer reaches the writer.  The   *)
(* add of an identity that is there fails and changes nothing.             *)
Add(w, r, ack) ==
  /\ pc[w] = "idle" /\ ~Locked(r)
  /\ ~row[r].live /\ (gen[r] = 0 \/ r \in Reusable)
  /\ gen[r] < MaxGen[r]
  /\ row' = [row EXCEPT ![r] = FreshRow(r)]
  /\ gen' = [gen EXCEPT ![r] = @ + 1]
  /\ seen' = IF ack
             THEN [seen EXCEPT ![w][r] = [ver |-> 1, gen |-> gen[r] + 1, id |-> gen[r] + 1]]
             ELSE seen
  /\ inflight' = IF ack /\ w \in Auditors
                 THEN inflight \cup {[row |-> r, act |-> "insert", ver |-> 1,
                                      old |-> 0, new |-> gen[r] + 1]}
                 ELSE inflight
  /\ res' = [res EXCEPT ![w] = "none"]
  /\ UNCHANGED <<pc, op, old, todo, hit, audit>>

(***************************************************************************)
(* Single-row and bulk writes                                              *)
(***************************************************************************)

(* w calls update(), delete(), restore() or hardDelete(), or with `many`   *)
(* the bulk form, on rows that it has read.  The versions it passes are    *)
(* those of `seen`.  A bulk write begins its transaction and loads its     *)
(* temporary table, which touches nothing another writer can see.          *)
Begin(w, kind, S, many, twice) ==
  /\ pc[w] = "idle"
  /\ S # {} /\ (many \/ Cardinality(S) = 1)
  /\ twice => many /\ Repeats
  /\ \A r \in S : seen[w][r].gen > 0 /\ gen[r] < MaxGen[r]
  /\ op' = [op EXCEPT ![w] = [kind |-> kind, rows |-> S, many |-> many, twice |-> twice]]
  /\ pc' = [pc EXCEPT ![w] = "old"]
  /\ hit' = [hit EXCEPT ![w] = {}]
  /\ res' = [res EXCEPT ![w] = "none"]
  /\ UNCHANGED <<row, gen, seen, old, todo, audit, inflight>>

(* The old images are read, in a statement before the write: `SELECT *`    *)
(* for one row, CREATE TEMP TABLE AS ... for a bulk write.                 *)
ReadOld(w) ==
  /\ pc[w] = "old"
  /\ old' = [old EXCEPT ![w] = [r \in Rows |->
               IF r \in op[w].rows /\ w \in Auditors /\ Identified(w, r)
               THEN Snapshot(r) ELSE NoImage]]
  /\ pc' = [pc EXCEPT ![w] = IF op[w].many THEN "check" ELSE "write"]
  /\ UNCHANGED <<row, gen, seen, op, todo, hit, res, audit, inflight>>

(* The guarded write of one row hits it; RETURNING gives the writer the    *)
(* new image and writeAudit is started, unless the answer is lost.         *)
GuardedWrite(w, ack) ==
  /\ pc[w] = "write"
  /\ \A r \in op[w].rows : Matches(w, r) /\ ~Locked(r)
  /\ Apply(w, op[w].rows)
  /\ Finish(w, IF ack THEN "ok" ELSE "unknown", op[w].rows)
  /\ seen' = IF ack /\ op[w].kind # "hardDelete" THEN Returned(w, op[w].rows) ELSE seen
  /\ inflight' = IF ack THEN inflight \cup AuditOf(w, op[w].rows) ELSE inflight
  /\ UNCHANGED <<op, audit>>

(* The guarded write hits no row: the probes follow, of a whole identity on*)
(* a versioned entity and else of the fields of an identity that has two.  *)
WriteMisses(w) ==
  /\ pc[w] = "write"
  /\ \E r \in op[w].rows : ~Matches(w, r)
  /\ IF Versioned \/ w \in Paired
     THEN /\ pc' = [pc EXCEPT ![w] = IF Versioned THEN "probe" ELSE "selector"]
          /\ UNCHANGED <<old, todo, hit, res>>
     ELSE Finish(w, "NotFound", {})
  /\ UNCHANGED <<row, gen, seen, op, audit, inflight>>

(* MUTANT of DisambiguateZeroRows: the branches of `rowCount === 0` are    *)
(* swapped.                                                                *)
DisambiguateInverted(w) ==
  /\ pc[w] = "probe"
  /\ IF \A r \in op[w].rows : ~Identified(w, r)
     THEN Finish(w, "ERR01", {})
     ELSE /\ pc' = [pc EXCEPT ![w] = "selector"]
          /\ UNCHANGED <<old, todo, hit, res>>
  /\ UNCHANGED <<row, gen, seen, op, audit, inflight>>

(* `SELECT 1` looks whether the row is there at all: if it is, its version *)
(* is another one; if not, the identity fields are probed one by one.      *)
DisambiguateZeroRows(w) ==
  /\ pc[w] = "probe"
  /\ IF \E r \in op[w].rows : Identified(w, r)
     THEN Finish(w, "ERR01", {})
     ELSE /\ pc' = [pc EXCEPT ![w] = "selector"]
          /\ UNCHANGED <<old, todo, hit, res>>
  /\ UNCHANGED <<row, gen, seen, op, audit, inflight>>

(* The field that the next probe asks for is that of a row in the table.   *)
FieldFound(w) ==
  \E r \in op[w].rows : IF pc[w] = "selector" THEN row[r].live ELSE SameId(w, r)

(* A probe of one identity field finds a row: IdentityConflictError, also  *)
(* when the identity has no other field.                                   *)
IdentityFound(w) ==
  /\ pc[w] \in {"selector", "id"}
  /\ FieldFound(w)
  /\ Finish(w, "ERR10", {})
  /\ UNCHANGED <<row, gen, seen, op, audit, inflight>>

(* A probe finds none: the next field is asked for, and after the last the *)
(* record has vanished.                                                    *)
IdentityMissing(w) ==
  /\ pc[w] \in {"selector", "id"}
  /\ ~FieldFound(w)
  /\ IF pc[w] = "selector" /\ w \in Paired
     THEN /\ pc' = [pc EXCEPT ![w] = "id"]
          /\ UNCHANGED <<old, todo, hit, res>>
     ELSE Finish(w, IF Versioned THEN "ERR03" ELSE "NotFound", {})
  /\ UNCHANGED <<row, gen, seen, op, audit, inflight>>

(***************************************************************************)
(* The statements of a bulk transaction                                    *)
(***************************************************************************)

(* Every row is as its caller read it: the set-based write starts. *)
DiagnoseClean(w) ==
  /\ pc[w] = "check"
  /\ Versioned => \A r \in op[w].rows : Matches(w, r)
  /\ pc' = [pc EXCEPT ![w] = "apply"]
  /\ todo' = [todo EXCEPT ![w] = op[w].rows]
  /\ UNCHANGED <<row, gen, seen, op, old, hit, res, audit, inflight>>

(* Some row is stale or vanished: pg_raise, and the transaction rolls back.*)
(* ERR10 if an item that matches no row has an identity field of one, ERR03*)
(* if every offender is gone.                                              *)
DiagnoseStale(w) ==
  /\ pc[w] = "check" /\ Versioned
  /\ \E r \in op[w].rows : ~Matches(w, r)
  /\ Finish(w, IF \E r \in op[w].rows : ~Identified(w, r) /\ row[r].live THEN "ERR10"
               ELSE IF \A r \in op[w].rows : Matches(w, r) \/ ~Identified(w, r)
               THEN "ERR03" ELSE "ERR01", {})
  /\ UNCHANGED <<row, gen, seen, op, audit, inflight>>

(* The set-based write reaches row r.  A row that matches is waited for    *)
(* while another transaction holds it, and the WHERE clause is evaluated   *)
(* again on the tuple that transaction leaves.                             *)
VisitRow(w, r) ==
  /\ pc[w] = "apply" /\ r \in todo[w]
  /\ Matches(w, r) => ~Locked(r)
  /\ todo' = [todo EXCEPT ![w] = @ \ {r}]
  /\ hit' = [hit EXCEPT ![w] = IF Matches(w, r) THEN @ \cup {r} ELSE @]
  /\ UNCHANGED <<row, gen, seen, pc, op, old, res, audit, inflight>>

(* MUTANT of Whole: the row count of the write is not looked at. *)
WholeUnchecked(w) == TRUE

(* The rows written are as many as the items submitted. *)
Whole(w) == hit[w] = op[w].rows /\ ~op[w].twice

(* MUTANT of RaceGuard: the error is thrown past bulkAbort, the transaction *)
(* stays open and keeps its row locks.                                     *)
RaceGuardWithoutRollback(w) ==
  /\ pc[w] = "apply" /\ todo[w] = {} /\ Versioned
  /\ ~Whole(w)
  /\ res' = [res EXCEPT ![w] = "ERR01"]
  /\ UNCHANGED <<row, gen, seen, pc, op, old, todo, hit, audit, inflight>>

(* The write hit fewer rows than the batch has: OptimisticLockError and    *)
(* ROLLBACK.  Only versioned entities have this guard.                     *)
RaceGuard(w) ==
  /\ pc[w] = "apply" /\ todo[w] = {} /\ Versioned
  /\ ~Whole(w)
  /\ Finish(w, "ERR01", {})
  /\ UNCHANGED <<row, gen, seen, op, audit, inflight>>

(* The audit rows are inserted in the same transaction, then COMMIT. *)
CommitMany(w, ack) ==
  /\ pc[w] = "apply" /\ todo[w] = {}
  /\ Versioned => Whole(w)
  /\ Apply(w, hit[w])
  /\ audit' = audit \cup AuditOf(w, hit[w])
  /\ Finish(w, IF ack THEN "ok" ELSE "unknown", hit[w])
  /\ UNCHANGED <<seen, op, inflight>>

(* A statement of the transaction fails: its budget ran out, the session   *)
(* died.  bulkAbort rolls back.                                            *)
AbortMany(w) ==
  /\ op[w].many /\ pc[w] \in {"old", "check", "apply"}
  /\ Finish(w, "aborted", {})
  /\ UNCHANGED <<row, gen, seen, op, audit, inflight>>

(* A single-row statement fails without having been executed. *)
AbortOne(w) ==
  /\ ~op[w].many /\ pc[w] \in {"old", "write", "probe", "selector", "id"}
  /\ Finish(w, "aborted", {})
  /\ UNCHANGED <<row, gen, seen, op, audit, inflight>>

(* Whom w waits for, once every row it has still to reach is held. *)
Blockers(w) == {x \in Writers : pc[x] = "apply" /\ hit[x] \cap todo[w] # {}}

Blocked(w) ==
  /\ pc[w] = "apply" /\ todo[w] # {}
  /\ \A r \in todo[w] : Matches(w, r) /\ Locked(r)

(* PostgreSQL's deadlock detector fails one of the writers of a cycle. *)
BreakDeadlock(w) ==
  /\ \E D \in SUBSET Writers :
       w \in D /\ \A x \in D : Blocked(x) /\ Blockers(x) \subseteq D
  /\ Finish(w, "aborted", {})
  /\ UNCHANGED <<row, gen, seen, op, audit, inflight>>

(***************************************************************************)
(* The audit entries of single-row writes, which nobody waits for          *)
(***************************************************************************)

AuditLands(e) ==
  /\ inflight' = inflight \ {e}
  /\ audit' = audit \cup {e}
  /\ UNCHANGED <<row, gen, seen, pc, op, old, todo, hit, res>>

(* writeAudit rejects, which is logged and swallowed. *)
AuditFails(e) ==
  /\ inflight' = inflight \ {e}
  /\ UNCHANGED <<row, gen, seen, pc, op, old, todo, hit, res, audit>>

Next ==
  \/ \E w \in Writers :
       \/ \E r \in Rows : Find(w, r) \/ VisitRow(w, r)
       \/ \E r \in Rows, ack \in Acks : Add(w, r, ack)
       \/ \E kind \in Kinds, S \in SUBSET Rows, many, twice \in BOOLEAN :
            Begin(w, kind, S, many, twice)
       \/ \E ack \in Acks : GuardedWrite(w, ack) \/ CommitMany(w, ack)
       \/ ReadOld(w) \/ WriteMisses(w) \/ DisambiguateZeroRows(w)
       \/ IdentityFound(w) \/ IdentityMissing(w)
       \/ DiagnoseClean(w) \/ DiagnoseStale(w) \/ RaceGuard(w)
       \/ AbortMany(w) \/ AbortOne(w) \/ BreakDeadlock(w)
  \/ \E e \in inflight : AuditLands(e) \/ AuditFails(e)

Spec == Init /\ [][Next]_vars

(* Every statement that has been sent is answered: the server executes the *)
(* statements it can, serves the waiters for a row in order, and detects   *)
(* deadlocks.  Nothing is assumed of the callers or of the audit writes.   *)
Fairness ==
  \A w \in Writers :
    /\ WF_vars(ReadOld(w) \/ WriteMisses(w))
    /\ WF_vars(DisambiguateZeroRows(w) \/ IdentityFound(w) \/ IdentityMissing(w))
    /\ WF_vars(DiagnoseClean(w) \/ DiagnoseStale(w))
    /\ SF_vars(GuardedWrite(w, TRUE))
    /\ SF_vars(\E r \in Rows : VisitRow(w, r))
    /\ WF_vars(RaceGuard(w) \/ CommitMany(w, TRUE))
    /\ WF_vars(BreakDeadlock(w))

FairSpec == Spec /\ Fairness

(***************************************************************************)
(* Properties                                                              *)
(***************************************************************************)

Store == INSTANCE VersionedStore
           WITH alive <- [r \in Rows |-> row[r].live],
                seen  <- [w \in Writers |-> [r \in Rows |-> seen[w][r].gen]]

(* The version column, the guarded statements and the row locks make the   *)
(* table a multi-row compare-and-set register: what an operation changes   *)
(* is exactly as its caller read it, but for identities that are inserted  *)
(* again, and a bulk write changes all of its rows in one step or none     *)
(* (update 1544-1787, updateMany 3237-3479).                               *)
ImplementsStore == Store!Spec

(* What w has read of r is of an earlier row of that identity, which was   *)
(* removed before the insert of row r.                                     *)
OfEarlierRow(w, r) == seen[w][r].gen + 1 < row[r].id

(* No write, whatever the interleaving, goes on top of a change that its   *)
(* caller has not read (the version guard of every guarded statement),     *)
(* with one exception: the identity was inserted again since that read, the*)
(* versions of the new row came to the one of the old, and the caller gave *)
(* that identity alone, without the id of the row that it read.            *)
NoLostUpdate ==
  [][\A r \in Rows :
       row[r].live /\ gen'[r] # gen[r] =>
         \E w \in Writers :
           /\ pc[w] # "idle" /\ pc'[w] = "idle"
           /\ r \in op[w].rows
           /\ \/ seen[w][r].gen = gen[r]
              \/ r \in Reusable /\ w \notin Paired /\ OfEarlierRow(w, r)]_vars

(* The old image of every audit entry is the image that its write replaced,*)
(* although it is read in an earlier statement (update 1617-1626, the      *)
(* tmp_old table of updateMany), and no two entries of a row that are not  *)
(* hardDelete entries carry the same version.  An identity that is inserted*)
(* again has entries of several rows.                                      *)
AuditIsFaithful ==
  LET entries == {e \in audit \cup inflight : e.row \notin Reusable}
  IN  /\ \A e \in entries : e.new = e.old + 1
      /\ \A e, f \in entries :
           /\ e.row = f.row /\ e.ver = f.ver
           /\ e.act # "hardDelete" /\ f.act # "hardDelete"
           => e = f

(* A row has changed since w read it; its identity was inserted again since*)
(* then; the row is gone, or was, before another took its identity.        *)
Changed(w, r) == seen[w][r].gen < gen[r]
Replaced(w, r) == r \in Reusable /\ seen[w][r].gen + 1 < gen[r]
Gone(w, r) == Changed(w, r) /\ (row[r].live => Replaced(w, r))

(* Nobody is told of a conflict that did not happen: after ERR01 some row  *)
(* of the operation has changed since the caller read it, after ERR03 a row*)
(* it asked for has gone, and after ERR10 one has gone and another has been*)
(* inserted under its identity (disambiguateZeroRows and its probes,       *)
(* assertNoPartialIdentity, the diagnose of bulk writes, their race guard).*)
ErrorsAreDeserved ==
  \A w \in Writers :
    /\ res[w] = "ERR01" => \E r \in op[w].rows : Changed(w, r)
    /\ res[w] = "ERR03" => \E r \in op[w].rows : Gone(w, r)
    /\ res[w] = "ERR10" => \E r \in op[w].rows : Replaced(w, r)

(* An operation that reports success wrote a row for every item it was     *)
(* given: the BulkResult has affected = received.                          *)
SuccessIsComplete ==
  \A w \in Writers : res[w] = "ok" => hit[w] = op[w].rows /\ ~op[w].twice

(* Every operation ends, although bulk writes wait for one another's rows  *)
(* in no agreed order.                                                     *)
OperationsEnd ==
  \A w \in Writers : pc[w] # "idle" ~> pc[w] = "idle"

(***************************************************************************)
(* The inductive invariant                                                 *)
(***************************************************************************)

(* The use of the library that its promises are about: a versioned entity, *)
(* every update stamped with an actor.                                     *)
Disciplined == Versioned /\ Unstamped = {}

(* Rows that share an id are one row, and one that w read of an identity   *)
(* that is not the present one was removed before that was inserted.       *)
IdsAreSerial ==
  /\ \A r \in Rows : row[r].live =>
       0 < row[r].id /\ row[r].id <= gen[r] /\ (r \notin Reusable => row[r].id = 1)
  /\ \A w \in Writers, r \in Rows :
       /\ seen[w][r].gen <= gen[r]
       /\ seen[w][r].id <= seen[w][r].gen
       /\ seen[w][r].gen > 0 => 0 < seen[w][r].id /\ (r \notin Reusable => seen[w][r].id = 1)
       /\ seen[w][r].gen > 0 /\ seen[w][r].gen = gen[r] => SameId(w, r)
       /\ seen[w][r].gen > 0 /\ row[r].live => SameId(w, r) \/ OfEarlierRow(w, r)

(* The version of a row counts its changes since its insert, so that equal *)
(* versions of one row mean equal contents.                                *)
VersionsCount ==
  /\ \A r \in Rows : row[r].live => row[r].id + row[r].ver = gen[r] + 1
  /\ \A w \in Writers, r \in Rows : seen[w][r].gen > 0 =>
       seen[w][r].id + seen[w][r].ver = seen[w][r].gen + 1

(* An operation under way has rows, which its caller has read; a row can be*)
(* listed twice only in a bulk operation.                                  *)
OperationsAreFormed ==
  \A w \in Writers : pc[w] # "idle" =>
    /\ op[w].rows # {}
    /\ \A r \in op[w].rows : seen[w][r].gen > 0
    /\ op[w].twice => op[w].many /\ Repeats
    /\ pc[w] \in {"write", "probe", "selector", "id"} => ~op[w].many
    /\ pc[w] \in {"check", "apply"} => op[w].many

(* What an open bulk write holds: rows of its own that still have the      *)
(* version its caller read, and that no other bulk write holds.  A row that*)
(* it passed over has changed.                                             *)
HeldRowsAreFresh ==
  /\ \A w \in Writers : pc[w] \in Statements \ {"apply"} => hit[w] = {}
  /\ \A w \in Writers : pc[w] = "apply" =>
       /\ todo[w] \subseteq op[w].rows
       /\ hit[w] \subseteq op[w].rows
       /\ \A r \in hit[w] : Identified(w, r) /\ seen[w][r].ver = row[r].ver
       /\ \A r \in op[w].rows : r \in todo[w] \/ r \in hit[w] \/ Changed(w, r)
  /\ \A w, x \in Writers :
       w # x /\ pc[w] = "apply" /\ pc[x] = "apply" => hit[w] \cap hit[x] = {}

(* The reason of a failure outlives it.                                    *)
FailuresHaveReasons ==
  \A w \in Writers :
    /\ pc[w] = "probe" => \E r \in op[w].rows : Changed(w, r)
    /\ pc[w] \in {"selector", "id"} => \A r \in op[w].rows : Gone(w, r)
    /\ pc[w] # "idle" => res[w] = "none"
    /\ res[w] = "ERR01" /\ ~Repeats => \E r \in op[w].rows : Changed(w, r)
    /\ res[w] = "ERR03" => \E r \in op[w].rows : Gone(w, r)
    /\ res[w] = "ERR10" => \E r \in op[w].rows : Replaced(w, r)

(* The inductive strengthening of the properties of the writes: every part *)
(* of it is needed to carry the others over some step of the operations.   *)
WriteInv ==
  /\ IdsAreSerial
  /\ VersionsCount
  /\ OperationsAreFormed
  /\ HeldRowsAreFresh
  /\ FailuresHaveReasons

(* The old image an operation holds lies between what its caller read and  *)
(* what is committed, and the entries of a row carry the generations their *)
(* writes made, each only once (the old-image reads of update, delete,     *)
(* restore and hardDelete, and the tmp_old tables).                        *)
AuditInv ==
  LET entries == audit \cup inflight
  IN  /\ \A w \in Writers, r \in Rows : old[w][r] # NoImage =>
           /\ pc[w] \in Statements \ {"old"}
           /\ seen[w][r].gen <= old[w][r].gen
           /\ old[w][r].gen <= gen[r]
      /\ \A e \in entries :
           /\ e.new <= gen[e.row]
           /\ e.row \notin Reusable =>
                e.new = e.old + 1 /\ (e.act # "hardDelete" => e.ver = e.new)
      /\ \A e, f \in entries : e.row = f.row /\ e.new = f.new => e = f
=============================================================================
