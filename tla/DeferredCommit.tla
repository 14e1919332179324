--------------------------- MODULE DeferredCommit ---------------------------
(***************************************************************************)
(* A deferred transaction: operations are buffered, and commit() compiles  *)
(* them into one statement whose branches all see one snapshot, while      *)
(* other clients of the database go on writing.                            *)
(*                                                                         *)
(* A row is what its key (a @Unique value) identifies.  `id` is drawn from *)
(* a sequence, so it tells a row from a later one with the same key; `link`*)
(* is a column that an operation can fill through ref().  The statement is *)
(* kept branch by branch: PostgreSQL promises no order between the         *)
(* branches of a WITH, except that a branch that reads another's output    *)
(* comes after it.  A branch that has to yield a row and does not raises,  *)
(* and takes the statement with it.                                        *)
(***************************************************************************)
EXTENDS Naturals, Sequences

CONSTANTS
  Keys,      \* identities of rows
  Kinds,     \* kinds of operations that are buffered
  MaxOps,    \* bound: operations in a buffer
  MaxVer,    \* bound: others change a row, and callers have read one, up to this version
  MaxId,     \* bound: no row is inserted beyond this id
  Exact,     \* JSON.parse keeps the integers up to this one (2 ^ 53 in the code)
  Faults     \* statements are cut off, answers lost, result rows not converted

ASSUME DeferredAssumption ==
  /\ Kinds \subseteq {"add", "update", "delete", "restore", "hardDelete", "find"}
  /\ {MaxOps, MaxVer, MaxId, Exact} \subseteq Nat /\ Exact % 2 = 0
  /\ Faults \in BOOLEAN

VARIABLES
  table,    \* table[k]: the committed row
  nextId,   \* the sequence of the id column
  state,    \* of the transaction object: open, committed, discarded
  ops,      \* the buffer
  handles,  \* handles[i]: the Deferred of ops[i]
  pc,       \* where commit() is
  snap,     \* the snapshot of the statement
  out,      \* out[i]: whether branch i of the statement has run, and its row
  outcome   \* what commit() came to

vars == <<table, nextId, state, ops, handles, pc, snap, out, outcome>>

(***************************************************************************)
(* Rows, operations, handles                                               *)
(***************************************************************************)

Row == [there : BOOLEAN, id : Nat, ver : Nat, deleted : BOOLEAN, link : Nat]
NoRow == [there |-> FALSE, id |-> 0, ver |-> 0, deleted |-> FALSE, link |-> 0]
Present(id, ver, deleted, link) ==
  [there |-> TRUE, id |-> id, ver |-> ver, deleted |-> deleted, link |-> link]

Guarded == {"update", "delete", "restore", "hardDelete"}
Writes == Guarded \cup {"add"}

(* strict: an add in raise mode, a find that throws when it finds nothing. *)
(* from: the operation whose id fills the link column by ref(), 0 for none.*)
(* broken: it cannot be compiled, as the Repository rejects its arguments  *)
(* or its ref() names a column that the other operation does not emit.     *)
Op == [kind : Kinds, key : Keys, ver : Nat, strict : BOOLEAN, from : Nat, broken : BOOLEAN]

(* A versioned entity: a guarded write carries the version its caller read.*)
WellFormed(op) ==
  /\ op.kind \in Guarded <=> op.ver > 0
  /\ op.kind \in Guarded => op.strict
  /\ op.kind \notin {"add", "update"} => op.from = 0

Handle == [is : {"pending", "row", "empty", "rejected"}, id : Nat]
Pending == [is |-> "pending", id |-> 0]
Empty == [is |-> "empty", id |-> 0]
Rejected == [is |-> "rejected", id |-> 0]

NotRun == [ran |-> FALSE, row |-> NoRow]

(* jsonb carries a bigint as a number, and JSON.parse rounds it to the     *)
(* nearest double, on a tie to the even mantissa (as it does up to 2*Exact).*)
JsonNumber(n) ==
  IF n < Exact \/ n % 2 = 0 THEN n
  ELSE IF (n \div 2) % 2 = 0 THEN n - 1 ELSE n + 1

Codes == {"ERR01", "ERR03", "ERR04", "ERR05"}

TypeOK ==
  /\ table \in [Keys -> Row]
  /\ nextId \in Nat
  /\ state \in {"open", "committed", "discarded"}
  /\ ops \in Seq(Op)
  /\ handles \in Seq(Handle) /\ Len(handles) = Len(ops)
  /\ pc \in {"buffer", "capture", "send", "run", "over"}
  /\ snap \in [Keys -> Row]
  /\ out \in Seq([ran : BOOLEAN, row : Row]) /\ Len(out) <= Len(ops)
  /\ outcome \in Codes \cup {"none", "ok", "unknown", "invalid", "failed"}

Init ==
  /\ table \in [Keys -> {NoRow} \cup
       {Present(1, ver, deleted, 0) : ver \in 1 .. MaxVer + 1, deleted \in BOOLEAN}]
  /\ nextId = 2
  /\ state = "open"
  /\ ops = <<>>
  /\ handles = <<>>
  /\ pc = "buffer"
  /\ snap = [k \in Keys |-> NoRow]
  /\ out = <<>>
  /\ outcome = "none"

(***************************************************************************)
(* The program that holds the transaction                                  *)
(***************************************************************************)

(* What an operation is registered with. *)
Requests ==
  [kind : Kinds, key : Keys, ver : 0 .. MaxVer, strict : BOOLEAN, from : 0 .. MaxOps,
   broken : BOOLEAN]

(* MUTANT of Register: the buffer stays open while commit() is under way. *)
RegisterLate(op) ==
  /\ pc # "over" /\ Len(ops) < MaxOps
  /\ WellFormed(op)
  /\ ops' = Append(ops, op)
  /\ handles' = Append(handles, Pending)
  /\ UNCHANGED <<table, nextId, state, pc, snap, out, outcome>>

(* add() ... find(): the buffer takes operations while it is open. *)
Register(op) ==
  /\ state = "open" /\ Len(ops) < MaxOps
  /\ WellFormed(op)
  /\ ops' = Append(ops, op)
  /\ handles' = Append(handles, Pending)
  /\ UNCHANGED <<table, nextId, state, pc, snap, out, outcome>>

(* commit(): a second one throws, as does a commit() after discard(). *)
Commit ==
  /\ state = "open"
  /\ state' = "committed"
  /\ pc' = "capture"
  /\ UNCHANGED <<table, nextId, ops, handles, snap, out, outcome>>

(* MUTANT of RejectAll: only the operation that failed is told. *)
RejectOne == IF handles = <<>> THEN handles ELSE [handles EXCEPT ![1] = Rejected]

RejectAll == [i \in DOMAIN handles |-> Rejected]

Discard ==
  /\ state = "open"
  /\ state' = "discarded"
  /\ pc' = "over"
  /\ handles' = RejectAll
  /\ UNCHANGED <<table, nextId, ops, snap, out, outcome>>

(***************************************************************************)
(* commit(), from the awaited captures to the statement                    *)
(***************************************************************************)

(* commit() throws, having rejected every handle. *)
Fail(why) ==
  /\ outcome' = why
  /\ pc' = "over"
  /\ handles' = RejectAll

(* Only a ref() to an earlier operation can be compiled. *)
Compiles(i) == ~ops[i].broken /\ ops[i].from < i

CommitNothing ==
  /\ pc = "capture" /\ ops = <<>>
  /\ outcome' = "ok"
  /\ pc' = "over"
  /\ UNCHANGED <<table, nextId, state, ops, handles, snap, out>>

Merge ==
  /\ pc = "capture" /\ ops # <<>>
  /\ \A i \in DOMAIN ops : Compiles(i)
  /\ out' = [i \in DOMAIN ops |-> NotRun]
  /\ pc' = "send"
  /\ UNCHANGED <<table, nextId, state, ops, handles, snap, outcome>>

MergeRejects ==
  /\ pc = "capture"
  /\ \E i \in DOMAIN ops : ~Compiles(i)
  /\ Fail("invalid")
  /\ UNCHANGED <<table, nextId, state, ops, snap, out>>

(* The statement starts, with the snapshot that all its branches see. *)
Start ==
  /\ pc = "send"
  /\ snap' = table
  /\ pc' = "run"
  /\ UNCHANGED <<table, nextId, state, ops, handles, out, outcome>>

(* No connection, a timeout, a connection that breaks: nothing is written. *)
StatementFails ==
  /\ Faults /\ pc \in {"send", "run"}
  /\ Fail("failed")
  /\ UNCHANGED <<table, nextId, state, ops, snap, out>>

(***************************************************************************)
(* The branches of the statement                                           *)
(***************************************************************************)

(* Operations whose branch has written a row: those of key k, of any key.  *)
WroteKey(k) ==
  {i \in DOMAIN out : out[i].row.there /\ ops[i].kind \in Writes /\ ops[i].key = k}

(* The row of key k as the statement has made it, or as it is committed.   *)
(* Of two branches that wrote k one is a hardDelete, the other its re-add. *)
Current(k) ==
  CASE WroteKey(k) = {} -> table[k]
    [] \E i \in WroteKey(k) : ops[i].kind # "hardDelete" ->
         out[CHOOSE i \in WroteKey(k) : ops[i].kind # "hardDelete"].row
    [] OTHER -> NoRow

CanRun(i) ==
  /\ pc = "run" /\ ~out[i].ran
  /\ ops[i].from > 0 => out[ops[i].from].ran

(* Branch i has run and returned this row, or none. *)
Returns(i, row) ==
  /\ out' = [out EXCEPT ![i] = [ran |-> TRUE, row |-> row]]
  /\ UNCHANGED <<pc, handles, outcome>>

(* pg_raise in branch i, or in its abort branch: the statement has failed. *)
Raises(code) == Fail(code) /\ UNCHANGED out

(* `(SELECT "id" FROM "__rN" LIMIT 1)`, NULL when that branch has no row.  *)
Link(i) == out[ops[i].from].row.id

(* A branch with a version guard finds its row in the snapshot, and writes *)
(* it if it is still that row in that version and no other branch wrote it.*)
Hits(i) ==
  LET k == ops[i].key
  IN  /\ snap[k].there /\ snap[k].ver = ops[i].ver
      /\ table[k].id = snap[k].id /\ table[k].ver = ops[i].ver
      /\ WroteKey(k) = {}

(* The next version of a row. *)
Revised(row, deleted, link) ==
  [there |-> row.there, id |-> row.id, ver |-> row.ver + 1, deleted |-> deleted, link |-> link]

(* What operation i makes of a row. *)
Made(i, row) ==
  CASE ops[i].kind = "hardDelete" -> row
    [] ops[i].kind = "update"     ->
         Revised(row, row.deleted, IF ops[i].from > 0 THEN Link(i) ELSE row.link)
    [] OTHER                      -> Revised(row, ops[i].kind = "delete", row.link)

RunGuarded(i) ==
  /\ CanRun(i) /\ ops[i].kind \in Guarded
  /\ Hits(i)
  /\ Returns(i, Made(i, table[ops[i].key]))
  /\ UNCHANGED <<table, nextId, state, ops, snap>>

(* MUTANT of AbortCode: the arms of the CASE are swapped. *)
AbortCodeSwapped(i) == IF snap[ops[i].key].there THEN "ERR03" ELSE "ERR01"

(* The `matched` branch tells a stale row from a vanished one. *)
AbortCode(i) == IF snap[ops[i].key].there THEN "ERR01" ELSE "ERR03"

(* MUTANT of GuardedMisses: update() is registered without abort branch. *)
GuardedMissesUnnoticed(i) ==
  /\ CanRun(i) /\ ops[i].kind \in Guarded
  /\ ~Hits(i)
  /\ IF ops[i].kind = "update" THEN Returns(i, NoRow) ELSE Raises(AbortCode(i))
  /\ UNCHANGED <<table, nextId, state, ops, snap>>

GuardedMisses(i) ==
  /\ CanRun(i) /\ ops[i].kind \in Guarded
  /\ ~Hits(i)
  /\ Raises(AbortCode(i))
  /\ UNCHANGED <<table, nextId, state, ops, snap>>

(* add() in raise mode first looks for a conflict in the snapshot. *)
AddConflicts(i) ==
  /\ CanRun(i) /\ ops[i].kind = "add" /\ ops[i].strict
  /\ snap[ops[i].key].there
  /\ Raises(IF snap[ops[i].key].deleted THEN "ERR05" ELSE "ERR04")
  /\ UNCHANGED <<table, nextId, state, ops, snap>>

RunAdd(i) ==
  LET k == ops[i].key
  IN  /\ CanRun(i) /\ ops[i].kind = "add"
      /\ ops[i].strict => ~snap[k].there
      /\ ~Current(k).there
      /\ Returns(i, Present(nextId, 1, FALSE, IF ops[i].from > 0 THEN Link(i) ELSE 0))
      /\ nextId' = nextId + 1
      /\ UNCHANGED <<table, state, ops, snap>>

(* ON CONFLICT DO NOTHING: against a row that came after the snapshot, or, *)
(* in ignore mode, any row.                                                *)
AddSkips(i) ==
  LET k == ops[i].key
  IN  /\ CanRun(i) /\ ops[i].kind = "add"
      /\ ops[i].strict => ~snap[k].there
      /\ Current(k).there
      /\ IF ops[i].strict THEN Raises("ERR04") ELSE Returns(i, NoRow)
      /\ UNCHANGED <<table, nextId, state, ops, snap>>

(* A finder sees the snapshot, and of it the rows that are not deleted. *)
RunFind(i) ==
  LET found == snap[ops[i].key].there /\ ~snap[ops[i].key].deleted
  IN  /\ CanRun(i) /\ ops[i].kind = "find"
      /\ CASE found                   -> Returns(i, snap[ops[i].key])
           [] ~found /\ ops[i].strict -> Raises("ERR03")
           [] OTHER                   -> Returns(i, NoRow)
      /\ UNCHANGED <<table, nextId, state, ops, snap>>

(***************************************************************************)
(* The end of the statement                                                *)
(***************************************************************************)

(* The handle of operation i, from the rows of its branch. *)
Finalized(i) ==
  CASE i \notin DOMAIN out -> Empty
    [] ~out[i].row.there   -> Empty
    [] OTHER               -> [is |-> "row", id |-> JsonNumber(out[i].row.id)]

Finished == pc = "run" /\ \A i \in DOMAIN out : out[i].ran

(* commit() resolves; an operation whose rows cannot be converted is the   *)
(* only one to hear of it.                                                 *)
Answer ==
  /\ Finished
  /\ table' = [k \in Keys |-> Current(k)]
  /\ outcome' = "ok"
  /\ pc' = "over"
  /\ \E bad \in SUBSET {i \in DOMAIN ops : Faults} :
       handles' = [i \in DOMAIN ops |-> IF i \in bad THEN Rejected ELSE Finalized(i)]
  /\ UNCHANGED <<nextId, state, ops, snap, out>>

(* The statement is committed and its answer is lost. *)
AnswerLost ==
  /\ Faults /\ Finished
  /\ table' = [k \in Keys |-> Current(k)]
  /\ Fail("unknown")
  /\ UNCHANGED <<nextId, state, ops, snap, out>>

(***************************************************************************)
(* Other clients                                                           *)
(***************************************************************************)

(* Another statement inserts, changes or removes the row of key k after the*)
(* snapshot (what others do before it only makes another Init).  It waits  *)
(* for a row that the deferred statement has written.                      *)
OtherWrite(k) ==
  /\ pc = "run" /\ WroteKey(k) = {}
  /\ \/ /\ ~table[k].there /\ nextId + MaxOps <= MaxId
        /\ table' = [table EXCEPT ![k] = Present(nextId, 1, FALSE, 0)]
        /\ nextId' = nextId + 1
     \/ /\ table[k].there /\ table[k].ver <= MaxVer
        /\ \E gone \in BOOLEAN :
             table' = [table EXCEPT ![k] = Revised(table[k], gone, table[k].link)]
        /\ UNCHANGED nextId
     \/ /\ table[k].there
        /\ table' = [table EXCEPT ![k] = NoRow]
        /\ UNCHANGED nextId
  /\ UNCHANGED <<state, ops, handles, pc, snap, out, outcome>>

Next ==
  \/ \E op \in Requests : Register(op)
  \/ Commit \/ Discard \/ CommitNothing \/ Merge \/ MergeRejects \/ Start \/ StatementFails
  \/ \E i \in DOMAIN out :
       RunGuarded(i) \/ GuardedMisses(i) \/ AddConflicts(i) \/ RunAdd(i) \/ AddSkips(i)
       \/ RunFind(i)
  \/ Answer \/ AnswerLost
  \/ \E k \in Keys : OtherWrite(k)

Spec == Init /\ [][Next]_vars

(***************************************************************************)
(* Properties                                                              *)
(***************************************************************************)

(* The operations that wrote: all but the adds that were skipped. *)
Effective == {i \in DOMAIN out : out[i].row.there /\ ops[i].kind \in Writes}

(* No key has an add in ignore mode together with another write.           *)
Separate ==
  \A i, j \in DOMAIN ops :
    i # j /\ ops[i].kind = "add" /\ ~ops[i].strict /\ ops[j].kind \in Writes =>
      ops[i].key # ops[j].key

(* The step does what one operation after the other would have done, in    *)
(* this order or any: every operation that had to write did, each on a key *)
(* of its own, on the row that its guard names and as it is in the table at*)
(* that moment, and a ref() carries the id of the row that the other       *)
(* operation returned.                                                     *)
Serially ==
  /\ \A i \in DOMAIN ops : ops[i].kind \in Writes /\ ops[i].strict => i \in Effective
  /\ \A i, j \in Effective : ops[i].key = ops[j].key => i = j
  /\ \A i \in Effective :
       LET k == ops[i].key
       IN  CASE ops[i].kind = "hardDelete" -> table[k].ver = ops[i].ver /\ ~table'[k].there
             [] ops[i].kind = "add" -> ~table[k].there /\ table'[k] = out[i].row
             [] OTHER -> table[k].ver = ops[i].ver /\ table'[k] = Made(i, table[k])
  /\ \A k \in Keys : (\A i \in Effective : ops[i].key # k) => table'[k] = table[k]

(* The statement of a deferred transaction, whose branches see one snapshot*)
(* while others write, commits only if it comes to one operation after the *)
(* other (abortSpec 858-873, commit 687-741).                              *)
CommitIsSerial == [][pc = "run" /\ outcome' \in {"ok", "unknown"} /\ Separate => Serially]_vars

(* When commit() or discard() is over, no handle is left pending.          *)
HandlesSettle == pc = "over" => \A i \in DOMAIN handles : handles[i].is # "pending"

(* A handle tells what happened to its operation: one with a row or without*)
(* one ran in the committed statement, and the id is that of the row, as   *)
(* long as a double can hold it; one that is rejected did nothing, unless a*)
(* fault came after the commit (commit 687-741, rehydrateValue 329-341).   *)
HandlesTellTheTruth ==
  \A i \in DOMAIN handles :
    /\ handles[i].is \in {"row", "empty"} => outcome = "ok" /\ i \in DOMAIN out
    /\ handles[i].is = "row" =>
         out[i].row.there /\ handles[i].id \in {out[i].row.id, JsonNumber(out[i].row.id)}
    /\ handles[i].is = "row" /\ handles[i].id # out[i].row.id =>
         out[i].row.id > Exact /\ out[i].row.id % 2 = 1
    /\ handles[i].is = "empty" => ~ops[i].strict
    /\ handles[i].is = "rejected" /\ ~Faults => outcome # "ok"

(* The code of an abort is deserved: ERR01 says that the row is there and  *)
(* is not, or not any more, the one that the caller read, or that another  *)
(* operation of the buffer writes it; ERR03 that there was none to write or*)
(* to find; ERR04 and ERR05 that the key is taken.                         *)
AbortsAreDeserved ==
  /\ outcome = "ERR01" =>
       \E i \in DOMAIN ops :
         /\ ops[i].kind \in Guarded /\ snap[ops[i].key].there
         /\ \/ ops[i].ver \notin {snap[ops[i].key].ver} \cap {table[ops[i].key].ver}
            \/ table[ops[i].key].id # snap[ops[i].key].id
            \/ \E j \in DOMAIN ops : i # j /\ ops[j].kind \in Writes /\ ops[j].key = ops[i].key
  /\ outcome = "ERR03" =>
       \E i \in DOMAIN ops : ops[i].kind # "add" /\ (snap[ops[i].key].there => snap[ops[i].key].deleted)
  /\ outcome \in {"ERR04", "ERR05"} =>
       \E i \in DOMAIN ops :
         /\ ops[i].kind = "add"
         /\ \/ snap[ops[i].key].there \/ table[ops[i].key].there
            \/ \E j \in DOMAIN ops : i # j /\ ops[j].kind = "add" /\ ops[j].key = ops[i].key
=============================================================================
