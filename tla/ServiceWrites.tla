---------------------------- MODULE ServiceWrites ----------------------------
(***************************************************************************)
(* EntityService: the writes of an entity with their audit rows and their  *)
(* afterWrite hooks, inside and outside the transactions of the callers.   *)
(*                                                                         *)
(* create and update take the repository of the caller's transaction.  The *)
(* other operations have no such parameter, and the audit port writes by   *)
(* the root repository always: what they do is committed at once, on a     *)
(* connection of its own, which waits for the rows of open transactions -  *)
(* those of its own caller too, who waits for it.                          *)
(*                                                                         *)
(* Every write has a number, its place in `log`; audit rows and hooks are  *)
(* the numbers of the writes they tell of.                                 *)
(***************************************************************************)
EXTENDS Naturals, Sequences, FiniteSets

CONSTANTS
  Callers,   \* concurrent requests of the service
  Keys,      \* uuids
  Ops,       \* the operations that are called
  MaxVer,    \* bound: rows beyond this version are not changed
  MaxWrites, \* bound: writes made and operations under way
  Faults     \* audit rows are lost, hooks throw

ASSUME ServiceAssumption ==
  /\ Ops \subseteq {"create", "update", "delete", "restore", "purge", "duplicate",
                    "bulkDelete", "bulkRestore"}
  /\ IsFiniteSet(Keys)
  /\ MaxVer \in Nat /\ MaxWrites \in Nat /\ Faults \in BOOLEAN

VARIABLES
  rows,    \* rows[k]: the committed row, of version 0 if there is none
  tx,      \* tx[c]: the transaction of c: none, open, or failed by an error
  over,    \* over[c]: the rows as c's transaction has written them
  call,    \* call[c]: the operation that c awaits
  log,     \* all writes so far
  flight,  \* writes whose audit row is under way
  trail,   \* writes in the audit table
  fired,   \* writes that an afterWrite hook was told of
  told     \* told[c]: what the last step has told c

vars == <<rows, tx, over, call, log, flight, trail, fired, told>>

Row == [ver : Nat, deleted : BOOLEAN]
NoRow == [ver |-> 0, deleted |-> FALSE]
AsBefore == [ver |-> 0, deleted |-> TRUE]   \* in over: not written

Single == {"create", "update", "delete", "restore", "purge"}
Bulk == {"bulkDelete", "bulkRestore"}

(* todo: the rows to write, with vers[k] the version of k that the caller  *)
(* has read; via: the caller passed the repository of its transaction; made*)
(* and bad: the writes made, and the uuids that duplicate could not clone, *)
(* of the `asked` ones; hook: the afterWrite hook is running.              *)
Call == [op : Ops, vers : UNION {[ks -> 0 .. MaxVer] : ks \in SUBSET Keys}, todo : SUBSET Keys, via : BOOLEAN,
         made : SUBSET Nat, bad : SUBSET Keys, asked : Nat, hook : BOOLEAN]
NoCall == [op |-> "none"]

(* The call k goes on. *)
Goes(k, todo, made, bad, hook) ==
  [op |-> k.op, vers |-> k.vers, todo |-> todo, via |-> k.via, made |-> made, bad |-> bad,
   asked |-> k.asked, hook |-> hook]

Write == [op : Ops, key : Keys, ver : Nat, by : Callers, via : BOOLEAN,
          fate : {"open", "committed", "undone"}]

Answers == {"none", "ok", "error", "rolledback", "hookfailed"}

NoNews == [c \in Callers |-> "none"]

TypeOK ==
  /\ rows \in [Keys -> Row]
  /\ tx \in [Callers -> {"none", "open", "failed"}]
  /\ over \in [Callers -> [Keys -> Row]]
  /\ call \in [Callers -> Call \cup {NoCall}]
  /\ log \in Seq(Write)
  /\ flight \subseteq DOMAIN log /\ trail \subseteq DOMAIN log /\ fired \subseteq DOMAIN log
  /\ told \in [Callers -> Answers]

NothingOver == [k \in Keys |-> AsBefore]

Init ==
  /\ rows \in [Keys -> {NoRow, [ver |-> 1, deleted |-> FALSE]}]
  /\ tx = [c \in Callers |-> "none"]
  /\ over = [c \in Callers |-> NothingOver]
  /\ call = [c \in Callers |-> NoCall]
  /\ log = <<>>
  /\ flight = {} /\ trail = {} /\ fired = {}
  /\ told = NoNews

(***************************************************************************)
(* Rows                                                                    *)
(***************************************************************************)

Idle(c) == call[c] = NoCall

(* repoFor: c's operation writes in c's transaction. *)
Via(c) == call[c].via

(* The row as c's statement sees it. *)
Seen(c, k) == IF Via(c) /\ over[c][k] # AsBefore THEN over[c][k] ELSE rows[k]

(* An open transaction other than the one c's statement is in has row k. *)
Locked(c, k) == \E x \in Callers : over[x][k] # AsBefore /\ ~(x = c /\ Via(c))

(* The guard of an operation on a row with the version that was read. *)
Hits(op, row, ver) ==
  IF op = "create" THEN row.ver = 0 ELSE row.ver > 0 /\ row.ver = ver

After(op, row) ==
  CASE op = "purge"                      -> NoRow
    [] op \in {"delete", "bulkDelete"}   -> [ver |-> row.ver + 1, deleted |-> TRUE]
    [] op \in {"restore", "bulkRestore"} -> [ver |-> row.ver + 1, deleted |-> FALSE]
    [] OTHER                             -> [ver |-> row.ver + 1, deleted |-> row.deleted]

Logged(c, op, k, ver, fate) ==
  Append(log, [op |-> op, key |-> k, ver |-> ver, by |-> c, via |-> call[c].via,
               fate |-> fate])

Next1 == Len(log) + 1

Ends(c, answer) ==
  /\ call' = [call EXCEPT ![c] = NoCall]
  /\ told' = [NoNews EXCEPT ![c] = answer]

(***************************************************************************)
(* Callers                                                                 *)
(***************************************************************************)

BeginTx(c) ==
  /\ tx[c] = "none" /\ Idle(c)
  /\ tx' = [tx EXCEPT ![c] = "open"]
  /\ told' = NoNews
  /\ UNCHANGED <<rows, over, call, log, flight, trail, fired>>

(* What the caller has read of the rows it names. *)
Versions(op) == IF op \in {"create", "duplicate"} THEN {0} ELSE 1 .. MaxVer

(* A single-row operation is called with one row, duplicate and the bulk   *)
(* operations with one or several.                                         *)
Request(c, op, vers, via) ==
  /\ Idle(c) /\ Len(log) + Cardinality({x \in Callers : ~Idle(x)}) < MaxWrites
  /\ op \in Single => Cardinality(DOMAIN vers) = 1
  /\ via => tx[c] # "none" /\ op \in {"create", "update"}
  /\ call' = [call EXCEPT ![c] =
       [op |-> op, vers |-> vers, todo |-> DOMAIN vers, via |-> via, made |-> {}, bad |-> {},
        asked |-> Cardinality(DOMAIN vers), hook |-> FALSE]]
  /\ told' = NoNews
  /\ UNCHANGED <<rows, tx, over, log, flight, trail, fired>>

(***************************************************************************)
(* create, update, delete, restore, purge                                  *)
(***************************************************************************)

Asked(c, k) == k \in call[c].todo /\ ~call[c].hook
TxFailed(c) == Via(c) /\ tx[c] = "failed"

(* MUTANT of Returns: the hook is told of writes in a transaction, too. *)
ReturnsAlways(c) ==
  /\ call' = [call EXCEPT ![c] = Goes(@, @.todo, {Next1}, @.bad, TRUE)]
  /\ told' = NoNews

(* The statement has returned its row: a write of no transaction goes on to*)
(* the hook.                                                               *)
Returns(c) ==
  IF call[c].via THEN Ends(c, "ok")
  ELSE /\ call' = [call EXCEPT ![c] = Goes(@, @.todo, {Next1}, @.bad, TRUE)]
       /\ told' = NoNews

(* The row is written, and its audit row is sent off, not awaited. *)
WriteHits(c, k) ==
  LET op == call[c].op
      row == After(op, Seen(c, k))
  IN  /\ op \in Single /\ Asked(c, k) /\ ~TxFailed(c) /\ ~Locked(c, k)
      /\ Hits(op, Seen(c, k), call[c].vers[k])
      /\ IF Via(c) THEN over' = [over EXCEPT ![c][k] = row] /\ UNCHANGED rows
                   ELSE rows' = [rows EXCEPT ![k] = row] /\ UNCHANGED over
      /\ log' = Logged(c, op, k, row.ver, IF Via(c) THEN "open" ELSE "committed")
      /\ flight' = flight \cup {Next1}
      /\ Returns(c)
      /\ UNCHANGED <<tx, trail, fired>>

(* ERR01, ERR03 or ERR04.  All but ERR03 are raised by PostgreSQL, which   *)
(* fails the transaction; and in one that has failed, every statement does.*)
WriteMisses(c, k) ==
  /\ call[c].op \in Single /\ Asked(c, k)
  /\ TxFailed(c) \/ ~Hits(call[c].op, Seen(c, k), call[c].vers[k])
  /\ tx' = [tx EXCEPT ![c] = IF Via(c) /\ Seen(c, k).ver > 0 THEN "failed" ELSE @]
  /\ Ends(c, "error")
  /\ UNCHANGED <<rows, over, log, flight, trail, fired>>

(* MUTANT of TimesOut: statement_timeout is 0. *)
TimesOutNever(c, k) == Locked(c, k) /\ ~Asked(c, k) /\ UNCHANGED vars

(* statement_timeout (or the deadlock detector) ends a statement that waits*)
(* for a row.                                                              *)
TimesOut(c, k) ==
  /\ call[c].op \in Single \cup Bulk
  /\ Asked(c, k) /\ Locked(c, k)
  /\ tx' = [tx EXCEPT ![c] = IF Via(c) THEN "failed" ELSE @]
  /\ Ends(c, "error")
  /\ UNCHANGED <<rows, over, log, flight, trail, fired>>

(***************************************************************************)
(* afterWrite                                                              *)
(***************************************************************************)

HookReturns(c) ==
  /\ call[c] # NoCall /\ call[c].hook
  /\ fired' = fired \cup call[c].made
  /\ Ends(c, "ok")
  /\ UNCHANGED <<rows, tx, over, log, flight, trail>>

(* The hook is awaited: what it throws is the answer to the write. *)
HookThrows(c) ==
  /\ Faults /\ call[c] # NoCall /\ call[c].hook
  /\ fired' = fired \cup call[c].made
  /\ Ends(c, "hookfailed")
  /\ UNCHANGED <<rows, tx, over, log, flight, trail>>

(***************************************************************************)
(* bulkDelete, bulkRestore, duplicate                                      *)
(***************************************************************************)

InOrder(ks) == CHOOSE s \in [1 .. Cardinality(ks) -> ks] : {s[i] : i \in DOMAIN s} = ks

(* The writes of a bulk operation. *)
Bulked(c) ==
  LET ks == InOrder(call[c].todo)
  IN  [i \in DOMAIN ks |-> [op |-> call[c].op, key |-> ks[i], ver |-> rows[ks[i]].ver + 1,
                           by |-> c, via |-> FALSE, fate |-> "committed"]]

(* All rows and their audit rows in one transaction, and no hook. *)
BulkHits(c) ==
  LET op == call[c].op
      ks == call[c].todo
  IN  /\ op \in Bulk
      /\ \A k \in ks : Asked(c, k) /\ ~Locked(c, k) /\ Hits(op, rows[k], call[c].vers[k])
      /\ rows' = [k \in Keys |-> IF k \in ks THEN After(op, rows[k]) ELSE rows[k]]
      /\ log' = log \o Bulked(c)
      /\ trail' = trail \cup (Next1 .. Len(log'))
      /\ Ends(c, "ok")
      /\ UNCHANGED <<tx, over, flight, fired>>

BulkMisses(c) ==
  /\ call[c].op \in Bulk
  /\ \E k \in call[c].todo : ~Hits(call[c].op, rows[k], call[c].vers[k])
  /\ Ends(c, "error")
  /\ UNCHANGED <<rows, tx, over, log, flight, trail, fired>>

(* The committed row k, soft-deleted or not, is copied to a fresh uuid. *)
CloneOne(c, k, new) ==
  /\ call[c].op = "duplicate" /\ k \in call[c].todo
  /\ rows[k].ver > 0
  /\ rows[new].ver = 0 /\ \A x \in Callers : over[x][new] = AsBefore
  /\ rows' = [rows EXCEPT ![new] = [ver |-> 1, deleted |-> FALSE]]
  /\ log' = Logged(c, "duplicate", new, 1, "committed")
  /\ flight' = flight \cup {Next1}
  /\ call' = [call EXCEPT ![c] = Goes(@, @.todo \ {k}, @.made \cup {Next1}, @.bad, @.hook)]
  /\ told' = NoNews
  /\ UNCHANGED <<tx, over, trail, fired>>

(* MUTANT of CloneMisses: the try is around the loop. *)
CloneMissesAll(c, k) ==
  /\ call[c].op = "duplicate" /\ k \in call[c].todo
  /\ call' = [call EXCEPT ![c] = Goes(@, {}, @.made, @.bad \cup {k}, @.hook)]
  /\ told' = NoNews
  /\ UNCHANGED <<rows, tx, over, log, flight, trail, fired>>

(* There is no such row, or the INSERT fails: the error is collected, and  *)
(* the loop goes on.                                                       *)
CloneMisses(c, k) ==
  /\ call[c].op = "duplicate" /\ k \in call[c].todo
  /\ call' = [call EXCEPT ![c] = Goes(@, @.todo \ {k}, @.made, @.bad \cup {k}, @.hook)]
  /\ told' = NoNews
  /\ UNCHANGED <<rows, tx, over, log, flight, trail, fired>>

(* The loop is over: the hook is told of the clones, if there are any. *)
CloneEnds(c) ==
  /\ call[c].op = "duplicate" /\ call[c].todo = {} /\ ~call[c].hook
  /\ IF call[c].made = {} THEN Ends(c, "ok")
     ELSE /\ call' = [call EXCEPT ![c] = Goes(@, @.todo, @.made, @.bad, TRUE)]
          /\ told' = NoNews
  /\ UNCHANGED <<rows, tx, over, log, flight, trail, fired>>

(***************************************************************************)
(* Transactions and audit rows                                             *)
(***************************************************************************)

Settle(c, fate) ==
  /\ log' = [i \in DOMAIN log |->
              IF log[i].by = c /\ log[i].fate = "open" THEN [log[i] EXCEPT !.fate = fate]
              ELSE log[i]]
  /\ over' = [over EXCEPT ![c] = NothingOver]
  /\ tx' = [tx EXCEPT ![c] = "none"]

(* The callback returns: COMMIT.  *)
CommitTx(c) ==
  /\ tx[c] = "open" /\ Idle(c)
  /\ rows' = [k \in Keys |-> IF over[c][k] # AsBefore THEN over[c][k] ELSE rows[k]]
  /\ Settle(c, "committed")
  /\ told' = [NoNews EXCEPT ![c] = "ok"]
  /\ UNCHANGED <<call, flight, trail, fired>>

(* MUTANT of RollbackTx: there is no ROLLBACK, and a later COMMIT on the   *)
(* connection keeps the writes.                                            *)
RollbackTxKeeps(c) ==
  /\ tx[c] # "none" /\ Idle(c)
  /\ rows' = [k \in Keys |-> IF over[c][k] # AsBefore THEN over[c][k] ELSE rows[k]]
  /\ Settle(c, "undone")
  /\ told' = [NoNews EXCEPT ![c] = "rolledback"]
  /\ UNCHANGED <<call, flight, trail, fired>>

(* The callback throws; or it has caught the error of a statement, and the *)
(* COMMIT of the failed transaction rolls back without an error.           *)
RollbackTx(c) ==
  /\ tx[c] # "none" /\ Idle(c)
  /\ Settle(c, "undone")
  /\ \E answer \in {"rolledback"} \cup (IF tx[c] = "failed" THEN {"ok"} ELSE {}) :
       told' = [NoNews EXCEPT ![c] = answer]
  /\ UNCHANGED <<rows, call, flight, trail, fired>>

AuditLands(i) ==
  /\ i \in flight
  /\ flight' = flight \ {i}
  /\ trail' = trail \cup {i}
  /\ told' = NoNews
  /\ UNCHANGED <<rows, tx, over, call, log, fired>>

(* The error of writeAudit is logged, and nobody hears of it. *)
AuditLost(i) ==
  /\ Faults /\ i \in flight
  /\ flight' = flight \ {i}
  /\ told' = NoNews
  /\ UNCHANGED <<rows, tx, over, call, log, trail, fired>>

Step(c) ==
  \/ \E k \in Keys : WriteHits(c, k) \/ WriteMisses(c, k) \/ TimesOut(c, k) \/ CloneMisses(c, k)
  \/ \E k, new \in Keys : CloneOne(c, k, new)
  \/ HookReturns(c) \/ HookThrows(c) \/ BulkHits(c) \/ BulkMisses(c) \/ CloneEnds(c)

Next ==
  \/ \E c \in Callers :
       \/ BeginTx(c) \/ CommitTx(c) \/ RollbackTx(c)
       \/ \E op \in Ops, via \in BOOLEAN, todo \in (SUBSET Keys) \ {{}} :
            \E vers \in [todo -> Versions(op)] : Request(c, op, vers, via)
       \/ call[c] # NoCall /\ Step(c)
  \/ \E i \in flight : AuditLands(i) \/ AuditLost(i)

Spec == Init /\ [][Next]_vars

(***************************************************************************)
(* Properties                                                              *)
(***************************************************************************)

(* docs/dev-guide/entity-service.mdx:123: notifications do not precede the *)
(* durable write.  A hook is told only of writes that are committed        *)
(* (fireAfterWrite, `if (!tx)` 449 and 465).                               *)
HooksFollowCommits == \A i \in fired : log[i].fate = "committed"

(* The writes of a row that have not been undone.                          *)
Standing(k) == {i \in DOMAIN log : log[i].key = k /\ log[i].fate # "undone"}
Done(k) == {i \in DOMAIN log : log[i].key = k /\ log[i].fate = "committed"}

Follows(j, i, S) == i < j /\ \A m \in S : m <= i \/ j <= m
Last(i, S) == \A m \in S : m <= i

(* create and update write in their caller's transaction, delete, restore, *)
(* purge, duplicate and the bulk operations of the same caller outside it, *)
(* and each sends its audit row at once.  Whatever is rolled back, the     *)
(* writes that stand, in the order of their audit rows, are a history of   *)
(* each row: they have every version once, one after the other, and the    *)
(* last of the committed ones left the row as it is (repoFor 305, create   *)
(* to bulkRestore 430-542).                                                *)
HistoriesAreUnbroken ==
  \A k \in Keys :
    /\ \A i, j \in Standing(k) :
         Follows(j, i, Standing(k)) =>
           log[j].ver = IF log[j].op = "purge" THEN 0 ELSE log[i].ver + 1
    /\ \A i \in Done(k) : Last(i, Done(k)) => log[i].ver = rows[k].ver

(* duplicate answers for every uuid it was given: a committed clone, which *)
(* the hook is told of, or an error (duplicate 506-530).                   *)
DuplicatesAreCounted ==
  [][\A c \in Callers :
       LET k == call[c]
       IN  k # NoCall /\ call'[c] = NoCall /\ k.op = "duplicate" =>
             /\ Cardinality(k.made) + Cardinality(k.bad) = k.asked
             /\ k.made \subseteq fired'
             /\ \A i \in k.made : log[i].op = "duplicate" /\ log[i].fate = "committed"]_vars

(* A call can always go on, also one by the callback of a transaction that *)
(* waits for a row of that very transaction: the timeout of its statement  *)
(* is what ends it, as the detector sees an idle client and no cycle.      *)
NoCallIsStuck == \A c \in Callers : call[c] # NoCall => ENABLED Step(c)
=============================================================================
