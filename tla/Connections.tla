----------------------------- MODULE Connections -----------------------------
(***************************************************************************)
(* The pooled connections of a Dal, and the calls that take one: single    *)
(* statements, dal.transaction, the statements sent through withClient     *)
(* (deferred transactions, partition maintenance), bulk writes and streams.*)
(*                                                                         *)
(* What a call does with its rows is left out.  A connection is a session: *)
(* a transaction open in it, its statement_timeout, and whether it is up.  *)
(* pg.Pool is modelled as the code uses it: connect() waits for a free     *)
(* slot until connectionTimeoutMillis, and release() keeps a session as it *)
(* is unless its connection is known to be broken.                         *)
(***************************************************************************)
EXTENDS Naturals, FiniteSets

CONSTANTS
  Callers,    \* concurrent calls of the data layer
  Slots,      \* connections of the pool (`max`)
  Free,       \* owner of a connection that is in the pool
  Lost,       \* owner of a connection that nobody will give back
  Kinds,      \* the calls made: query, stream, client, unit, bulk
  Dies,       \* connections may break, in a process that survives it
  BadBudgets, \* the server may reject a timeoutMs, say one above 2^31 - 1
  Swallows    \* the callback of a transaction may catch an error and return

ASSUME ConnectionsAssumption ==
  /\ Kinds \subseteq {"query", "stream", "client", "unit", "bulk"}
  /\ Free \notin Callers /\ Lost \notin Callers /\ Free # Lost
  /\ Callers # {} /\ Slots # {}
  /\ {Dies, BadBudgets, Swallows} \subseteq BOOLEAN

VARIABLES
  slot,      \* slot[s]: owner, open transaction, statement_timeout, connection up
  pc,        \* pc[c]: the next step of c's call
  call,      \* call[c]: kind of c's last call, and whether it has a timeoutMs
  at,        \* at[c]: the connections c holds: one or none
  result,    \* result[c]: outcome of c's last call, set when it is decided
  faulty,    \* faulty[c]: something failed during that call (history)
  committed, \* committed[c]: the server committed that call's writes (history)
  leakedBy   \* kinds of the calls that lost a connection (history)

vars == <<slot, pc, call, at, result, faulty, committed, leakedBy>>

Steps == {"idle", "connect", "begin", "local", "set", "body", "nested", "commit",
          "rollback", "reset"}

(* What onConnect makes of a new connection; an empty slot is one to come. *)
Fresh == [owner |-> Free, tx |-> "none", timeout |-> "default", up |-> TRUE]

TypeOK ==
  /\ slot \in [Slots -> [owner : Callers \cup {Free, Lost}, tx : {"none", "open", "failed"},
                         timeout : {"default", "call"}, up : BOOLEAN]]
  /\ pc \in [Callers -> Steps]
  /\ call \in [Callers -> [kind : Kinds \cup {"none"}, timed : BOOLEAN]]
  /\ at \in [Callers -> SUBSET Slots]
  /\ result \in [Callers -> {"none", "ok", "error", "doubt"}]
  /\ faulty \in [Callers -> BOOLEAN]
  /\ committed \in [Callers -> BOOLEAN]
  /\ leakedBy \subseteq Kinds

Init ==
  /\ slot = [s \in Slots |-> Fresh]
  /\ pc = [c \in Callers |-> "idle"]
  /\ call = [c \in Callers |-> [kind |-> "none", timed |-> FALSE]]
  /\ at = [c \in Callers |-> {}]
  /\ result = [c \in Callers |-> "none"]
  /\ faulty = [c \in Callers |-> FALSE]
  /\ committed = [c \in Callers |-> FALSE]
  /\ leakedBy = {}

(***************************************************************************)
(* Parts of the steps                                                      *)
(***************************************************************************)

Up(c) == \A s \in at[c] : slot[s].up
Tx(c) == IF \E s \in at[c] : slot[s].tx = "failed" THEN "failed" ELSE "open"

(* c's session, if its connection is up, goes into this transaction state. *)
InTx(c, tx) ==
  slot' = [s \in Slots |-> IF s \in at[c] /\ slot[s].up THEN [slot[s] EXCEPT !.tx = tx]
                           ELSE slot[s]]

Goto(c, step) == pc' = [pc EXCEPT ![c] = step]

(* Something failed in c's call, and its promise will reject. *)
Fault(c) ==
  /\ faulty' = [faulty EXCEPT ![c] = TRUE]
  /\ result' = [result EXCEPT ![c] = IF @ = "doubt" THEN @ ELSE "error"]

(* A session whose connection breaks; the server rolls back its transaction.*)
Broken(session) == [owner |-> session.owner, tx |-> "none", timeout |-> session.timeout,
                    up |-> FALSE]

(* A session after release(): a broken connection leaves the pool. *)
Released(session) ==
  IF session.up THEN [session EXCEPT !.owner = Free] ELSE Fresh

(* c's call ends: client.release(), with its session as in `after`. *)
GiveBack(c, after) ==
  /\ slot' = [s \in Slots |-> IF s \in at[c] THEN Released(after[s]) ELSE slot[s]]
  /\ at' = [at EXCEPT ![c] = {}]
  /\ Goto(c, "idle")
  /\ UNCHANGED leakedBy

(* The sessions without a transaction, or with the session default restored.*)
NoTx == [s \in Slots |-> [slot[s] EXCEPT !.tx = "none"]]
DefaultTimeout == [s \in Slots |-> [slot[s] EXCEPT !.timeout = "default"]]

(* c's call ends by an error thrown past its release(). *)
Escape(c) ==
  /\ slot' = [s \in Slots |-> IF s \in at[c] THEN [slot[s] EXCEPT !.owner = Lost]
                              ELSE slot[s]]
  /\ at' = [at EXCEPT ![c] = {}]
  /\ leakedBy' = leakedBy \cup {call[c].kind}
  /\ Goto(c, "idle")

(***************************************************************************)
(* Acquiring a connection                                                  *)
(***************************************************************************)

Call(c, kind, timed) ==
  /\ pc[c] = "idle"
  /\ kind \in {"query", "stream"} => ~timed
  /\ call' = [call EXCEPT ![c] = [kind |-> kind, timed |-> timed]]
  /\ result' = [result EXCEPT ![c] = "none"]
  /\ faulty' = [faulty EXCEPT ![c] = FALSE]
  /\ committed' = [committed EXCEPT ![c] = FALSE]
  /\ Goto(c, "connect")
  /\ UNCHANGED <<slot, at, leakedBy>>

(* pool.connect() hands out a free connection; it may be broken unnoticed. *)
Connect(c, s) ==
  /\ pc[c] = "connect" /\ slot[s].owner = Free
  /\ slot' = [slot EXCEPT ![s].owner = c]
  /\ at' = [at EXCEPT ![c] = {s}]
  /\ Goto(c, CASE call[c].kind \in {"unit", "bulk"}         -> "begin"
               [] call[c].kind = "client" /\ call[c].timed  -> "set"
               [] OTHER                                     -> "body")
  /\ UNCHANGED <<call, result, faulty, committed, leakedBy>>

Exhausted == \A s \in Slots : slot[s].owner # Free

(* connectionTimeoutMillis runs out. *)
ConnectTimesOut(c) ==
  /\ pc[c] = "connect" /\ Exhausted
  /\ Fault(c)
  /\ Goto(c, "idle")
  /\ UNCHANGED <<slot, call, at, committed, leakedBy>>

(***************************************************************************)
(* Transactions: dal.transaction ("unit") and bulkBegin ("bulk")           *)
(***************************************************************************)

Begin(c) ==
  /\ pc[c] = "begin" /\ Up(c)
  /\ InTx(c, "open")
  /\ Goto(c, IF call[c].timed THEN "local" ELSE "body")
  /\ UNCHANGED <<call, at, result, faulty, committed, leakedBy>>

(* BEGIN rejects: withClient's finally releases; bulkBegin runs before the *)
(* try whose finally would.                                                *)
BeginRejects(c) ==
  /\ pc[c] = "begin" /\ ~Up(c)
  /\ Fault(c)
  /\ IF call[c].kind = "unit" THEN GiveBack(c, slot) ELSE Escape(c)
  /\ UNCHANGED <<call, committed>>

(* SET LOCAL statement_timeout *)
SetLocal(c) ==
  /\ pc[c] = "local" /\ Up(c)
  /\ Goto(c, "body")
  /\ UNCHANGED <<slot, call, at, result, faulty, committed, leakedBy>>

(* MUTANT of SetLocalRejects: transaction() sets the budget before its try. *)
SetLocalRejectsOutside(c) ==
  /\ pc[c] = "local" /\ (~Up(c) \/ BadBudgets)
  /\ Fault(c)
  /\ Escape(c)
  /\ UNCHANGED <<call, committed>>

(* The server rejects the budget, or is gone. *)
SetLocalRejects(c) ==
  /\ pc[c] = "local" /\ (~Up(c) \/ BadBudgets)
  /\ Fault(c)
  /\ \/ /\ call[c].kind = "unit"
        /\ InTx(c, "failed")
        /\ Goto(c, "rollback")
        /\ UNCHANGED <<at, leakedBy>>
     \/ /\ call[c].kind = "bulk"
        /\ Escape(c)
  /\ UNCHANGED <<call, committed>>

(* The callback returns, or the bulk write has sent its last statement. *)
TxWork(c) ==
  /\ pc[c] = "body" /\ call[c].kind \in {"unit", "bulk"}
  /\ call[c].kind = "bulk" => Up(c)
  /\ Goto(c, "commit")
  /\ UNCHANGED <<slot, call, at, result, faulty, committed, leakedBy>>

(* A statement of the transaction fails, or its budget is over; the error  *)
(* goes to the catch that rolls back, unless the callback swallows it.     *)
TxWorkFails(c) ==
  /\ pc[c] = "body" /\ call[c].kind \in {"unit", "bulk"}
  /\ InTx(c, "failed")
  /\ \/ Fault(c) /\ Goto(c, "rollback")
     \/ /\ Swallows /\ call[c].kind = "unit"
        /\ faulty' = [faulty EXCEPT ![c] = TRUE]
        /\ UNCHANGED <<pc, result>>
  /\ UNCHANGED <<call, at, committed, leakedBy>>

(* The callback calls a bulk write, or a stream, of its tx-scoped          *)
(* repository: that has a `connect`, which rejects on a connected client.  *)
BulkInTransaction(c) ==
  /\ pc[c] = "body" /\ call[c].kind = "unit"
  /\ result' = [result EXCEPT ![c] = "error"]
  /\ Goto(c, "rollback")
  /\ UNCHANGED <<slot, call, at, faulty, committed, leakedBy>>

(* The callback awaits an operation of the pool: a second connection. *)
Nest(c) ==
  /\ pc[c] = "body" /\ call[c].kind = "unit"
  /\ Goto(c, "nested")
  /\ UNCHANGED <<slot, call, at, result, faulty, committed, leakedBy>>

NestedServed(c) ==
  /\ pc[c] = "nested" /\ ~Exhausted
  /\ Goto(c, "body")
  /\ UNCHANGED <<slot, call, at, result, faulty, committed, leakedBy>>

(* MUTANT of NestedTimesOut: connectionTimeoutMillis is 0, wait for ever. *)
NestedTimesOutNever(c) == FALSE

NestedTimesOut(c) ==
  /\ pc[c] = "nested" /\ Exhausted
  /\ Fault(c)
  /\ Goto(c, "rollback")
  /\ UNCHANGED <<slot, call, at, committed, leakedBy>>

(* COMMIT; in a failed transaction PostgreSQL rolls back and answers       *)
(* without an error.                                                       *)
Commit(c) ==
  /\ pc[c] = "commit" /\ Up(c)
  /\ committed' = [committed EXCEPT ![c] = Tx(c) = "open"]
  /\ result' = [result EXCEPT ![c] = "ok"]
  /\ GiveBack(c, NoTx)
  /\ UNCHANGED <<call, faulty>>

(* MUTANT of CommitRejects: the answer to COMMIT is not awaited. *)
CommitUnawaited(c) ==
  /\ pc[c] = "commit"
  /\ result' = [result EXCEPT ![c] = "ok"]
  /\ GiveBack(c, NoTx)
  /\ UNCHANGED <<call, faulty, committed>>

(* COMMIT fails, by a deferred constraint or a connection that is gone. *)
CommitRejects(c) ==
  /\ pc[c] = "commit"
  /\ InTx(c, "none")
  /\ Fault(c)
  /\ Goto(c, "rollback")
  /\ UNCHANGED <<call, at, committed, leakedBy>>

(* COMMIT runs and its answer is lost with the connection. *)
CommitUnanswered(c) ==
  /\ Dies /\ pc[c] = "commit" /\ Up(c)
  /\ committed' = [committed EXCEPT ![c] = Tx(c) = "open"]
  /\ slot' = [s \in Slots |-> IF s \in at[c] THEN Broken(slot[s]) ELSE slot[s]]
  /\ result' = [result EXCEPT ![c] = "doubt"]
  /\ faulty' = [faulty EXCEPT ![c] = TRUE]
  /\ Goto(c, "rollback")
  /\ UNCHANGED <<call, at, leakedBy>>

(* MUTANT of Rollback: the bulk write releases without ROLLBACK. *)
RollbackForgotten(c) ==
  /\ pc[c] = "rollback"
  /\ GiveBack(c, slot)
  /\ UNCHANGED <<call, result, faulty, committed>>

(* ROLLBACK, whose error is swallowed, and release(). *)
Rollback(c) ==
  /\ pc[c] = "rollback"
  /\ GiveBack(c, NoTx)
  /\ UNCHANGED <<call, result, faulty, committed>>

(***************************************************************************)
(* Statements of their own: pool.query, streams, and withClient            *)
(***************************************************************************)

(* SET statement_timeout of withClient *)
SetTimeout(c) ==
  /\ pc[c] = "set" /\ Up(c)
  /\ slot' = [s \in Slots |-> IF s \in at[c] THEN [slot[s] EXCEPT !.timeout = "call"]
                              ELSE slot[s]]
  /\ Goto(c, "body")
  /\ UNCHANGED <<call, at, result, faulty, committed, leakedBy>>

SetTimeoutRejects(c) ==
  /\ pc[c] = "set" /\ (~Up(c) \/ BadBudgets)
  /\ Fault(c)
  /\ Goto(c, "reset")
  /\ UNCHANGED <<slot, call, at, committed, leakedBy>>

(* The statement is executed, or the consumer of the stream stops.         *)
Work(c) ==
  /\ pc[c] = "body" /\ call[c].kind \in {"query", "stream", "client"} /\ Up(c)
  /\ committed' = [committed EXCEPT ![c] = TRUE]
  /\ result' = [result EXCEPT ![c] = "ok"]
  /\ IF call[c].timed THEN Goto(c, "reset") /\ UNCHANGED <<slot, at, leakedBy>>
     ELSE GiveBack(c, slot)
  /\ UNCHANGED <<call, faulty>>

WorkFails(c) ==
  /\ pc[c] = "body" /\ call[c].kind \in {"query", "stream", "client"}
  /\ Fault(c)
  /\ IF call[c].timed THEN Goto(c, "reset") /\ UNCHANGED <<slot, at, leakedBy>>
     ELSE GiveBack(c, slot)
  /\ UNCHANGED <<call, committed>>

(* The finally of withClient sets the session default, then releases. *)
Reset(c) ==
  /\ pc[c] = "reset" /\ Up(c)
  /\ GiveBack(c, DefaultTimeout)
  /\ UNCHANGED <<call, result, faulty, committed>>

(* It rejects on a broken connection, and release() is not reached. *)
ResetRejects(c) ==
  /\ pc[c] = "reset" /\ ~Up(c)
  /\ Fault(c)
  /\ Escape(c)
  /\ UNCHANGED <<call, committed>>

(***************************************************************************)
(* Connections                                                             *)
(***************************************************************************)

Die(s) ==
  /\ Dies /\ slot[s].up
  /\ slot' = [slot EXCEPT ![s] = Broken(@)]
  /\ UNCHANGED <<pc, call, at, result, faulty, committed, leakedBy>>

(* The pool notices that an idle connection is broken. *)
Discard(s) ==
  /\ slot[s].owner = Free /\ ~slot[s].up
  /\ slot' = [slot EXCEPT ![s] = Fresh]
  /\ UNCHANGED <<pc, call, at, result, faulty, committed, leakedBy>>

Step(c) ==
  \/ \E s \in Slots : Connect(c, s)
  \/ ConnectTimesOut(c) \/ Begin(c) \/ BeginRejects(c) \/ SetLocal(c) \/ SetLocalRejects(c)
  \/ TxWork(c) \/ TxWorkFails(c) \/ NestedServed(c) \/ NestedTimesOut(c)
  \/ Commit(c) \/ CommitRejects(c) \/ CommitUnanswered(c) \/ Rollback(c)
  \/ SetTimeout(c) \/ SetTimeoutRejects(c) \/ Work(c) \/ WorkFails(c)
  \/ Reset(c) \/ ResetRejects(c)

Next ==
  \/ \E c \in Callers :
       \/ Step(c) \/ BulkInTransaction(c) \/ Nest(c)
       \/ \E kind \in Kinds, timed \in BOOLEAN : Call(c, kind, timed)
  \/ \E s \in Slots : Die(s) \/ Discard(s)

Spec == Init /\ [][Next]_vars

(* Statements are answered or time out, a connection is waited for no      *)
(* longer than connectionTimeoutMillis, and callbacks and the consumers of *)
(* streams come to an end, whatever they do before.                        *)
Fairness == \A c \in Callers : WF_vars(Step(c)) /\ SF_vars(TxWork(c))

FairSpec == Spec /\ Fairness

(***************************************************************************)
(* Properties                                                              *)
(***************************************************************************)

(* The next call finds a session as onConnect left it: no transaction of a *)
(* former call, no timeout of its own (SET LOCAL of transaction and of     *)
(* bulkBegin, the finally of withClient).                                  *)
SessionsAreClean ==
  \A s \in Slots : slot[s].owner = Free /\ slot[s].up =>
    slot[s].tx = "none" /\ slot[s].timeout = "default"

(* What the promise of a call tells is what the server did: no transaction *)
(* or bulk write that rejects has been committed, the case of a COMMIT     *)
(* whose answer was lost left aside; and none that resolves has not.       *)
OutcomesAreTrue ==
  \A c \in Callers : pc[c] = "idle" =>
    /\ result[c] = "ok" => committed[c]
    /\ result[c] = "error" /\ call[c].kind \in {"unit", "bulk"} => ~committed[c]

(* dal.transaction, pool queries and streams always give their connection  *)
(* back (dal.ts 622-637 and the finally of streaming.ts).                  *)
TransactionsNeverLeak == leakedBy \subseteq {"client", "bulk"}

(* Every call ends, even when all the connections are held by transactions *)
(* whose callbacks wait for a second one, or are lost: the acquisition     *)
(* timeout ends the wait.                                                  *)
CallsEnd == \A c \in Callers : pc[c] # "idle" ~> pc[c] = "idle"

(* No call, however it fails, keeps its connection from the pool.          *)
NoConnectionIsLost == \A s \in Slots : slot[s].owner # Lost
=============================================================================
