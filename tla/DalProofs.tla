----------------------------- MODULE DalProofs -----------------------------
(***************************************************************************)
(* Proofs about dal.ts: Connections, any number of calls and of pooled     *)
(* connections, and then DalLifecycle, any number of users of any number   *)
(* of Dals.                                                                *)
(***************************************************************************)
EXTENDS Connections, DalLifecycle, TLAPS

TxKinds == {"unit", "bulk"}
Session == [owner : Callers \cup {Free, Lost}, tx : {"none", "open", "failed"},
            timeout : {"default", "call"}, up : BOOLEAN]

(***************************************************************************)
(* Connections: the inductive invariant                                    *)
(***************************************************************************)

(* Where a call can be, given its kind. *)
KindsInv ==
  \A c \in Callers :
    /\ pc[c] \in {"begin", "local", "nested", "commit", "rollback"} => call[c].kind \in TxKinds
    /\ pc[c] \in {"set", "reset"} => call[c].kind = "client" /\ call[c].timed
    /\ pc[c] # "idle" => call[c].kind \in Kinds
    /\ call[c].timed => call[c].kind \notin {"query", "stream"}

(* `at` and the owners say the same, and a call without a connection is    *)
(* one that is over or has not got one yet.                                *)
OwnersInv ==
  /\ \A c \in Callers, s \in Slots : s \in at[c] <=> slot[s].owner = c
  /\ \A c \in Callers : pc[c] \in {"idle", "connect"} => at[c] = {}

(* A session is clean in the pool; while a call has it, it may have a      *)
(* transaction if the call is one, and a timeout if withClient set one.    *)
CleanInv ==
  /\ SessionsAreClean
  /\ \A c \in Callers : \A s \in at[c] : slot[s].up =>
       /\ slot[s].tx # "none" => call[c].kind \in TxKinds /\ pc[c] # "begin"
       /\ slot[s].timeout = "call" => call[c].kind = "client" /\ pc[c] \in {"body", "reset"}
                                      /\ call[c].timed

(* Who loses connections: not the transactions. *)
LeakInv == TransactionsNeverLeak

IInv == TypeOK /\ KindsInv /\ OwnersInv /\ CleanInv /\ LeakInv

(***************************************************************************)
(* The parts of the steps                                                  *)
(***************************************************************************)

(* The types of what the parts of the steps change. *)
Placed ==
  /\ slot \in [Slots -> Session]
  /\ pc \in [Callers -> Steps]
  /\ at \in [Callers -> SUBSET Slots]
  /\ leakedBy \subseteq Kinds

LEMMA PlacedType == TypeOK => Placed
BY DEF TypeOK, Placed, Session

(* An error makes the call reject, and changes nothing else. *)
LEMMA FaultType ==
  ASSUME TypeOK, NEW c \in Callers, Fault(c)
  PROVE  /\ result' \in [Callers -> {"none", "ok", "error", "doubt"}]
         /\ faulty' \in [Callers -> BOOLEAN]
BY DEF TypeOK, Fault

(* A call goes on, with the same session. *)
LEMMA GotoKeeps ==
  ASSUME IInv, NEW c \in Callers, NEW step \in Steps, Goto(c, step),
         step \notin {"idle", "connect", "begin", "set"}, pc[c] \notin {"idle", "connect"},
         step \in {"local", "nested", "commit", "rollback"} => call[c].kind \in TxKinds,
         step = "reset" => call[c].kind = "client" /\ call[c].timed,
         \A s \in at[c] : slot[s].up /\ slot[s].timeout = "call" => step \in {"body", "reset"},
         UNCHANGED <<slot, call, at, leakedBy>>
  PROVE  Placed' /\ KindsInv' /\ OwnersInv' /\ CleanInv' /\ LeakInv'
<1> USE ConnectionsAssumption DEF TxKinds, SessionsAreClean
<1>1. Placed'
  BY PlacedType DEF IInv, Placed, Goto
<1>2. KindsInv'
  BY DEF IInv, TypeOK, KindsInv, Goto
<1>3. OwnersInv'
  BY DEF IInv, TypeOK, OwnersInv, Goto
<1>4. CleanInv'
  BY DEF IInv, TypeOK, CleanInv, OwnersInv, Goto
<1> QED
  BY <1>1, <1>2, <1>3, <1>4 DEF IInv, LeakInv, TransactionsNeverLeak

(* A transaction begins, fails or ends in the session of its call. *)
LEMMA InTxKeeps ==
  ASSUME IInv, NEW c \in Callers, NEW tx \in {"none", "open", "failed"}, InTx(c, tx),
         NEW step \in {"local", "body", "nested", "commit", "rollback"}, Goto(c, step),
         pc[c] \notin {"idle", "connect"}, call[c].kind \in TxKinds,
         UNCHANGED <<call, at, leakedBy>>
  PROVE  Placed' /\ KindsInv' /\ OwnersInv' /\ CleanInv' /\ LeakInv'
<1> USE ConnectionsAssumption DEF TxKinds
<1>1. \A s \in Slots : [slot[s] EXCEPT !.tx = tx] \in Session
  BY PlacedType DEF IInv, Placed, Session
<1>2. slot' \in [Slots -> Session]
  BY <1>1, PlacedType DEF IInv, Placed, InTx
<1>3. Placed'
  BY <1>2, PlacedType DEF IInv, Placed, Goto, Steps
<1>4. \A s \in Slots : /\ slot'[s].owner = slot[s].owner /\ slot'[s].up = slot[s].up
                       /\ slot'[s].timeout = slot[s].timeout
                       /\ s \notin at[c] => slot'[s] = slot[s]
  BY PlacedType DEF IInv, Placed, InTx, Session
<1>5. KindsInv'
  BY DEF IInv, TypeOK, KindsInv, Goto
<1>6. OwnersInv'
  BY <1>4 DEF IInv, TypeOK, OwnersInv, Goto
<1>7. \A s \in Slots : slot[s].owner = Free => s \notin at[c]
  BY DEF IInv, OwnersInv
<1>8. SessionsAreClean'
  BY <1>4, <1>7 DEF IInv, CleanInv, SessionsAreClean
<1>9. \A x \in Callers : at[x] \subseteq Slots /\ (x # c => \A s \in at[x] : s \notin at[c])
  BY DEF IInv, TypeOK, OwnersInv
<1>10. \A s \in at[c] : slot[s].up => slot[s].timeout # "call"
  BY DEF IInv, CleanInv
<1>11. CleanInv'
  BY <1>4, <1>8, <1>9, <1>10 DEF IInv, TypeOK, CleanInv, Goto
<1> QED
  BY <1>3, <1>5, <1>6, <1>11 DEF IInv, LeakInv, TransactionsNeverLeak

(* A call ends and gives a clean session back. *)
LEMMA GiveBackKeeps ==
  ASSUME IInv, NEW c \in Callers, NEW after \in [Slots -> Session], GiveBack(c, after),
         \A s \in at[c] : after[s].up => after[s].tx = "none" /\ after[s].timeout = "default",
         UNCHANGED call
  PROVE  Placed' /\ KindsInv' /\ OwnersInv' /\ CleanInv' /\ LeakInv'
<1> USE ConnectionsAssumption DEF TxKinds
<1>1. \A s \in Slots : Released(after[s]) \in Session /\ Released(after[s]).owner = Free
  BY DEF Released, Session, Fresh
<1>2. Placed'
  BY <1>1, PlacedType DEF IInv, Placed, GiveBack, Goto, Steps
<1>3. \A s \in Slots : IF s \in at[c] THEN slot'[s] = Released(after[s]) ELSE slot'[s] = slot[s]
  BY PlacedType DEF IInv, Placed, GiveBack
<1>4. KindsInv'
  BY DEF IInv, TypeOK, KindsInv, GiveBack, Goto
<1>5. \A s \in at[c] : s \in Slots
  BY DEF IInv, TypeOK
<1>6. OwnersInv'
  BY <1>1, <1>3, <1>5 DEF IInv, TypeOK, OwnersInv, GiveBack, Goto
<1>7. \A s \in at[c] : Released(after[s]).tx = "none" /\ Released(after[s]).timeout = "default"
  BY <1>5 DEF Released, Fresh, Session
<1>8. SessionsAreClean'
  BY <1>3, <1>5, <1>7 DEF IInv, CleanInv, SessionsAreClean
<1>9. \A x \in Callers : at[x] \subseteq Slots /\ (x # c => \A s \in at[x] : s \notin at[c])
  BY DEF IInv, TypeOK, OwnersInv
<1>10. CleanInv'
  BY <1>3, <1>8, <1>9 DEF IInv, TypeOK, CleanInv, GiveBack, Goto
<1> QED
  BY <1>2, <1>4, <1>6, <1>10 DEF IInv, LeakInv, TransactionsNeverLeak, GiveBack

(* A call that is no transaction ends by an error past its release(). *)
LEMMA EscapeKeeps ==
  ASSUME IInv, NEW c \in Callers, Escape(c), call[c].kind \in Kinds \cap {"client", "bulk"},
         UNCHANGED call
  PROVE  Placed' /\ KindsInv' /\ OwnersInv' /\ CleanInv' /\ LeakInv'
<1> USE ConnectionsAssumption DEF TxKinds
<1>1. \A s \in Slots : [slot[s] EXCEPT !.owner = Lost] \in Session
  BY PlacedType DEF IInv, Placed, Session
<1>2. Placed'
  BY <1>1, PlacedType DEF IInv, Placed, Escape, Goto, Steps
<1>3. \A s \in Slots : IF s \in at[c] THEN slot'[s].owner = Lost ELSE slot'[s] = slot[s]
  BY PlacedType DEF IInv, Placed, Escape, Session
<1>4. KindsInv'
  BY DEF IInv, TypeOK, KindsInv, Escape, Goto
<1>5. \A s \in at[c] : s \in Slots
  BY DEF IInv, TypeOK
<1>6. OwnersInv'
  BY <1>3, <1>5 DEF IInv, TypeOK, OwnersInv, Escape, Goto
<1>8. SessionsAreClean'
  BY <1>3, <1>5 DEF IInv, CleanInv, SessionsAreClean
<1>9. \A x \in Callers : at[x] \subseteq Slots /\ (x # c => \A s \in at[x] : s \notin at[c])
  BY DEF IInv, TypeOK, OwnersInv
<1>10. CleanInv'
  BY <1>3, <1>8, <1>9 DEF IInv, TypeOK, CleanInv, Escape, Goto
<1>11. LeakInv'
  BY DEF IInv, LeakInv, TransactionsNeverLeak, Escape
<1> QED
  BY <1>2, <1>4, <1>6, <1>10, <1>11

(* What the release of a client is given. *)
LEMMA AfterTypes ==
  ASSUME TypeOK
  PROVE  /\ slot \in [Slots -> Session]
         /\ NoTx \in [Slots -> Session]
         /\ DefaultTimeout \in [Slots -> Session]
         /\ \A s \in Slots : /\ NoTx[s].tx = "none" /\ NoTx[s].timeout = slot[s].timeout
                             /\ NoTx[s].up = slot[s].up
                             /\ DefaultTimeout[s].timeout = "default"
                             /\ DefaultTimeout[s].tx = slot[s].tx
                             /\ DefaultTimeout[s].up = slot[s].up
<1>1. slot \in [Slots -> Session]
  BY DEF TypeOK, Session
<1>2. \A s \in Slots : /\ [slot[s] EXCEPT !.tx = "none"] \in Session
                       /\ [slot[s] EXCEPT !.timeout = "default"] \in Session
  BY <1>1 DEF Session
<1>3. NoTx \in [Slots -> Session] /\ DefaultTimeout \in [Slots -> Session]
  BY <1>2 DEF NoTx, DefaultTimeout
<1>4. \A s \in Slots : /\ NoTx[s].tx = "none" /\ NoTx[s].timeout = slot[s].timeout
                       /\ NoTx[s].up = slot[s].up
  BY <1>1 DEF NoTx, Session
<1>5. \A s \in Slots : /\ DefaultTimeout[s].timeout = "default"
                       /\ DefaultTimeout[s].tx = slot[s].tx
                       /\ DefaultTimeout[s].up = slot[s].up
  BY <1>1 DEF DefaultTimeout, Session
<1> QED
  BY <1>1, <1>3, <1>4, <1>5

(* Nothing but sessions, places and outcomes changes in the step of a call.*)
LEMMA Assembled ==
  ASSUME TypeOK, Placed', KindsInv', OwnersInv', CleanInv', LeakInv',
         result' \in [Callers -> {"none", "ok", "error", "doubt"}],
         faulty' \in [Callers -> BOOLEAN], committed' \in [Callers -> BOOLEAN],
         UNCHANGED call
  PROVE  IInv'
BY DEF IInv, TypeOK, Placed, Session

(***************************************************************************)
(* The invariant                                                           *)
(***************************************************************************)

LEMMA IInvInit == Init => IInv
BY ConnectionsAssumption
   DEF Init, IInv, TypeOK, KindsInv, OwnersInv, CleanInv, SessionsAreClean, Steps, Fresh,
       LeakInv, TransactionsNeverLeak, TxKinds

LEMMA IInvStep == IInv /\ [Next]_vars => IInv'
<1> SUFFICES ASSUME IInv, [Next]_vars PROVE IInv'
  OBVIOUS
<1> USE DEF TxKinds
<1>0. TypeOK
  BY DEF IInv
<1>1. ASSUME NEW c \in Callers, NEW kind \in Kinds, NEW timed \in BOOLEAN,
             Call(c, kind, timed) PROVE IInv'
  <2>1. TypeOK'
    BY <1>1 DEF Call, Goto, IInv, TypeOK, Steps
  <2>2. KindsInv'
    BY <1>1 DEF Call, Goto, IInv, TypeOK, KindsInv
  <2>3. OwnersInv'
    BY <1>1 DEF Call, Goto, IInv, TypeOK, OwnersInv
  <2>4. CleanInv'
    BY <1>1 DEF Call, Goto, IInv, TypeOK, OwnersInv, CleanInv, SessionsAreClean
  <2> QED
    BY <1>1, <2>1, <2>2, <2>3, <2>4 DEF Call, IInv, LeakInv, TransactionsNeverLeak
<1>2. ASSUME NEW c \in Callers, NEW s \in Slots, Connect(c, s) PROVE IInv'
  <2>1. slot' = [slot EXCEPT ![s] = [slot[s] EXCEPT !.owner = c]]
    BY <1>2 DEF Connect
  <2>2. [slot[s] EXCEPT !.owner = c] \in Session
    BY AfterTypes, <1>0 DEF Session
  <2>3. /\ slot'[s].owner = c /\ slot'[s].tx = slot[s].tx /\ slot'[s].up = slot[s].up
        /\ slot'[s].timeout = slot[s].timeout
        /\ \A t \in Slots \ {s} : slot'[t] = slot[t]
    BY <2>1, AfterTypes, <1>0 DEF Session
  <2>4. \A x \in Callers : s \notin at[x]
    BY <1>2, ConnectionsAssumption DEF Connect, IInv, OwnersInv
  <2>5. Placed'
    BY <1>2, <2>1, <2>2, PlacedType, <1>0 DEF Connect, Placed, Goto, Steps
  <2>6. KindsInv'
    BY <1>2, ConnectionsAssumption DEF Connect, Goto, IInv, TypeOK, KindsInv
  <2>7. OwnersInv'
    BY <1>2, <2>3, <2>4, ConnectionsAssumption DEF Connect, Goto, IInv, TypeOK, OwnersInv
  <2>8. CleanInv'
    BY <1>2, <2>3, <2>4, ConnectionsAssumption
       DEF Connect, Goto, IInv, TypeOK, CleanInv, SessionsAreClean, OwnersInv
  <2> QED
    BY <1>2, <1>0, <2>5, <2>6, <2>7, <2>8, Assembled
       DEF Connect, IInv, TypeOK, LeakInv, TransactionsNeverLeak
<1>3. ASSUME NEW c \in Callers, Begin(c) PROVE IInv'
  <2>8. Placed' /\ KindsInv' /\ OwnersInv' /\ CleanInv' /\ LeakInv'
    BY <1>3, InTxKeeps DEF Begin, IInv, KindsInv
  <2>9. /\ result' \in [Callers -> {"none", "ok", "error", "doubt"}]
        /\ faulty' \in [Callers -> BOOLEAN] /\ committed' \in [Callers -> BOOLEAN]
    BY <1>3, <1>0 DEF Begin, TypeOK
  <2> QED
    BY <1>3, <1>0, <2>8, <2>9, Assembled DEF Begin
<1>4. ASSUME NEW c \in Callers, BeginRejects(c) PROVE IInv'
  <2>1. slot \in [Slots -> Session] /\ at[c] \subseteq Slots
    BY AfterTypes, <1>0 DEF TypeOK
  <2>2. call[c].kind \in Kinds \cap TxKinds
    BY <1>4 DEF BeginRejects, IInv, KindsInv
  <2>3. \A s \in at[c] : slot[s].up => slot[s].tx = "none" /\ slot[s].timeout = "default"
    BY <1>4, <2>1 DEF BeginRejects, IInv, CleanInv, Session
  <2>4. Placed' /\ KindsInv' /\ OwnersInv' /\ CleanInv' /\ LeakInv'
    BY <1>4, <2>1, <2>2, <2>3, GiveBackKeeps, EscapeKeeps DEF BeginRejects
  <2> QED
    BY <1>4, <1>0, <2>4, FaultType, Assembled DEF BeginRejects, TypeOK
<1>5. ASSUME NEW c \in Callers, SetLocal(c) PROVE IInv'
  <2>1. Placed' /\ KindsInv' /\ OwnersInv' /\ CleanInv' /\ LeakInv'
    BY <1>5, GotoKeeps, ConnectionsAssumption DEF SetLocal, IInv, KindsInv, CleanInv, Steps
  <2> QED
    BY <1>5, <1>0, <2>1, Assembled DEF SetLocal, TypeOK
<1>6. ASSUME NEW c \in Callers, SetLocalRejects(c) PROVE IInv'
  <2>1. call[c].kind \in Kinds \cap TxKinds
    BY <1>6 DEF SetLocalRejects, IInv, KindsInv
  <2>2. Placed' /\ KindsInv' /\ OwnersInv' /\ CleanInv' /\ LeakInv'
    <3>1. CASE call[c].kind = "unit"
      BY <1>6, <3>1, <2>1, InTxKeeps DEF SetLocalRejects
    <3>2. CASE call[c].kind = "bulk"
      BY <1>6, <3>2, <2>1, EscapeKeeps DEF SetLocalRejects
    <3> QED
      BY <2>1, <3>1, <3>2
  <2> QED
    BY <1>6, <1>0, <2>2, FaultType, Assembled DEF SetLocalRejects, TypeOK
<1>7. ASSUME NEW c \in Callers, TxWork(c) PROVE IInv'
  <2>1. Placed' /\ KindsInv' /\ OwnersInv' /\ CleanInv' /\ LeakInv'
    BY <1>7, GotoKeeps, ConnectionsAssumption DEF TxWork, IInv, KindsInv, CleanInv, Steps
  <2> QED
    BY <1>7, <1>0, <2>1, Assembled DEF TxWork, TypeOK
<1>8. ASSUME NEW c \in Callers, TxWorkFails(c) PROVE IInv'
  <2>1. Goto(c, "rollback") \/ Goto(c, "body")
    BY <1>8, <1>0 DEF TxWorkFails, Goto, TypeOK
  <2>2. Placed' /\ KindsInv' /\ OwnersInv' /\ CleanInv' /\ LeakInv'
    BY <1>8, <2>1, InTxKeeps DEF TxWorkFails
  <2> QED
    BY <1>8, <1>0, <2>2, FaultType, Assembled DEF TxWorkFails, TypeOK
<1>9. ASSUME NEW c \in Callers, BulkInTransaction(c) PROVE IInv'
  <2>1. Placed' /\ KindsInv' /\ OwnersInv' /\ CleanInv' /\ LeakInv'
    BY <1>9, GotoKeeps, ConnectionsAssumption
       DEF BulkInTransaction, IInv, KindsInv, CleanInv, Steps
  <2> QED
    BY <1>9, <1>0, <2>1, Assembled DEF BulkInTransaction, TypeOK
<1>10. ASSUME NEW c \in Callers, Nest(c) PROVE IInv'
  <2>1. Placed' /\ KindsInv' /\ OwnersInv' /\ CleanInv' /\ LeakInv'
    BY <1>10, GotoKeeps, ConnectionsAssumption DEF Nest, IInv, KindsInv, CleanInv, Steps
  <2> QED
    BY <1>10, <1>0, <2>1, Assembled DEF Nest, TypeOK
<1>11. ASSUME NEW c \in Callers, NestedServed(c) PROVE IInv'
  <2>1. Placed' /\ KindsInv' /\ OwnersInv' /\ CleanInv' /\ LeakInv'
    BY <1>11, GotoKeeps, ConnectionsAssumption
       DEF NestedServed, IInv, KindsInv, CleanInv, Steps
  <2> QED
    BY <1>11, <1>0, <2>1, Assembled DEF NestedServed, TypeOK
<1>12. ASSUME NEW c \in Callers, NestedTimesOut(c) PROVE IInv'
  <2>1. Placed' /\ KindsInv' /\ OwnersInv' /\ CleanInv' /\ LeakInv'
    BY <1>12, GotoKeeps, ConnectionsAssumption
       DEF NestedTimesOut, IInv, KindsInv, CleanInv, Steps
  <2> QED
    BY <1>12, <1>0, <2>1, FaultType, Assembled DEF NestedTimesOut, TypeOK
<1>13. ASSUME NEW c \in Callers, Commit(c) PROVE IInv'
  <2>1. NoTx \in [Slots -> Session] /\ at[c] \subseteq Slots
    BY AfterTypes, <1>0 DEF TypeOK
  <2>2. \A s \in at[c] : NoTx[s].up => NoTx[s].tx = "none" /\ NoTx[s].timeout = "default"
    BY <1>13, <2>1, AfterTypes, <1>0 DEF Commit, IInv, KindsInv, CleanInv, Session
  <2>3. Placed' /\ KindsInv' /\ OwnersInv' /\ CleanInv' /\ LeakInv'
    BY <1>13, <2>1, <2>2, GiveBackKeeps DEF Commit
  <2> QED
    BY <1>13, <1>0, <2>3, Assembled DEF Commit, TypeOK
<1>14. ASSUME NEW c \in Callers, CommitRejects(c) PROVE IInv'
  <2>1. Placed' /\ KindsInv' /\ OwnersInv' /\ CleanInv' /\ LeakInv'
    BY <1>14, InTxKeeps DEF CommitRejects, IInv, KindsInv
  <2> QED
    BY <1>14, <1>0, <2>1, FaultType, Assembled DEF CommitRejects, TypeOK
<1>15. ASSUME NEW c \in Callers, CommitUnanswered(c) PROVE IInv'
  <2>1. \A s \in Slots : Broken(slot[s]) \in Session
    BY AfterTypes, <1>0 DEF Session, Broken
  <2>2. Placed'
    BY <1>15, <2>1, PlacedType, <1>0 DEF CommitUnanswered, Placed, Goto, Steps
  <2>3. \A s \in Slots : /\ slot'[s].owner = slot[s].owner
                        /\ IF s \in at[c] THEN ~slot'[s].up ELSE slot'[s] = slot[s]
    BY <1>15, AfterTypes, <1>0 DEF CommitUnanswered, Session, Broken
  <2>4. KindsInv'
    BY <1>15 DEF CommitUnanswered, Goto, IInv, TypeOK, KindsInv
  <2>5. OwnersInv'
    BY <1>15, <2>3 DEF CommitUnanswered, Goto, IInv, TypeOK, OwnersInv
  <2>6. SessionsAreClean'
    BY <2>3 DEF IInv, CleanInv, SessionsAreClean
  <2>7. \A x \in Callers : at[x] \subseteq Slots /\ (x # c => \A s \in at[x] : s \notin at[c])
    BY DEF IInv, TypeOK, OwnersInv
  <2>8. CleanInv'
    BY <1>15, <2>3, <2>6, <2>7 DEF CommitUnanswered, Goto, IInv, TypeOK, CleanInv
  <2> QED
    BY <1>15, <1>0, <2>2, <2>4, <2>5, <2>8, Assembled
       DEF CommitUnanswered, IInv, TypeOK, LeakInv, TransactionsNeverLeak
<1>16. ASSUME NEW c \in Callers, Rollback(c) PROVE IInv'
  <2>1. NoTx \in [Slots -> Session] /\ at[c] \subseteq Slots
    BY AfterTypes, <1>0 DEF TypeOK
  <2>2. \A s \in at[c] : NoTx[s].up => NoTx[s].tx = "none" /\ NoTx[s].timeout = "default"
    BY <1>16, <2>1, AfterTypes, <1>0 DEF Rollback, IInv, KindsInv, CleanInv, Session
  <2>3. Placed' /\ KindsInv' /\ OwnersInv' /\ CleanInv' /\ LeakInv'
    BY <1>16, <2>1, <2>2, GiveBackKeeps DEF Rollback
  <2> QED
    BY <1>16, <1>0, <2>3, Assembled DEF Rollback, TypeOK
<1>17. ASSUME NEW c \in Callers, SetTimeout(c) PROVE IInv'
  <2>1. \A s \in Slots : [slot[s] EXCEPT !.timeout = "call"] \in Session
    BY AfterTypes, <1>0 DEF Session
  <2>2. Placed'
    BY <1>17, <2>1, PlacedType, <1>0 DEF SetTimeout, Placed, Goto, Steps
  <2>3. \A s \in Slots : /\ slot'[s].owner = slot[s].owner /\ slot'[s].tx = slot[s].tx
                        /\ slot'[s].up = slot[s].up /\ (s \notin at[c] => slot'[s] = slot[s])
    BY <1>17, AfterTypes, <1>0 DEF SetTimeout, Session
  <2>4. KindsInv'
    BY <1>17 DEF SetTimeout, Goto, IInv, TypeOK, KindsInv
  <2>5. OwnersInv'
    BY <1>17, <2>3 DEF SetTimeout, Goto, IInv, TypeOK, OwnersInv
  <2>6. \A s \in Slots : slot[s].owner = Free => s \notin at[c]
    BY ConnectionsAssumption DEF IInv, OwnersInv
  <2>7. SessionsAreClean'
    BY <2>3, <2>6 DEF IInv, CleanInv, SessionsAreClean
  <2>8. \A x \in Callers : at[x] \subseteq Slots /\ (x # c => \A s \in at[x] : s \notin at[c])
    BY DEF IInv, TypeOK, OwnersInv
  <2>9. CleanInv'
    BY <1>17, <2>3, <2>7, <2>8 DEF SetTimeout, Goto, IInv, TypeOK, KindsInv, CleanInv
  <2> QED
    BY <1>17, <1>0, <2>2, <2>4, <2>5, <2>9, Assembled
       DEF SetTimeout, IInv, TypeOK, LeakInv, TransactionsNeverLeak
<1>18. ASSUME NEW c \in Callers, SetTimeoutRejects(c) PROVE IInv'
  <2>1. Placed' /\ KindsInv' /\ OwnersInv' /\ CleanInv' /\ LeakInv'
    BY <1>18, GotoKeeps, ConnectionsAssumption
       DEF SetTimeoutRejects, IInv, KindsInv, CleanInv, Steps
  <2> QED
    BY <1>18, <1>0, <2>1, FaultType, Assembled DEF SetTimeoutRejects, TypeOK
<1>19. ASSUME NEW c \in Callers, Work(c) PROVE IInv'
  <2>1. slot \in [Slots -> Session] /\ at[c] \subseteq Slots
    BY AfterTypes, <1>0 DEF TypeOK
  <2>2. call[c].timed => call[c].kind = "client"
    BY <1>19 DEF Work, IInv, KindsInv
  <2>3. Placed' /\ KindsInv' /\ OwnersInv' /\ CleanInv' /\ LeakInv'
    <3>1. CASE call[c].timed
      BY <1>19, <3>1, <2>2, GotoKeeps DEF Work, Steps
    <3>2. CASE ~call[c].timed
      <4>1. \A s \in at[c] : slot[s].up => slot[s].tx = "none" /\ slot[s].timeout = "default"
        BY <1>19, <3>2, <2>1 DEF Work, IInv, CleanInv, Session
      <4> QED
        BY <1>19, <3>2, <4>1, <2>1, GiveBackKeeps DEF Work
    <3> QED
      BY <3>1, <3>2
  <2> QED
    BY <1>19, <1>0, <2>3, Assembled DEF Work, TypeOK
<1>20. ASSUME NEW c \in Callers, WorkFails(c) PROVE IInv'
  <2>1. slot \in [Slots -> Session] /\ at[c] \subseteq Slots
    BY AfterTypes, <1>0 DEF TypeOK
  <2>2. call[c].timed => call[c].kind = "client"
    BY <1>20 DEF WorkFails, IInv, KindsInv
  <2>3. Placed' /\ KindsInv' /\ OwnersInv' /\ CleanInv' /\ LeakInv'
    <3>1. CASE call[c].timed
      BY <1>20, <3>1, <2>2, GotoKeeps DEF WorkFails, Steps
    <3>2. CASE ~call[c].timed
      <4>1. \A s \in at[c] : slot[s].up => slot[s].tx = "none" /\ slot[s].timeout = "default"
        BY <1>20, <3>2, <2>1 DEF WorkFails, IInv, CleanInv, Session
      <4> QED
        BY <1>20, <3>2, <4>1, <2>1, GiveBackKeeps DEF WorkFails
    <3> QED
      BY <3>1, <3>2
  <2> QED
    BY <1>20, <1>0, <2>3, FaultType, Assembled DEF WorkFails, TypeOK
<1>21. ASSUME NEW c \in Callers, Reset(c) PROVE IInv'
  <2>1. DefaultTimeout \in [Slots -> Session] /\ at[c] \subseteq Slots
    BY AfterTypes, <1>0 DEF TypeOK
  <2>2. \A s \in at[c] : DefaultTimeout[s].up =>
          DefaultTimeout[s].tx = "none" /\ DefaultTimeout[s].timeout = "default"
    BY <1>21, <2>1, AfterTypes, <1>0 DEF Reset, IInv, KindsInv, CleanInv, Session
  <2>3. Placed' /\ KindsInv' /\ OwnersInv' /\ CleanInv' /\ LeakInv'
    BY <1>21, <2>1, <2>2, GiveBackKeeps DEF Reset
  <2> QED
    BY <1>21, <1>0, <2>3, Assembled DEF Reset, TypeOK
<1>22. ASSUME NEW c \in Callers, ResetRejects(c) PROVE IInv'
  <2>1. Placed' /\ KindsInv' /\ OwnersInv' /\ CleanInv' /\ LeakInv'
    BY <1>22, EscapeKeeps DEF ResetRejects, IInv, KindsInv
  <2> QED
    BY <1>22, <1>0, <2>1, FaultType, Assembled DEF ResetRejects, TypeOK
<1>23. ASSUME NEW c \in Callers, ConnectTimesOut(c) PROVE IInv'
  <2>1. TypeOK'
    BY <1>23, <1>0, FaultType DEF ConnectTimesOut, Goto, TypeOK, Steps
  <2>2. KindsInv'
    BY <1>23 DEF ConnectTimesOut, Goto, IInv, TypeOK, KindsInv
  <2>3. OwnersInv'
    BY <1>23 DEF ConnectTimesOut, Goto, IInv, TypeOK, OwnersInv
  <2>4. CleanInv'
    BY <1>23 DEF ConnectTimesOut, Goto, IInv, TypeOK, OwnersInv, CleanInv, SessionsAreClean
  <2> QED
    BY <1>23, <2>1, <2>2, <2>3, <2>4
       DEF ConnectTimesOut, IInv, LeakInv, TransactionsNeverLeak
<1>24. ASSUME NEW s \in Slots, Die(s) PROVE IInv'
  <2>1. slot' = [slot EXCEPT ![s] = Broken(slot[s])]
    BY <1>24 DEF Die
  <2>2. Broken(slot[s]) \in Session
    BY AfterTypes, <1>0, ConnectionsAssumption DEF Session, Broken
  <2>3. Placed'
    BY <1>24, <2>1, <2>2, PlacedType, <1>0 DEF Die, Placed
  <2>4. slot'[s].owner = slot[s].owner /\ \A t \in Slots \ {s} : slot'[t] = slot[t]
    BY <1>24, <2>1, AfterTypes, <1>0 DEF Die, Session, Broken
  <2>5. OwnersInv'
    BY <1>24, <2>4 DEF Die, IInv, TypeOK, OwnersInv
  <2>6. ~slot'[s].up
    BY <2>1, AfterTypes, <1>0 DEF Session, Broken
  <2>7. CleanInv'
    BY <1>24, <2>4, <2>6 DEF Die, IInv, TypeOK, CleanInv, SessionsAreClean
  <2> QED
    BY <1>24, <1>0, <2>3, <2>5, <2>7, Assembled
       DEF Die, IInv, TypeOK, KindsInv, LeakInv, TransactionsNeverLeak
<1>25. ASSUME NEW s \in Slots, Discard(s) PROVE IInv'
  <2>1. slot' = [slot EXCEPT ![s] = Fresh]
    BY <1>25 DEF Discard
  <2>2. Fresh \in Session
    BY AfterTypes, <1>0, ConnectionsAssumption DEF Session, Fresh
  <2>3. Placed'
    BY <1>25, <2>1, <2>2, PlacedType, <1>0 DEF Discard, Placed
  <2>4. slot'[s].owner = slot[s].owner /\ \A t \in Slots \ {s} : slot'[t] = slot[t]
    BY <1>25, <2>1, AfterTypes, <1>0 DEF Discard, Session, Fresh
  <2>5. OwnersInv'
    BY <1>25, <2>4 DEF Discard, IInv, TypeOK, OwnersInv
  <2>6. slot'[s].tx = "none" /\ slot'[s].timeout = "default"
    BY <2>1, AfterTypes, <1>0 DEF Session, Fresh
  <2>7. CleanInv'
    BY <1>25, <2>4, <2>6 DEF Discard, IInv, TypeOK, CleanInv, SessionsAreClean
  <2> QED
    BY <1>25, <1>0, <2>3, <2>5, <2>7, Assembled
       DEF Discard, IInv, TypeOK, KindsInv, LeakInv, TransactionsNeverLeak
<1>26. ASSUME UNCHANGED vars PROVE IInv'
  BY <1>26
     DEF vars, IInv, TypeOK, KindsInv, OwnersInv, CleanInv, SessionsAreClean, LeakInv,
         TransactionsNeverLeak, Up
<1> QED
  BY <1>1, <1>2, <1>3, <1>4, <1>5, <1>6, <1>7, <1>8, <1>9, <1>10, <1>11, <1>12, <1>13,
     <1>14, <1>15, <1>16, <1>17, <1>18, <1>19, <1>20, <1>21, <1>22, <1>23, <1>24, <1>25,
     <1>26 DEF Next, Step

(***************************************************************************)
(* What promises tell                                                      *)
(***************************************************************************)

(* Nothing is decided before the last statement, and a decision is kept.   *)
ResultsInv ==
  \A c \in Callers :
    /\ pc[c] \notin {"idle", "reset", "rollback"} => result[c] = "none" /\ ~committed[c]
    /\ pc[c] = "rollback" => result[c] \in {"error", "doubt"}
    /\ result[c] = "ok" => committed[c]
    /\ result[c] = "error" /\ call[c].kind \in TxKinds => ~committed[c]

(* A transaction that has failed is on its way to ROLLBACK. *)
FailedInv ==
  \A c \in Callers : \A s \in at[c] :
    slot[s].up /\ slot[s].tx = "failed" => pc[c] = "rollback"

OInv == IInv /\ ResultsInv /\ FailedInv

(* The sessions of other callers stay as they are in the step of a call. *)
LEMMA OthersKeep ==
  ASSUME IInv, FailedInv, NEW c \in Callers,
         pc' = [pc EXCEPT ![c] = pc'[c]], at' = [at EXCEPT ![c] = at'[c]],
         \A s \in Slots : s \notin at[c] => slot'[s] = slot[s],
         \A s \in at'[c] : slot'[s].up /\ slot'[s].tx = "failed" => pc'[c] = "rollback"
  PROVE  FailedInv'
<1>1. \A x \in Callers : x # c => /\ at[x] \subseteq Slots
                                  /\ \A s \in at[x] : s \notin at[c]
                                  /\ at'[x] = at[x] /\ pc'[x] = pc[x]
  BY DEF IInv, TypeOK, OwnersInv
<1>2. \A x \in Callers : x # c => \A s \in at'[x] : slot'[s] = slot[s]
  BY <1>1
<1> QED
  BY <1>1, <1>2 DEF FailedInv

(* InTx changes the sessions of its call only. *)
LEMMA InTxSessions ==
  ASSUME TypeOK, NEW c \in Callers, NEW tx \in {"none", "open", "failed"}, InTx(c, tx)
  PROVE  \A s \in Slots : /\ s \notin at[c] => slot'[s] = slot[s]
                          /\ s \in at[c] /\ slot'[s].up => slot'[s].tx = tx
BY AfterTypes DEF InTx, Session

LEMMA ResultsStep ==
  ASSUME ~Swallows, OInv, [Next]_vars
  PROVE  ResultsInv'
<1> USE DEF TxKinds
<1>0. TypeOK
  BY DEF OInv, IInv
<1>1. ASSUME NEW c \in Callers, NEW kind \in Kinds, NEW timed \in BOOLEAN,
             Call(c, kind, timed) PROVE ResultsInv'
  BY <1>1, <1>0 DEF Call, Goto, TypeOK, OInv, ResultsInv
<1>2. ASSUME NEW c \in Callers, NEW s \in Slots, Connect(c, s) PROVE ResultsInv'
  BY <1>2, <1>0 DEF Connect, Goto, TypeOK, OInv, ResultsInv
<1>3. ASSUME NEW c \in Callers, ConnectTimesOut(c) PROVE ResultsInv'
  BY <1>3, <1>0 DEF ConnectTimesOut, Fault, Goto, TypeOK, OInv, ResultsInv
<1>4. ASSUME NEW c \in Callers, Begin(c) PROVE ResultsInv'
  BY <1>4, <1>0 DEF Begin, Goto, TypeOK, OInv, ResultsInv
<1>5. ASSUME NEW c \in Callers, BeginRejects(c) PROVE ResultsInv'
  BY <1>5, <1>0
     DEF BeginRejects, Fault, GiveBack, Escape, Goto, TypeOK, OInv, ResultsInv, IInv, KindsInv
<1>6. ASSUME NEW c \in Callers, SetLocal(c) PROVE ResultsInv'
  BY <1>6, <1>0 DEF SetLocal, Goto, TypeOK, OInv, ResultsInv
<1>7. ASSUME NEW c \in Callers, SetLocalRejects(c) PROVE ResultsInv'
  BY <1>7, <1>0
     DEF SetLocalRejects, Fault, Escape, Goto, TypeOK, OInv, ResultsInv, IInv, KindsInv
<1>8. ASSUME NEW c \in Callers, TxWork(c) PROVE ResultsInv'
  BY <1>8, <1>0 DEF TxWork, Goto, TypeOK, OInv, ResultsInv
<1>9. ASSUME NEW c \in Callers, TxWorkFails(c) PROVE ResultsInv'
  BY <1>9, <1>0 DEF TxWorkFails, Fault, Goto, TypeOK, OInv, ResultsInv
<1>10. ASSUME NEW c \in Callers, BulkInTransaction(c) PROVE ResultsInv'
  BY <1>10, <1>0 DEF BulkInTransaction, Goto, TypeOK, OInv, ResultsInv
<1>11. ASSUME NEW c \in Callers, Nest(c) PROVE ResultsInv'
  BY <1>11, <1>0 DEF Nest, Goto, TypeOK, OInv, ResultsInv
<1>12. ASSUME NEW c \in Callers, NestedServed(c) PROVE ResultsInv'
  BY <1>12, <1>0 DEF NestedServed, Goto, TypeOK, OInv, ResultsInv
<1>13. ASSUME NEW c \in Callers, NestedTimesOut(c) PROVE ResultsInv'
  BY <1>13, <1>0 DEF NestedTimesOut, Fault, Goto, TypeOK, OInv, ResultsInv, IInv, KindsInv
<1>14. ASSUME NEW c \in Callers, Commit(c) PROVE ResultsInv'
  <2>1. Tx(c) = "open"
    BY <1>14 DEF Commit, Up, Tx, OInv, FailedInv
  <2> QED
    BY <1>14, <2>1, <1>0 DEF Commit, GiveBack, Goto, TypeOK, OInv, ResultsInv
<1>15. ASSUME NEW c \in Callers, CommitRejects(c) PROVE ResultsInv'
  BY <1>15, <1>0 DEF CommitRejects, Fault, Goto, TypeOK, OInv, ResultsInv
<1>16. ASSUME NEW c \in Callers, CommitUnanswered(c) PROVE ResultsInv'
  BY <1>16, <1>0 DEF CommitUnanswered, Goto, TypeOK, OInv, ResultsInv
<1>17. ASSUME NEW c \in Callers, Rollback(c) PROVE ResultsInv'
  BY <1>17, <1>0 DEF Rollback, GiveBack, Goto, TypeOK, OInv, ResultsInv
<1>18. ASSUME NEW c \in Callers, SetTimeout(c) PROVE ResultsInv'
  BY <1>18, <1>0 DEF SetTimeout, Goto, TypeOK, OInv, ResultsInv
<1>19. ASSUME NEW c \in Callers, SetTimeoutRejects(c) PROVE ResultsInv'
  BY <1>19, <1>0
     DEF SetTimeoutRejects, Fault, Goto, TypeOK, OInv, ResultsInv, IInv, KindsInv
<1>20. ASSUME NEW c \in Callers, Work(c) PROVE ResultsInv'
  BY <1>20, <1>0 DEF Work, GiveBack, Goto, TypeOK, OInv, ResultsInv, IInv, KindsInv
<1>21. ASSUME NEW c \in Callers, WorkFails(c) PROVE ResultsInv'
  BY <1>21, <1>0
     DEF WorkFails, Fault, GiveBack, Goto, TypeOK, OInv, ResultsInv, IInv, KindsInv
<1>22. ASSUME NEW c \in Callers, Reset(c) PROVE ResultsInv'
  BY <1>22, <1>0 DEF Reset, GiveBack, Goto, TypeOK, OInv, ResultsInv, IInv, KindsInv
<1>23. ASSUME NEW c \in Callers, ResetRejects(c) PROVE ResultsInv'
  BY <1>23, <1>0
     DEF ResetRejects, Fault, Escape, Goto, TypeOK, OInv, ResultsInv, IInv, KindsInv
<1>24. ASSUME NEW s \in Slots, Die(s) \/ Discard(s) PROVE ResultsInv'
  BY <1>24 DEF Die, Discard, OInv, ResultsInv
<1>25. ASSUME UNCHANGED vars PROVE ResultsInv'
  BY <1>25 DEF vars, OInv, ResultsInv
<1> QED
  BY <1>1, <1>2, <1>3, <1>4, <1>5, <1>6, <1>7, <1>8, <1>9, <1>10, <1>11, <1>12, <1>13,
     <1>14, <1>15, <1>16, <1>17, <1>18, <1>19, <1>20, <1>21, <1>22, <1>23, <1>24, <1>25
  DEF Next, Step

LEMMA FailedStep ==
  ASSUME ~Swallows, OInv, [Next]_vars
  PROVE  FailedInv'
<1>0. TypeOK
  BY DEF OInv, IInv
<1>1. ASSUME NEW c \in Callers, NEW kind \in Kinds, NEW timed \in BOOLEAN,
             Call(c, kind, timed) PROVE FailedInv'
  BY <1>1, <1>0 DEF Call, Goto, TypeOK, OInv, IInv, OwnersInv, FailedInv
<1>2. ASSUME NEW c \in Callers, NEW s \in Slots, Connect(c, s) PROVE FailedInv'
  <2>1. slot'[s].up = slot[s].up /\ slot'[s].tx = slot[s].tx
        /\ \A t \in Slots \ {s} : slot'[t] = slot[t]
    BY <1>2, <1>0, AfterTypes DEF Connect, Session
  <2>2. \A x \in Callers : s \notin at[x]
    BY <1>2, ConnectionsAssumption DEF Connect, OInv, IInv, OwnersInv
  <2>3. slot[s].up => slot[s].tx # "failed"
    BY <1>2 DEF Connect, OInv, IInv, CleanInv, SessionsAreClean
  <2> QED
    BY <1>2, <2>1, <2>2, <2>3, <1>0 DEF Connect, Goto, TypeOK, OInv, FailedInv
<1>3. ASSUME NEW c \in Callers, ConnectTimesOut(c) PROVE FailedInv'
  BY <1>3, <1>0 DEF ConnectTimesOut, Goto, TypeOK, OInv, IInv, OwnersInv, FailedInv
<1>4. ASSUME NEW c \in Callers, Begin(c) PROVE FailedInv'
  BY <1>4, <1>0, InTxSessions, OthersKeep DEF Begin, Goto, TypeOK, OInv
<1>5. ASSUME NEW c \in Callers, BeginRejects(c) PROVE FailedInv'
  BY <1>5, <1>0, OthersKeep DEF BeginRejects, GiveBack, Escape, Goto, TypeOK, OInv
<1>6. ASSUME NEW c \in Callers, SetLocal(c) PROVE FailedInv'
  BY <1>6, <1>0 DEF SetLocal, Goto, TypeOK, OInv, FailedInv
<1>7. ASSUME NEW c \in Callers, SetLocalRejects(c) PROVE FailedInv'
  <2>1. CASE call[c].kind = "unit"
    BY <1>7, <2>1, <1>0, InTxSessions, OthersKeep DEF SetLocalRejects, Goto, TypeOK, OInv
  <2>2. CASE call[c].kind = "bulk"
    BY <1>7, <2>2, <1>0, OthersKeep DEF SetLocalRejects, Escape, Goto, TypeOK, OInv
  <2> QED
    BY <1>7, <2>1, <2>2 DEF SetLocalRejects
<1>8. ASSUME NEW c \in Callers, TxWork(c) PROVE FailedInv'
  BY <1>8, <1>0 DEF TxWork, Goto, TypeOK, OInv, FailedInv
<1>9. ASSUME NEW c \in Callers, TxWorkFails(c) PROVE FailedInv'
  BY <1>9, <1>0, InTxSessions, OthersKeep DEF TxWorkFails, Goto, TypeOK, OInv
<1>10. ASSUME NEW c \in Callers, BulkInTransaction(c) PROVE FailedInv'
  BY <1>10, <1>0 DEF BulkInTransaction, Goto, TypeOK, OInv, FailedInv
<1>11. ASSUME NEW c \in Callers, Nest(c) PROVE FailedInv'
  BY <1>11, <1>0 DEF Nest, Goto, TypeOK, OInv, FailedInv
<1>12. ASSUME NEW c \in Callers, NestedServed(c) PROVE FailedInv'
  BY <1>12, <1>0 DEF NestedServed, Goto, TypeOK, OInv, FailedInv
<1>13. ASSUME NEW c \in Callers, NestedTimesOut(c) PROVE FailedInv'
  BY <1>13, <1>0 DEF NestedTimesOut, Goto, TypeOK, OInv, FailedInv
<1>14. ASSUME NEW c \in Callers, Commit(c) PROVE FailedInv'
  BY <1>14, <1>0, OthersKeep DEF Commit, GiveBack, Goto, TypeOK, OInv
<1>15. ASSUME NEW c \in Callers, CommitRejects(c) PROVE FailedInv'
  BY <1>15, <1>0, InTxSessions, OthersKeep DEF CommitRejects, Goto, TypeOK, OInv
<1>16. ASSUME NEW c \in Callers, CommitUnanswered(c) PROVE FailedInv'
  <2>1. \A s \in at[c] : ~slot'[s].up
    BY <1>16, <1>0 DEF CommitUnanswered, Broken, TypeOK
  <2> QED
    BY <1>16, <2>1, <1>0, OthersKeep DEF CommitUnanswered, Goto, TypeOK, OInv
<1>17. ASSUME NEW c \in Callers, Rollback(c) PROVE FailedInv'
  BY <1>17, <1>0, OthersKeep DEF Rollback, GiveBack, Goto, TypeOK, OInv
<1>18. ASSUME NEW c \in Callers, SetTimeout(c) PROVE FailedInv'
  <2>1. \A s \in Slots : slot'[s].tx = slot[s].tx /\ slot'[s].up = slot[s].up
    BY <1>18, <1>0, AfterTypes DEF SetTimeout, Session
  <2> QED
    BY <1>18, <2>1, <1>0 DEF SetTimeout, Goto, TypeOK, OInv, FailedInv
<1>19. ASSUME NEW c \in Callers, SetTimeoutRejects(c) PROVE FailedInv'
  BY <1>19, <1>0 DEF SetTimeoutRejects, Goto, TypeOK, OInv, FailedInv
<1>20. ASSUME NEW c \in Callers, Work(c) PROVE FailedInv'
  <2>1. CASE call[c].timed
    BY <1>20, <2>1, <1>0 DEF Work, Goto, TypeOK, OInv, FailedInv
  <2>2. CASE ~call[c].timed
    BY <1>20, <2>2, <1>0, OthersKeep DEF Work, GiveBack, Goto, TypeOK, OInv
  <2> QED
    BY <2>1, <2>2
<1>21. ASSUME NEW c \in Callers, WorkFails(c) PROVE FailedInv'
  <2>1. CASE call[c].timed
    BY <1>21, <2>1, <1>0 DEF WorkFails, Goto, TypeOK, OInv, FailedInv
  <2>2. CASE ~call[c].timed
    BY <1>21, <2>2, <1>0, OthersKeep DEF WorkFails, GiveBack, Goto, TypeOK, OInv
  <2> QED
    BY <2>1, <2>2
<1>22. ASSUME NEW c \in Callers, Reset(c) PROVE FailedInv'
  BY <1>22, <1>0, OthersKeep DEF Reset, GiveBack, Goto, TypeOK, OInv
<1>23. ASSUME NEW c \in Callers, ResetRejects(c) PROVE FailedInv'
  BY <1>23, <1>0, OthersKeep DEF ResetRejects, Escape, Goto, TypeOK, OInv
<1>24. ASSUME NEW s \in Slots, Die(s) PROVE FailedInv'
  BY <1>24, <1>0 DEF Die, Broken, TypeOK, OInv, FailedInv
<1>25. ASSUME NEW s \in Slots, Discard(s) PROVE FailedInv'
  BY <1>25, <1>0 DEF Discard, Fresh, TypeOK, OInv, FailedInv
<1>26. ASSUME UNCHANGED vars PROVE FailedInv'
  BY <1>26 DEF vars, OInv, FailedInv
<1> QED
  BY <1>1, <1>2, <1>3, <1>4, <1>5, <1>6, <1>7, <1>8, <1>9, <1>10, <1>11, <1>12, <1>13,
     <1>14, <1>15, <1>16, <1>17, <1>18, <1>19, <1>20, <1>21, <1>22, <1>23, <1>24, <1>25,
     <1>26 DEF Next, Step

(***************************************************************************)
(* What a connection is lost by                                            *)
(***************************************************************************)

(* A session that nobody will give back is a broken one. *)
LostAreBroken == \A s \in Slots : slot[s].owner = Lost => ~slot[s].up

(* A call has one connection at a time, and connections break if they may. *)
LossInv ==
  /\ LostAreBroken
  /\ \A c \in Callers : \A s, t \in at[c] : s = t
  /\ ~Dies => \A s \in Slots : slot[s].up

(* A session that stays with its owner, or goes to the pool or to a caller.*)
Safe(s) ==
  /\ slot'[s].owner = Lost => ~slot'[s].up
  /\ ~Dies => slot'[s].up

LEMMA LossAssembled ==
  ASSUME IInv, LossInv, NEW c \in Callers, NEW ss \in SUBSET Slots,
         \A s \in Slots : Safe(s),
         \A s, t \in ss : s = t, at' = [at EXCEPT ![c] = ss]
  PROVE  LossInv'
BY DEF IInv, TypeOK, LossInv, LostAreBroken, Safe

LEMMA LossKept ==
  ASSUME LossInv, at' = at, \A s \in Slots : Safe(s)
  PROVE  LossInv'
BY DEF LossInv, LostAreBroken, Safe

LEMMA InTxSafe ==
  ASSUME IInv, LossInv, NEW c \in Callers, NEW tx \in {"none", "open", "failed"}, InTx(c, tx)
  PROVE  \A s \in Slots : Safe(s)
BY PlacedType DEF IInv, Placed, InTx, Session, LossInv, LostAreBroken, Safe

LEMMA StaySafe ==
  ASSUME LossInv, slot' = slot
  PROVE  \A s \in Slots : Safe(s)
BY DEF LossInv, LostAreBroken, Safe

LEMMA GiveBackSafe ==
  ASSUME IInv, LossInv, NEW c \in Callers, NEW after \in [Slots -> Session],
         \A s \in Slots : after[s].up = slot[s].up, GiveBack(c, after)
  PROVE  LossInv'
<1>1. \A s \in Slots : /\ s \in at[c] => slot'[s].owner = Free /\ slot'[s].up
                       /\ s \notin at[c] => slot'[s] = slot[s]
  BY DEF GiveBack, Released, Fresh, Session
<1>2. \A s \in Slots : Safe(s)
  BY <1>1, ConnectionsAssumption DEF LossInv, LostAreBroken, Safe
<1>3. at' = [at EXCEPT ![c] = {}]
  BY DEF GiveBack
<1> QED
  BY <1>2, <1>3, LossAssembled

(* An error thrown past release() loses the session that is broken. *)
LEMMA EscapeSafe ==
  ASSUME IInv, LossInv, NEW c \in Callers, ~Up(c), Escape(c)
  PROVE  LossInv'
<1>1. \A s \in at[c] : s \in Slots /\ ~slot[s].up
  BY DEF Up, IInv, TypeOK, LossInv
<1>2. \A s \in Slots : slot'[s].up = slot[s].up /\ (s \notin at[c] => slot'[s] = slot[s])
  BY PlacedType DEF IInv, Placed, Escape, Session
<1>3. \A s \in Slots : Safe(s)
  BY <1>1, <1>2 DEF LossInv, LostAreBroken, Safe
<1>4. at' = [at EXCEPT ![c] = {}]
  BY DEF Escape
<1> QED
  BY <1>3, <1>4, LossAssembled

LEMMA LossStep ==
  ASSUME ~BadBudgets, IInv, LossInv, [Next]_vars
  PROVE  LossInv'
<1>0. TypeOK
  BY DEF IInv
<1>1. ASSUME NEW c \in Callers, NEW kind \in Kinds, NEW timed \in BOOLEAN,
             Call(c, kind, timed) PROVE LossInv'
  BY <1>1, StaySafe, LossKept DEF Call
<1>2. ASSUME NEW c \in Callers, NEW s \in Slots, Connect(c, s) PROVE LossInv'
  <2>1. /\ slot'[s].owner = c /\ slot'[s].up = slot[s].up
        /\ \A t \in Slots \ {s} : slot'[t] = slot[t]
    BY <1>2, PlacedType, <1>0 DEF Connect, Placed, Session
  <2>2. \A t \in Slots : Safe(t)
    BY <2>1, ConnectionsAssumption DEF LossInv, LostAreBroken, Safe
  <2>3. at' = [at EXCEPT ![c] = {s}]
    BY <1>2 DEF Connect
  <2> QED
    BY <2>2, <2>3, LossAssembled
<1>3. ASSUME NEW c \in Callers,
             \/ ConnectTimesOut(c) \/ SetLocal(c) \/ TxWork(c) \/ BulkInTransaction(c)
             \/ Nest(c) \/ NestedServed(c) \/ NestedTimesOut(c) \/ SetTimeoutRejects(c)
      PROVE  LossInv'
  <2>1. slot' = slot /\ at' = at
    BY <1>3 DEF ConnectTimesOut, SetLocal, TxWork, BulkInTransaction, Nest, NestedServed,
                NestedTimesOut, SetTimeoutRejects
  <2> QED
    BY <2>1, StaySafe, LossKept
<1>4. ASSUME NEW c \in Callers, Begin(c) \/ TxWorkFails(c) \/ CommitRejects(c) PROVE LossInv'
  <2>1. at' = at /\ \E tx \in {"none", "open", "failed"} : InTx(c, tx)
    BY <1>4 DEF Begin, TxWorkFails, CommitRejects
  <2> QED
    BY <2>1, InTxSafe, LossKept
<1>5. ASSUME NEW c \in Callers, BeginRejects(c) PROVE LossInv'
  <2>1. slot \in [Slots -> Session]
    BY <1>0, PlacedType DEF Placed
  <2> QED
    BY <1>5, <2>1, GiveBackSafe, EscapeSafe DEF BeginRejects
<1>6. ASSUME NEW c \in Callers, SetLocalRejects(c) PROVE LossInv'
  <2>1. ~Up(c)
    BY <1>6 DEF SetLocalRejects
  <2>2. CASE InTx(c, "failed") /\ UNCHANGED <<at, leakedBy>>
    BY <2>2, InTxSafe, LossKept
  <2>3. CASE Escape(c)
    BY <2>1, <2>3, EscapeSafe
  <2> QED
    BY <1>6, <2>2, <2>3 DEF SetLocalRejects
<1>7. ASSUME NEW c \in Callers, Commit(c) \/ Rollback(c) \/ Reset(c) PROVE LossInv'
  <2>1. /\ NoTx \in [Slots -> Session] /\ DefaultTimeout \in [Slots -> Session]
        /\ \A s \in Slots : NoTx[s].up = slot[s].up /\ DefaultTimeout[s].up = slot[s].up
    BY <1>0, PlacedType DEF Placed, NoTx, DefaultTimeout, Session
  <2>2. GiveBack(c, NoTx) \/ GiveBack(c, DefaultTimeout)
    BY <1>7 DEF Commit, Rollback, Reset
  <2> QED
    BY <2>1, <2>2, GiveBackSafe
<1>8. ASSUME NEW c \in Callers, CommitUnanswered(c) PROVE LossInv'
  <2>1. \A s \in Slots : slot'[s] = slot[s] \/ ~slot'[s].up
    BY <1>8, <1>0 DEF CommitUnanswered, Broken, TypeOK
  <2>2. Dies /\ at' = at
    BY <1>8 DEF CommitUnanswered
  <2>3. \A s \in Slots : Safe(s)
    BY <2>1, <2>2 DEF LossInv, LostAreBroken, Safe
  <2> QED
    BY <2>2, <2>3, LossKept
<1>9. ASSUME NEW c \in Callers, SetTimeout(c) PROVE LossInv'
  <2>1. \A s \in Slots : slot'[s].owner = slot[s].owner /\ slot'[s].up = slot[s].up
    BY <1>9, <1>0, PlacedType DEF SetTimeout, Placed, Session
  <2>2. \A s \in Slots : Safe(s)
    BY <2>1 DEF LossInv, LostAreBroken, Safe
  <2> QED
    BY <1>9, <2>2, LossKept DEF SetTimeout
<1>10. ASSUME NEW c \in Callers, Work(c) \/ WorkFails(c) PROVE LossInv'
  <2>1. slot \in [Slots -> Session]
    BY <1>0, PlacedType DEF Placed
  <2>2. \/ slot' = slot /\ at' = at
        \/ GiveBack(c, slot)
    BY <1>10 DEF Work, WorkFails
  <2> QED
    BY <2>1, <2>2, GiveBackSafe, StaySafe, LossKept
<1>11. ASSUME NEW c \in Callers, ResetRejects(c) PROVE LossInv'
  BY <1>11, EscapeSafe DEF ResetRejects
<1>12. ASSUME NEW s \in Slots, Die(s) PROVE LossInv'
  <2>1. Dies /\ at' = at /\ \A t \in Slots : slot'[t] = slot[t] \/ ~slot'[t].up
    BY <1>12, <1>0 DEF Die, Broken, TypeOK
  <2>2. \A t \in Slots : Safe(t)
    BY <2>1 DEF LossInv, LostAreBroken, Safe
  <2> QED
    BY <2>1, <2>2, LossKept
<1>13. ASSUME NEW s \in Slots, Discard(s) PROVE LossInv'
  <2>1. at' = at /\ \A t \in Slots : slot'[t] = slot[t] \/ slot'[t] = Fresh
    BY <1>13, <1>0 DEF Discard, TypeOK
  <2>2. \A t \in Slots : Safe(t)
    BY <2>1, ConnectionsAssumption DEF Fresh, LossInv, LostAreBroken, Safe
  <2> QED
    BY <2>1, <2>2, LossKept
<1>14. ASSUME UNCHANGED vars PROVE LossInv'
  BY <1>14, StaySafe, LossKept DEF vars
<1> QED
  BY <1>1, <1>2, <1>3, <1>4, <1>5, <1>6, <1>7, <1>8, <1>9, <1>10, <1>11, <1>12, <1>13, <1>14
  DEF Next, Step

(***************************************************************************)
(* Theorems                                                                *)
(***************************************************************************)

LEMMA Invariance == Spec => []IInv
BY IInvInit, IInvStep, PTL DEF Spec

(* The state has its type, whatever breaks or is rejected. *)
THEOREM TypeCorrect == Spec => []TypeOK
<1>1. IInv => TypeOK
  BY DEF IInv
<1> QED
  BY <1>1, Invariance, PTL

(* A call finds the session of its connection as onConnect left it, however*)
(* the calls before it have ended (dal.ts 622-637, 680-692).               *)
THEOREM CleanSessions == Spec => []SessionsAreClean
<1>1. IInv => SessionsAreClean
  BY DEF IInv, CleanInv
<1> QED
  BY <1>1, Invariance, PTL

(* Only withClient and the bulk writes can lose a connection.              *)
THEOREM NoTransactionLeaks == Spec => []TransactionsNeverLeak
<1>1. IInv => TransactionsNeverLeak
  BY DEF IInv, LeakInv
<1> QED
  BY <1>1, Invariance, PTL

(* If no callback swallows the error of a statement, a promise that        *)
(* resolves has been committed, and a transaction whose promise rejects    *)
(* has not, unless the answer to its COMMIT was lost.                      *)
THEOREM TrueOutcomes == ASSUME ~Swallows PROVE Spec => []OutcomesAreTrue
<1>1. Init => OInv
  BY IInvInit DEF Init, OInv, ResultsInv, FailedInv
<1>2. OInv /\ [Next]_vars => OInv'
  BY IInvStep, ResultsStep, FailedStep DEF OInv
<1>3. OInv => OutcomesAreTrue
  BY DEF OInv, ResultsInv, OutcomesAreTrue, TxKinds
<1> QED
  BY <1>1, <1>2, <1>3, PTL DEF Spec

(* If the server takes every timeoutMs, the connections that are lost are  *)
(* broken ones: bulkBegin by a BEGIN or SET LOCAL that rejects, withClient *)
(* by the reset of its finally (repository.ts 308-318, dal.ts 686-697).    *)
THEOREM OnlyBrokenAreLost == ASSUME ~BadBudgets PROVE Spec => []LostAreBroken
<1>1. Init => LossInv
  BY ConnectionsAssumption DEF Init, Fresh, LossInv, LostAreBroken
<1>2. IInv /\ LossInv /\ [Next]_vars => LossInv'
  BY LossStep
<1>3. LossInv => LostAreBroken
  BY DEF LossInv
<1> QED
  BY <1>1, <1>2, <1>3, Invariance, PTL DEF Spec

(* So these two are the only causes: as long as no connection breaks, and  *)
(* the server takes every timeoutMs, every call gives its connection back. *)
THEOREM NothingElseLoses ==
  ASSUME ~Dies, ~BadBudgets
  PROVE  Spec => []NoConnectionIsLost
<1>1. Init => LossInv
  BY ConnectionsAssumption DEF Init, Fresh, LossInv, LostAreBroken
<1>2. IInv /\ LossInv /\ [Next]_vars => LossInv'
  BY LossStep
<1>3. LossInv => NoConnectionIsLost
  BY DEF LossInv, LostAreBroken, NoConnectionIsLost
<1> QED
  BY <1>1, <1>2, <1>3, Invariance, PTL DEF Spec

(***************************************************************************)
(* DalLifecycle: the inductive invariant                                   *)
(***************************************************************************)

(* The domain of the process is that of the youngest Dal. *)
DomainInv == Len(dals) # 0 => domain = dals[Len(dals)].cfg

(* A pool that has ended has no clients, and no Dal is closed or closing   *)
(* with an open pool.  pool.end() is refused only after others called it.  *)
PoolInv ==
  /\ \A d \in DOMAIN dals :
       /\ dals[d].pool = "ended" => OnClients(d) = {}
       /\ dals[d].closed \/ dals[d].closing => dals[d].pool # "open"
       /\ dals[d].pool # "open" /\ ~dals[d].closed /\ ~dals[d].closing => d \in gaveUp
  /\ \A u \in Users : doing[u].kind # "idle" => doing[u].dal \in DOMAIN dals
  /\ \A u \in Users : doing[u].refused => doing[u].dal \in gaveUp
  /\ \A u \in Users : doing[u].kind \in {"close", "reset"} => dals[doing[u].dal].pool # "open"

(* Until two of them overlap, a reset is the only one, the singleton stays *)
(* while it runs, and its pool is not open any more.                       *)
ResetInv ==
  ~overlapped =>
    /\ \A u \in Users : Resetting(u) =>
         doing[u].dal = defaultDal /\ defaultDal # 0 /\ dals[defaultDal].pool # "open"
    /\ \A u, x \in Users : Resetting(u) /\ Resetting(x) => u = x

DalIInv ==
  /\ DalTypeOK /\ DomainInv /\ PoolInv /\ ResetInv
  /\ DalsAreAccountedFor /\ ClosedIsDrained /\ OperationsStayInDomain

(***************************************************************************)
(* The parts of the steps                                                  *)
(***************************************************************************)

LEMMA DalFields ==
  ASSUME DalTypeOK
  PROVE  /\ DOMAIN dals = 1 .. Len(dals) /\ Len(dals) \in Nat
         /\ \A d \in DOMAIN dals : dals[d] \in Dal
BY DEF DalTypeOK

(* A constructor appends a Dal with an open pool. *)
LEMMA Constructed ==
  ASSUME DalTypeOK, NEW cfg \in Configs, NEW single \in BOOLEAN, Construct(cfg, single)
  PROVE  /\ dals' \in Seq(Dal) /\ Len(dals') = Len(dals) + 1 /\ Len(dals') <= MaxDals
         /\ DOMAIN dals' = DOMAIN dals \cup {Len(dals) + 1} /\ Len(dals) + 1 \notin DOMAIN dals
         /\ \A d \in DOMAIN dals : dals'[d] = dals[d]
         /\ dals'[Len(dals) + 1] = [cfg |-> cfg, single |-> single, pool |-> "open",
                                    closed |-> FALSE, closing |-> FALSE]
<1>1. [cfg |-> cfg, single |-> single, pool |-> "open", closed |-> FALSE, closing |-> FALSE]
        \in Dal
  BY DEF Dal
<1> QED
  BY <1>1, LifecycleAssumption DEF DalTypeOK, Construct

(* A step of one Dal leaves the others alone. *)
LEMMA OneChanges ==
  ASSUME DalTypeOK, NEW d \in DOMAIN dals, NEW dal \in Dal, dals' = [dals EXCEPT ![d] = dal]
  PROVE  /\ dals' \in Seq(Dal) /\ Len(dals') = Len(dals) /\ DOMAIN dals' = DOMAIN dals
         /\ dals'[d] = dal /\ \A x \in DOMAIN dals : x # d => dals'[x] = dals[x]
BY DEF DalTypeOK

(***************************************************************************)
(* The invariant                                                           *)
(***************************************************************************)

LEMMA IdleType == Idle \in Doing /\ Idle.kind = "idle" /\ ~Idle.refused
BY LifecycleAssumption DEF Idle, Activity, Doing

LEMMA DalIInvInit == DalInit => DalIInv
<1> SUFFICES ASSUME DalInit PROVE DalIInv
  OBVIOUS
<1>1. /\ dals = <<>> /\ DOMAIN dals = {} /\ Len(dals) = 0 /\ dals \in Seq(Dal)
      /\ \A u \in Users : doing[u] = Idle
  BY DEF DalInit
<1>2. DalTypeOK
  <2>1. defaultDal \in 0 .. Len(dals) /\ held \in [Users -> 0 .. Len(dals)] /\ Len(dals) <= MaxDals
    BY <1>1, LifecycleAssumption DEF DalInit
  <2>2. domain \in Configs \cup {NoConfig} /\ overlapped \in BOOLEAN /\ gaveUp \subseteq DOMAIN dals
    BY <1>1 DEF DalInit
  <2>3. doing \in [Users -> Doing]
    BY IdleType DEF DalInit
  <2> QED
    BY <1>1, <2>1, <2>2, <2>3 DEF DalTypeOK
<1>3. DomainInv /\ PoolInv /\ ResetInv
  BY <1>1, IdleType DEF DomainInv, PoolInv, ResetInv, Resetting
<1>4. DalsAreAccountedFor /\ ClosedIsDrained /\ OperationsStayInDomain
  BY <1>1, IdleType DEF DalsAreAccountedFor, ClosedIsDrained, OperationsStayInDomain
<1> QED
  BY <1>2, <1>3, <1>4 DEF DalIInv

(* Getting a Dal: nobody is on the clients of the new one. *)
LEMMA GetStep ==
  ASSUME DalIInv, NEW u \in Users,
         (\E cfg \in Configs : GetDalCreates(u, cfg) \/ NewDal(u, cfg))
           \/ \E cfg \in Configs \cup {NoConfig} : GetDalReturns(u, cfg)
  PROVE  DalIInv'
<1> USE DalFields DEF DalIInv
<1>1. ASSUME NEW cfg \in Configs, GetDalCreates(u, cfg) \/ NewDal(u, cfg) PROVE DalIInv'
  <2>1. PICK single \in BOOLEAN : Construct(cfg, single) /\ (single => defaultDal' = Len(dals) + 1)
                                  /\ (~single => defaultDal' = defaultDal)
    BY <1>1 DEF GetDalCreates, NewDal
  <2>2. defaultDal' # defaultDal => defaultDal = 0
    BY <1>1 DEF GetDalCreates, NewDal
  <2>3. /\ held' = [held EXCEPT ![u] = Len(dals) + 1] /\ domain' = cfg
        /\ UNCHANGED <<doing, gaveUp, overlapped>>
    BY <1>1 DEF GetDalCreates, NewDal, Construct
  <2>4. /\ dals' \in Seq(Dal) /\ Len(dals') = Len(dals) + 1 /\ Len(dals') <= MaxDals
        /\ DOMAIN dals' = DOMAIN dals \cup {Len(dals) + 1} /\ Len(dals) + 1 \notin DOMAIN dals
        /\ \A d \in DOMAIN dals : dals'[d] = dals[d]
        /\ dals'[Len(dals) + 1] = [cfg |-> cfg, single |-> single, pool |-> "open",
                                   closed |-> FALSE, closing |-> FALSE]
    BY <2>1, Constructed
  <2>5. DalTypeOK'
    BY <2>1, <2>3, <2>4 DEF DalTypeOK
  <2>6. DomainInv'
    BY <2>3, <2>4 DEF DomainInv
  <2>7. PoolInv'
    BY <2>3, <2>4 DEF PoolInv, OnClients
  <2>8. ResetInv'
    BY <2>1, <2>2, <2>3, <2>4 DEF ResetInv, Resetting, PoolInv
  <2>9. DalsAreAccountedFor'
    BY <2>1, <2>2, <2>3, <2>4 DEF DalsAreAccountedFor, DalTypeOK
  <2>10. ClosedIsDrained'
    BY <2>3, <2>4 DEF ClosedIsDrained, OnClients
  <2>11. OperationsStayInDomain'
    BY <2>3, <2>4 DEF OperationsStayInDomain, PoolInv
  <2> QED
    BY <2>5, <2>6, <2>7, <2>8, <2>9, <2>10, <2>11
<1>2. ASSUME NEW cfg \in Configs \cup {NoConfig}, GetDalReturns(u, cfg) PROVE DalIInv'
  <2>1. UNCHANGED <<dals, defaultDal, domain, doing, gaveUp, overlapped>>
        /\ held' \in [Users -> 0 .. Len(dals)]
    BY <1>2 DEF GetDalReturns, DalTypeOK
  <2> QED
    BY <2>1 DEF DalTypeOK, DomainInv, PoolInv, ResetInv, DalsAreAccountedFor, ClosedIsDrained,
                OperationsStayInDomain, OnClients, Resetting
<1> QED
  BY <1>1, <1>2

(* A call goes on, on a pool that is open, or ends. *)
LEMMA CallMoves ==
  ASSUME DalIInv, NEW u \in Users, NEW next \in Doing, doing' = [doing EXCEPT ![u] = next],
         ~next.refused, next.kind \in {"idle", "call", "wait"},
         doing[u].kind \in {"idle", "call", "wait"},
         next.kind = "call" => dals[next.dal].pool = "open",
         next.kind # "idle" => next.dal \in DOMAIN dals,
         next.kind # "idle" => \E d \in next.dal .. Len(dals) : Declares(dals[d].cfg, next.target),
         UNCHANGED <<dals, defaultDal, domain, held, gaveUp, overlapped>>
  PROVE  DalIInv'
<1> USE DalFields DEF DalIInv
<1>1. doing'[u] = next /\ \A x \in Users : x # u => doing'[x] = doing[x]
  BY DEF DalTypeOK
<1>2. DalTypeOK'
  BY DEF DalTypeOK
<1>3. DomainInv' /\ DalsAreAccountedFor'
  BY DEF DomainInv, DalsAreAccountedFor
<1>4. \A d \in DOMAIN dals : dals[d].pool # "open" => OnClients(d)' \subseteq OnClients(d)
  BY <1>1 DEF OnClients
<1>5. PoolInv'
  BY <1>1, <1>4 DEF PoolInv
<1>6. ResetInv'
  BY <1>1 DEF ResetInv, Resetting
<1>7. ClosedIsDrained'
  BY <1>4 DEF ClosedIsDrained
<1>8. OperationsStayInDomain'
  BY <1>1 DEF OperationsStayInDomain
<1> QED
  BY <1>2, <1>3, <1>5, <1>6, <1>7, <1>8

LEMMA CallStep ==
  ASSUME DalIInv, NEW u \in Users,
         (\E e \in Entities : CallStarts(u, e) \/ CallWaits(u, e))
           \/ CallServed(u) \/ CallEnds(u)
  PROVE  DalIInv'
<1> USE DalFields DEF DalIInv
<1>1. ASSUME NEW e \in Entities, CallStarts(u, e) \/ CallWaits(u, e) PROVE DalIInv'
  <2>1. PICK kind \in {"call", "wait"} : Awaits(u, kind, held[u], Resolved(e))
    BY <1>1 DEF CallStarts, CallWaits
  <2>2. /\ held[u] \in DOMAIN dals /\ held[u] \in 0 .. MaxDals /\ dals # <<>>
        /\ doing[u] = Idle /\ dals[held[u]].pool = "open" /\ Permits(Resolved(e))
        /\ UNCHANGED <<dals, defaultDal, domain, held, gaveUp, overlapped>>
    BY <1>1, LifecycleAssumption DEF CallStarts, CallWaits, AtRest, DalTypeOK
  <2>3. Len(dals) \in held[u] .. Len(dals) /\ domain = dals[Len(dals)].cfg
    BY <2>2 DEF DomainInv
  <2>4. Declares(dals[Len(dals)].cfg, Resolved(e))
    BY <2>2, <2>3 DEF Permits, Declares
  <2>5. domain \in Configs
    BY <2>2, <2>3 DEF Dal
  <2>6. Resolved(e) \in Targets
    BY <1>1, <2>5 DEF Resolved, Targets
  <2> DEFINE next == Activity(kind, held[u], Resolved(e), FALSE)
  <2>7. next \in Doing /\ next.kind = kind /\ next.dal = held[u] /\ next.target = Resolved(e)
        /\ ~next.refused
    BY <2>1, <2>2, <2>6 DEF Activity, Doing
  <2>8. doing' = [doing EXCEPT ![u] = next]
    BY <2>1 DEF Awaits
  <2> HIDE DEF next
  <2>9. \E d \in next.dal .. Len(dals) : Declares(dals[d].cfg, next.target)
    BY <2>3, <2>4, <2>7
  <2> QED
    BY <2>1, <2>2, <2>7, <2>8, <2>9, IdleType, CallMoves
<1>2. CASE CallServed(u)
  <2>1. /\ doing[u] \in Doing /\ doing[u].kind = "wait" /\ dals[doing[u].dal].pool = "open"
        /\ doing[u].dal \in DOMAIN dals
        /\ \E d \in doing[u].dal .. Len(dals) : Declares(dals[d].cfg, doing[u].target)
        /\ UNCHANGED <<dals, defaultDal, domain, held, gaveUp, overlapped>>
    BY <1>2 DEF CallServed, DalTypeOK, PoolInv, OperationsStayInDomain
  <2> DEFINE next == Activity("call", doing[u].dal, doing[u].target, FALSE)
  <2>2. doing' = [doing EXCEPT ![u] = next]
    BY <1>2 DEF CallServed, Awaits
  <2>3. doing[u].dal \in 0 .. MaxDals /\ doing[u].target \in Targets \cup {NoTarget}
    BY <2>1 DEF Doing
  <2>4. next \in Doing /\ next.kind = "call" /\ next.dal = doing[u].dal
        /\ next.target = doing[u].target /\ ~next.refused
    BY <2>3 DEF Activity, Doing
  <2> HIDE DEF next
  <2> QED
    BY <2>1, <2>2, <2>4, CallMoves
<1>3. CASE CallEnds(u)
  BY <1>3, IdleType, CallMoves DEF CallEnds, Ends
<1> QED
  BY <1>1, <1>2, <1>3

(***************************************************************************)
(* Closing                                                                 *)
(***************************************************************************)

LEMMA EndPoolType ==
  ASSUME DalTypeOK, NEW u \in Users, NEW kind \in {"close", "reset"}, NEW d \in DOMAIN dals,
         EndPool(u, kind, d)
  PROVE  /\ dals' \in Seq(Dal) /\ Len(dals') = Len(dals) /\ DOMAIN dals' = DOMAIN dals
         /\ \A x \in DOMAIN dals : x # d => dals'[x] = dals[x]
         /\ dals'[d].closing /\ dals'[d].closed = dals[d].closed /\ dals'[d].cfg = dals[d].cfg
         /\ dals'[d].single = dals[d].single /\ dals'[d].pool # "open"
         /\ dals[d].pool # "open" => dals'[d].pool = dals[d].pool
         /\ dals'[d].pool = "ended" => dals[d].pool = "ended"
         /\ doing' \in [Users -> Doing]
         /\ \A x \in Users : x # u => doing'[x] = doing[x]
         /\ doing'[u].kind = kind /\ doing'[u].dal = d
         /\ doing'[u].refused <=> dals[d].pool # "open"
<1> USE DalFields
<1> DEFINE pool == IF dals[d].pool = "open" THEN "ending" ELSE dals[d].pool
           dal == Moved(dals[d], pool, dals[d].closed, TRUE)
<1>1. /\ dals[d] \in Dal /\ pool \in {"ending", "ended"} /\ dals[d].closed \in BOOLEAN
      /\ pool = "ended" => dals[d].pool = "ended"
      /\ dals[d].pool # "open" => pool = dals[d].pool
  BY DEF Dal
<1>2. /\ dal \in Dal /\ dal.cfg = dals[d].cfg /\ dal.single = dals[d].single
      /\ dal.pool = pool /\ dal.closed = dals[d].closed /\ dal.closing
  <2> HIDE DEF pool
  <2> QED
    BY <1>1 DEF Moved, Dal
<1>3. dals' = [dals EXCEPT ![d] = dal]
  BY DEF EndPool
<1> HIDE DEF dal, pool
<1>4. /\ dals' \in Seq(Dal) /\ Len(dals') = Len(dals) /\ DOMAIN dals' = DOMAIN dals
      /\ dals'[d] = dal /\ \A x \in DOMAIN dals : x # d => dals'[x] = dals[x]
  BY <1>2, <1>3, OneChanges
<1>5. d \in 0 .. MaxDals
  BY LifecycleAssumption DEF DalTypeOK
<1> DEFINE next == Activity(kind, d, NoTarget, dals[d].pool # "open")
<1>6. next \in Doing /\ next.kind = kind /\ next.dal = d /\ (next.refused <=> dals[d].pool # "open")
  BY <1>5 DEF Activity, Doing
<1>7. doing' = [doing EXCEPT ![u] = next]
  BY DEF EndPool
<1> HIDE DEF next
<1>8. /\ doing' \in [Users -> Doing] /\ doing'[u] = next
      /\ \A x \in Users : x # u => doing'[x] = doing[x]
  BY <1>6, <1>7 DEF DalTypeOK
<1> QED
  BY <1>1, <1>2, <1>4, <1>6, <1>8

(* pool.end() is called, by close() or by a resetDal that closes. *)
LEMMA EndPoolKeeps ==
  ASSUME DalIInv, NEW u \in Users, NEW kind \in {"close", "reset"}, NEW d \in DOMAIN dals,
         AtRest(u), Closable(d), EndPool(u, kind, d), kind = "reset" => d = defaultDal,
         overlapped' \in BOOLEAN, kind = "close" => overlapped' = overlapped,
         kind = "reset" => overlapped' = (overlapped \/ \E x \in Users : Resetting(x)),
         UNCHANGED <<defaultDal, domain, held, gaveUp>>
  PROVE  DalIInv'
<1> USE DalFields DEF DalIInv
<1>1. /\ dals' \in Seq(Dal) /\ Len(dals') = Len(dals) /\ DOMAIN dals' = DOMAIN dals
      /\ \A x \in DOMAIN dals : x # d => dals'[x] = dals[x]
      /\ dals'[d].closing /\ dals'[d].closed = dals[d].closed /\ dals'[d].cfg = dals[d].cfg
      /\ dals'[d].single = dals[d].single /\ dals'[d].pool # "open"
      /\ dals[d].pool # "open" => dals'[d].pool = dals[d].pool
      /\ dals'[d].pool = "ended" => dals[d].pool = "ended"
      /\ doing' \in [Users -> Doing]
      /\ \A x \in Users : x # u => doing'[x] = doing[x]
      /\ doing'[u].kind = kind /\ doing'[u].dal = d
      /\ doing'[u].refused <=> dals[d].pool # "open"
  BY EndPoolType
<1>2. doing[u].kind = "idle" /\ ~dals[d].closed /\ ~dals[d].closing
  BY IdleType DEF AtRest, Closable
<1>3. DalTypeOK'
  BY <1>1 DEF DalTypeOK
<1>4. DomainInv'
  BY <1>1 DEF DomainInv, DalTypeOK
<1>5. \A x : OnClients(x)' \subseteq OnClients(x)
  BY <1>1 DEF OnClients
<1>6. PoolInv'
  BY <1>1, <1>2, <1>5 DEF PoolInv
<1>7. ResetInv'
  <2> SUFFICES ASSUME ~overlapped' PROVE ResetInv'
    BY DEF ResetInv
  <2>1. ~overlapped /\ (kind = "reset" => \A x \in Users : ~Resetting(x))
    OBVIOUS
  <2>2. \A x \in Users : Resetting(x)' <=> (IF x = u THEN kind = "reset" ELSE Resetting(x))
    BY <1>1 DEF Resetting
  <2>3. CASE kind = "reset"
    <3>1. \A x \in Users : Resetting(x)' => x = u
      BY <2>1, <2>2, <2>3
    <3>2. defaultDal' = d /\ d # 0 /\ dals'[defaultDal'].pool # "open"
      BY <1>1, <2>3 DEF DalTypeOK
    <3> QED
      BY <1>1, <3>1, <3>2 DEF ResetInv
  <2>4. CASE kind = "close"
    <3>1. \A x \in Users : Resetting(x)' => Resetting(x) /\ x # u /\ doing'[x] = doing[x]
      BY <1>1, <2>2, <2>4
    <3>2. defaultDal # 0 => defaultDal \in DOMAIN dals
      BY DEF DalTypeOK
    <3>3. dals[defaultDal].pool # "open" /\ defaultDal # 0 => dals'[defaultDal].pool # "open"
      BY <1>1, <3>2
    <3> QED
      BY <2>1, <3>1, <3>3 DEF ResetInv
  <2> QED
    BY <2>3, <2>4
<1>8. DalsAreAccountedFor'
  <2>1. ~overlapped' => ~overlapped
    BY DEF DalTypeOK
  <2> QED
    BY <1>1, <2>1 DEF DalsAreAccountedFor
<1>9. ClosedIsDrained'
  BY <1>1, <1>2, <1>5 DEF ClosedIsDrained
<1>10. OperationsStayInDomain'
  <2>1. \A x \in Users : doing'[x].kind \in {"call", "wait"} =>
          doing[x].kind \in {"call", "wait"} /\ doing'[x] = doing[x] /\ doing[x].dal \in DOMAIN dals
    BY <1>1 DEF PoolInv
  <2>2. \A x \in DOMAIN dals : dals'[x].cfg = dals[x].cfg
    BY <1>1
  <2>3. \A x \in DOMAIN dals : \A y \in x .. Len(dals) : y \in DOMAIN dals
    OBVIOUS
  <2> QED
    BY <1>1, <2>1, <2>2, <2>3 DEF OperationsStayInDomain
<1> QED
  BY <1>3, <1>4, <1>6, <1>7, <1>8, <1>9, <1>10

LEMMA CloseStep ==
  ASSUME DalIInv, NEW u \in Users, Close(u)
  PROVE  DalIInv'
<1>1. held[u] \in DOMAIN dals /\ overlapped' \in BOOLEAN /\ overlapped' = overlapped
  BY DalFields DEF DalIInv, DalTypeOK, Close
<1> QED
  BY <1>1, EndPoolKeeps DEF Close

LEMMA ResetStep ==
  ASSUME DalIInv, NEW u \in Users, ResetDal(u)
  PROVE  DalIInv'
<1> USE DalFields DEF DalIInv
<1>1. defaultDal \in DOMAIN dals /\ overlapped' \in BOOLEAN /\ AtRest(u) /\ defaultDal # 0
      /\ overlapped' = (overlapped \/ \E x \in Users : Resetting(x))
      /\ UNCHANGED <<defaultDal, domain, held, gaveUp>>
  <2>1. AtRest(u) /\ defaultDal # 0 /\ UNCHANGED <<defaultDal, domain, held, gaveUp>>
    BY DEF ResetDal
  <2>2. overlapped' = (overlapped \/ \E x \in Users : Resetting(x))
    BY DEF ResetDal
  <2>3. overlapped' \in BOOLEAN
    BY <2>2
  <2>4. defaultDal \in DOMAIN dals
    BY <2>1 DEF DalTypeOK
  <2> QED
    BY <2>1, <2>2, <2>3, <2>4
<1>2. CASE Closable(defaultDal)
  BY <1>1, <1>2, EndPoolKeeps DEF ResetDal
<1>3. CASE ~Closable(defaultDal)
  <2> DEFINE next == Activity("clear", defaultDal, NoTarget, FALSE)
  <2>1. defaultDal \in 0 .. MaxDals
    BY LifecycleAssumption DEF DalTypeOK
  <2>2. next \in Doing /\ next.kind = "clear" /\ next.dal = defaultDal /\ ~next.refused
    BY <2>1 DEF Activity, Doing
  <2>3. doing' = [doing EXCEPT ![u] = next] /\ UNCHANGED dals
    BY <1>3 DEF ResetDal, Awaits
  <2> HIDE DEF next
  <2>4. /\ doing' \in [Users -> Doing] /\ doing'[u] = next
        /\ \A x \in Users : x # u => doing'[x] = doing[x]
    BY <2>2, <2>3 DEF DalTypeOK
  <2>5. doing[u].kind = "idle" /\ dals[defaultDal].pool # "open"
    BY <1>1, <1>3, IdleType DEF AtRest, Closable, PoolInv
  <2>6. DalTypeOK' /\ DomainInv'
    BY <1>1, <2>3, <2>4 DEF DalTypeOK, DomainInv
  <2>7. \A x : OnClients(x)' \subseteq OnClients(x)
    BY <2>2, <2>4 DEF OnClients
  <2>8. PoolInv' /\ ClosedIsDrained'
    BY <1>1, <2>2, <2>3, <2>4, <2>7 DEF PoolInv, ClosedIsDrained
  <2>9. ResetInv'
    BY <1>1, <2>2, <2>3, <2>4, <2>5 DEF ResetInv, Resetting, DalTypeOK
  <2>10. DalsAreAccountedFor' /\ OperationsStayInDomain'
    BY <1>1, <2>2, <2>3, <2>4 DEF DalsAreAccountedFor, OperationsStayInDomain, DalTypeOK
  <2> QED
    BY <2>6, <2>8, <2>9, <2>10
<1> QED
  BY <1>2, <1>3

(* A pool ends, by itself or by a tool. *)
LEMMA PoolStep ==
  ASSUME DalIInv, NEW d \in 1 .. MaxDals, PoolEnds(d) \/ PoolEndedByTool(d)
  PROVE  DalIInv'
<1> USE DalFields DEF DalIInv
<1>1. PICK pool \in {"ending", "ended"} :
        /\ d \in DOMAIN dals
        /\ dals' = [dals EXCEPT ![d] = Moved(dals[d], pool, dals[d].closed, dals[d].closing)]
        /\ pool = "ended" => OnClients(d) = {} /\ dals[d].pool = "ending" /\ gaveUp' = gaveUp
        /\ pool = "ending" => dals[d].pool = "open" /\ gaveUp' = gaveUp \cup {d}
        /\ UNCHANGED <<defaultDal, domain, held, doing, overlapped>>
  BY DEF PoolEnds, PoolEndedByTool
<1> DEFINE dal == Moved(dals[d], pool, dals[d].closed, dals[d].closing)
<1>2. /\ dal \in Dal /\ dal.pool = pool /\ dal.cfg = dals[d].cfg /\ dal.single = dals[d].single
      /\ dal.closed = dals[d].closed /\ dal.closing = dals[d].closing
  <2>1. dals[d] \in Dal /\ dals[d].closed \in BOOLEAN /\ dals[d].closing \in BOOLEAN
    BY <1>1 DEF Dal
  <2> QED
    BY <2>1 DEF Moved, Dal
<1> HIDE DEF dal
<1>3. /\ dals' \in Seq(Dal) /\ Len(dals') = Len(dals) /\ DOMAIN dals' = DOMAIN dals
      /\ dals'[d] = dal /\ \A x \in DOMAIN dals : x # d => dals'[x] = dals[x]
  BY <1>1, <1>2, OneChanges DEF dal
<1>4. DalTypeOK'
  BY <1>1, <1>3 DEF DalTypeOK
<1>9. DomainInv'
  <2>1. Len(dals) # 0 => Len(dals) \in DOMAIN dals
    OBVIOUS
  <2>2. \A x \in DOMAIN dals : dals'[x].cfg = dals[x].cfg
    BY <1>2, <1>3
  <2> QED
    BY <1>1, <1>3, <2>1, <2>2 DEF DomainInv
<1>5. PoolInv'
  BY <1>1, <1>2, <1>3 DEF PoolInv, OnClients
<1>6. ResetInv'
  BY <1>1, <1>2, <1>3 DEF ResetInv, Resetting, DalTypeOK
<1>7. DalsAreAccountedFor' /\ OperationsStayInDomain'
  BY <1>1, <1>2, <1>3 DEF DalsAreAccountedFor, OperationsStayInDomain
<1>8. ClosedIsDrained'
  BY <1>1, <1>2, <1>3 DEF ClosedIsDrained, OnClients
<1> QED
  BY <1>4, <1>5, <1>6, <1>7, <1>8, <1>9

(* close() is over, and resetDal goes on to its last statement. *)
LEMMA ReturnStep ==
  ASSUME DalIInv, NEW u \in Users, CloseReturns(u) \/ CloseGivesUp(u)
  PROVE  DalIInv'
<1> USE DalFields DEF DalIInv
<1> DEFINE d == doing[u].dal
<1>0. d = doing[u].dal
  OBVIOUS
<1>1. /\ doing[u].kind \in {"close", "reset"} /\ d \in DOMAIN dals
      /\ dals' = [dals EXCEPT ![d] = Moved(dals[d], dals[d].pool, TRUE, FALSE)]
      /\ gaveUp \subseteq gaveUp' /\ gaveUp' \subseteq DOMAIN dals
      /\ dals[d].pool = "ended" \/ d \in gaveUp'
      /\ UNCHANGED <<defaultDal, domain, held, overlapped>>
  BY DEF CloseReturns, CloseGivesUp, Closed, PoolInv, DalTypeOK
<1> HIDE DEF d
<1> DEFINE dal == Moved(dals[d], dals[d].pool, TRUE, FALSE)
<1>2. /\ dal \in Dal /\ dals' = [dals EXCEPT ![d] = dal]
      /\ dal.cfg = dals[d].cfg /\ dal.single = dals[d].single /\ dal.pool = dals[d].pool
      /\ dal.closed /\ ~dal.closing
  <2>1. dals[d] \in Dal /\ dals[d].pool \in {"open", "ending", "ended"}
    BY <1>1 DEF Dal
  <2> QED
    BY <1>1, <2>1 DEF Moved, Dal
<1> HIDE DEF dal
<1>3. /\ dals' \in Seq(Dal) /\ Len(dals') = Len(dals) /\ DOMAIN dals' = DOMAIN dals
      /\ dals'[d] = dal /\ \A x \in DOMAIN dals : x # d => dals'[x] = dals[x]
  BY <1>1, <1>2, OneChanges
<1>4. PICK next \in Doing :
        /\ doing' = [doing EXCEPT ![u] = next] /\ ~next.refused
        /\ next.kind = "clear" => next.dal = d /\ doing[u].kind = "reset"
        /\ next.kind \in {"idle", "clear"}
  <2>1. d \in 0 .. MaxDals
    BY <1>1, LifecycleAssumption DEF DalTypeOK
  <2>2. Returns(u)
    BY DEF CloseReturns, CloseGivesUp
  <2>3. CASE doing[u].kind = "reset"
    <3> DEFINE clear == Activity("clear", d, NoTarget, FALSE)
    <3>1. clear \in Doing /\ clear.kind = "clear" /\ clear.dal = d /\ ~clear.refused
      BY <2>1 DEF Activity, Doing
    <3>2. doing' = [doing EXCEPT ![u] = clear]
      BY <1>0, <2>2, <2>3 DEF Returns, Awaits
    <3> HIDE DEF clear
    <3> QED
      BY <2>3, <3>1, <3>2
  <2>4. CASE doing[u].kind # "reset"
    BY <2>2, <2>4, IdleType DEF Returns, Ends
  <2> QED
    BY <2>3, <2>4
<1>5. /\ doing' \in [Users -> Doing] /\ doing'[u] = next
      /\ \A x \in Users : x # u => doing'[x] = doing[x]
  BY <1>4 DEF DalTypeOK
<1>6. dals[d].pool # "open" /\ \A x : OnClients(x)' \subseteq OnClients(x)
  <2>1. dals[d].pool # "open"
    BY <1>0, <1>1 DEF PoolInv
  <2> QED
    BY <1>4, <1>5, <2>1 DEF OnClients
<1>7. DalTypeOK'
  BY <1>1, <1>3, <1>5 DEF DalTypeOK
<1>13. \A x \in DOMAIN dals :
         dals'[x].cfg = dals[x].cfg /\ dals'[x].single = dals[x].single
           /\ dals'[x].pool = dals[x].pool
  BY <1>2, <1>3
<1>12. DomainInv'
  <2>1. Len(dals) # 0 => Len(dals) \in DOMAIN dals
    OBVIOUS
  <2> QED
    BY <1>1, <1>3, <1>13, <2>1 DEF DomainInv
<1>8. PoolInv'
  <2>1. \A x \in DOMAIN dals' :
          /\ dals'[x].pool = "ended" => OnClients(x)' = {}
          /\ dals'[x].closed \/ dals'[x].closing => dals'[x].pool # "open"
          /\ dals'[x].pool # "open" /\ ~dals'[x].closed /\ ~dals'[x].closing => x \in gaveUp'
    <3> SUFFICES ASSUME NEW x \in DOMAIN dals
                 PROVE  /\ dals'[x].pool = "ended" => OnClients(x)' = {}
                        /\ dals'[x].closed \/ dals'[x].closing => dals'[x].pool # "open"
                        /\ dals'[x].pool # "open" /\ ~dals'[x].closed /\ ~dals'[x].closing
                             => x \in gaveUp'
      BY <1>3
    <3>1. /\ dals[x].pool = "ended" => OnClients(x) = {}
          /\ dals[x].closed \/ dals[x].closing => dals[x].pool # "open"
          /\ dals[x].pool # "open" /\ ~dals[x].closed /\ ~dals[x].closing => x \in gaveUp
      BY DEF PoolInv
    <3>2. dals'[x].pool = dals[x].pool /\ OnClients(x)' \subseteq OnClients(x)
      BY <1>6, <1>13
    <3>3. CASE x = d
      BY <1>2, <1>3, <1>6, <3>1, <3>2, <3>3
    <3>4. CASE x # d
      BY <1>1, <1>3, <3>1, <3>2, <3>4
    <3> QED
      BY <3>3, <3>4
  <2>2. \A x \in Users : doing'[x].kind # "idle" => doing'[x].dal \in DOMAIN dals'
    BY <1>1, <1>3, <1>4, <1>5 DEF PoolInv
  <2>3. \A x \in Users : doing'[x].refused => doing'[x].dal \in gaveUp'
    BY <1>1, <1>4, <1>5 DEF PoolInv
  <2>4. \A x \in Users : doing'[x].kind \in {"close", "reset"} => dals'[doing'[x].dal].pool # "open"
    BY <1>4, <1>5, <1>13 DEF PoolInv
  <2> QED
    BY <2>1, <2>2, <2>3, <2>4 DEF PoolInv
<1>9. ResetInv'
  <2> SUFFICES ASSUME ~overlapped PROVE ResetInv'
    BY <1>1 DEF ResetInv
  <2>1. \A x \in Users : Resetting(x)' => Resetting(x) /\ doing'[x].dal = doing[x].dal
    BY <1>0, <1>4, <1>5 DEF Resetting
  <2>2. defaultDal # 0 => dals'[defaultDal].pool = dals[defaultDal].pool
    BY <1>13 DEF DalTypeOK
  <2> QED
    BY <1>1, <2>1, <2>2 DEF ResetInv
<1>10. DalsAreAccountedFor' /\ OperationsStayInDomain'
  <2>1. DalsAreAccountedFor'
    BY <1>1, <1>3, <1>13 DEF DalsAreAccountedFor
  <2>2. \A x \in Users : doing'[x].kind \in {"call", "wait"} =>
          doing[x].kind \in {"call", "wait"} /\ doing'[x] = doing[x] /\ doing[x].dal \in DOMAIN dals
    BY <1>4, <1>5 DEF PoolInv
  <2>3. \A x \in DOMAIN dals : \A y \in x .. Len(dals) : y \in DOMAIN dals
    OBVIOUS
  <2>4. OperationsStayInDomain'
    BY <1>3, <1>13, <2>2, <2>3 DEF OperationsStayInDomain
  <2> QED
    BY <2>1, <2>4
<1>11. ClosedIsDrained'
  BY <1>1, <1>2, <1>3, <1>6 DEF ClosedIsDrained, PoolInv
<1> QED
  BY <1>7, <1>8, <1>9, <1>10, <1>11, <1>12

(* The singleton is cleared; its pool is not open, unless resets overlap.  *)
LEMMA ClearStep ==
  ASSUME DalIInv, NEW u \in Users, ResetClears(u)
  PROVE  DalIInv'
<1> USE DalFields DEF DalIInv
<1>1. /\ doing[u].kind = "clear" /\ defaultDal' = 0 /\ doing' = [doing EXCEPT ![u] = Idle]
      /\ UNCHANGED <<dals, domain, held, gaveUp, overlapped>>
  BY DEF ResetClears, Ends
<1>2. /\ doing' \in [Users -> Doing] /\ doing'[u].kind = "idle" /\ ~doing'[u].refused
      /\ \A x \in Users : x # u => doing'[x] = doing[x]
  BY <1>1, IdleType DEF DalTypeOK
<1>3. DalTypeOK' /\ DomainInv'
  BY <1>1, <1>2 DEF DalTypeOK, DomainInv
<1>4. \A x : OnClients(x)' \subseteq OnClients(x)
  BY <1>2 DEF OnClients
<1>5. PoolInv' /\ ClosedIsDrained' /\ OperationsStayInDomain'
  BY <1>1, <1>2, <1>4 DEF PoolInv, ClosedIsDrained, OperationsStayInDomain
<1>6. ResetInv'
  BY <1>1, <1>2 DEF ResetInv, Resetting
<1>7. DalsAreAccountedFor'
  BY <1>1 DEF DalsAreAccountedFor, ResetInv, Resetting
<1> QED
  BY <1>3, <1>5, <1>6, <1>7

LEMMA DalIInvStep == DalIInv /\ [DalNext]_dalVars => DalIInv'
<1> SUFFICES ASSUME DalIInv, [DalNext]_dalVars PROVE DalIInv'
  OBVIOUS
<1>1. CASE UNCHANGED dalVars
  BY <1>1 DEF dalVars, DalIInv, DalTypeOK, DomainInv, PoolInv, ResetInv, Resetting, OnClients,
              DalsAreAccountedFor, ClosedIsDrained, OperationsStayInDomain
<1> QED
  BY <1>1, GetStep, CallStep, CloseStep, ResetStep, PoolStep, ReturnStep, ClearStep DEF DalNext

(***************************************************************************)
(* Theorems                                                                *)
(***************************************************************************)

LEMMA DalInvariance == DalSpec => []DalIInv
BY DalIInvInit, DalIInvStep, PTL DEF DalSpec

(* Every variable keeps its type. *)
THEOREM DalTypeCorrect == DalSpec => []DalTypeOK
<1>1. DalIInv => DalTypeOK
  BY DEF DalIInv
<1> QED
  BY <1>1, DalInvariance, PTL

(* A Dal that getDal has made and that is open is the singleton, as long as*)
(* no two resetDal calls overlap (dal.ts 735-760).                         *)
THEOREM SingletonsAccountedFor == DalSpec => []DalsAreAccountedFor
<1>1. DalIInv => DalsAreAccountedFor
  BY DEF DalIInv
<1> QED
  BY <1>1, DalInvariance, PTL

(* A Dal that says it is closed has no call on a client of its pool, if its*)
(* close() did not meet the deadline (dal.ts 251-277).                     *)
THEOREM ClosedDrained == DalSpec => []ClosedIsDrained
<1>1. DalIInv => ClosedIsDrained
  BY DEF DalIInv
<1> QED
  BY <1>1, DalInvariance, PTL

(* The SQL of a Dal names a table whose schema this Dal or a younger one of*)
(* the process has declared, or which one of these or the platform shares, *)
(* and no other (resolveEntitySchema, configureSchemaDomain).              *)
THEOREM DomainKept == DalSpec => []OperationsStayInDomain
<1>1. DalIInv => OperationsStayInDomain
  BY DEF DalIInv
<1> QED
  BY <1>1, DalInvariance, PTL
=============================================================================
