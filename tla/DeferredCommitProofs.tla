------------------------ MODULE DeferredCommitProofs ------------------------
(***************************************************************************)
(* Proofs about DeferredCommit: any number of keys, of operations in the   *)
(* buffer and of other clients' writes.                                    *)
(***************************************************************************)
EXTENDS DeferredCommit, TLAPS

(***************************************************************************)
(* The inductive invariant                                                 *)
(***************************************************************************)

(* The buffer is closed once commit() or discard() has begun, and commit() *)
(* has come to nothing before it is over.                                  *)
PhaseInv ==
  /\ state = "open" <=> pc = "buffer"
  /\ pc # "over" => outcome = "none"
  /\ pc \in {"send", "run"} => Len(out) = Len(ops)
  /\ pc = "send" => \A i \in DOMAIN out : out[i] = NotRun

(* A buffered operation is one that the Repository would take.             *)
OpsInv ==
  /\ \A i \in DOMAIN ops : WellFormed(ops[i])
  /\ pc \in {"send", "run"} => \A i \in DOMAIN ops : Compiles(i)

(* What the branches that have run leave true while others go on: a guarded*)
(* one has written what its row, which nobody else writes any more, calls  *)
(* for, and had seen it in the snapshot.                                   *)
BranchInv(i) ==
  /\ ~out[i].ran => out[i].row = NoRow
  /\ out[i].ran /\ ops[i].from > 0 => out[ops[i].from].ran
  /\ out[i].ran /\ ops[i].kind \in Guarded =>
       LET k == ops[i].key
       IN  /\ snap[k].there /\ table[k].there /\ table[k].ver = ops[i].ver
           /\ out[i].row = Made(i, table[k])
  /\ out[i].ran /\ ops[i].kind = "add" /\ ops[i].strict =>
       out[i].row.there /\ ~snap[ops[i].key].there
  /\ out[i].ran /\ ops[i].kind = "add" /\ out[i].row.there /\ Separate => ~table[ops[i].key].there

(* A row that is not there has no version. *)
TableInv == \A k \in Keys : table[k].there \/ table[k].ver = 0

RunInv ==
  pc = "run" =>
    /\ \A i \in DOMAIN out : BranchInv(i)
    /\ Separate => \A i, j \in Effective : ops[i].key = ops[j].key => i = j

IInv == TypeOK /\ TableInv /\ PhaseInv /\ OpsInv /\ RunInv /\ HandlesSettle /\ AbortsAreDeserved

(***************************************************************************)
(* Types                                                                   *)
(***************************************************************************)

Branch == [ran : BOOLEAN, row : Row]

LEMMA NoRowType == NoRow \in Row /\ ~NoRow.there
BY DEF NoRow, Row

LEMMA NotRunType == NotRun \in Branch /\ ~NotRun.ran /\ NotRun.row = NoRow
BY NoRowType DEF NotRun, Branch

LEMMA RanType ==
  ASSUME NEW row \in Row
  PROVE  /\ [ran |-> TRUE, row |-> row] \in Branch
         /\ [ran |-> TRUE, row |-> row].ran
         /\ [ran |-> TRUE, row |-> row].row = row
BY DEF Branch

LEMMA RevisedType ==
  ASSUME NEW row \in Row, NEW deleted \in BOOLEAN, NEW link \in Nat
  PROVE  /\ Revised(row, deleted, link) \in Row
         /\ Revised(row, deleted, link).there <=> row.there
BY DEF Revised, Row

LEMMA HandleType == Pending \in Handle /\ Rejected \in Handle /\ Empty \in Handle
                    /\ Rejected.is # "pending" /\ Empty.is # "pending"
BY DEF Pending, Rejected, Empty, Handle

LEMMA Facts ==
  ASSUME TypeOK
  PROVE  /\ DOMAIN ops = 1 .. Len(ops) /\ Len(ops) \in Nat
         /\ DOMAIN out = 1 .. Len(out) /\ Len(out) \in Nat
         /\ DOMAIN handles = DOMAIN ops
         /\ \A i \in DOMAIN ops : ops[i] \in Op
         /\ \A i \in DOMAIN out : out[i] \in Branch /\ i \in DOMAIN ops
<1>1. DOMAIN ops = 1 .. Len(ops) /\ Len(ops) \in Nat /\ \A i \in DOMAIN ops : ops[i] \in Op
  BY DEF TypeOK
<1>2. DOMAIN out = 1 .. Len(out) /\ Len(out) \in Nat /\ \A i \in DOMAIN out : out[i] \in Branch
  <2>1. out \in Seq(Branch)
    BY DEF TypeOK, Branch
  <2> QED
    BY <2>1
<1>3. DOMAIN handles = 1 .. Len(handles) /\ Len(handles) = Len(ops) /\ Len(out) <= Len(ops)
  BY DEF TypeOK
<1> QED
  BY <1>1, <1>2, <1>3

LEMMA Kinds6 ==
  ASSUME NEW op \in Op
  PROVE  /\ op.kind \in {"add", "update", "delete", "restore", "hardDelete", "find"}
         /\ op.key \in Keys /\ op.from \in Nat /\ op.ver \in Nat /\ op.strict \in BOOLEAN
BY DeferredAssumption DEF Op

(* The id of a row stays a natural number when it is rounded. *)
LEMMA JsonType ==
  ASSUME NEW n \in Nat
  PROVE  JsonNumber(n) \in Nat
<1>1. n % 2 # 0 => n > 0
  OBVIOUS
<1> QED
  BY <1>1 DEF JsonNumber

LEMMA RejectAllType ==
  ASSUME TypeOK
  PROVE  /\ RejectAll \in Seq(Handle) /\ Len(RejectAll) = Len(handles)
         /\ DOMAIN RejectAll = DOMAIN handles
         /\ \A i \in DOMAIN handles : RejectAll[i].is # "pending"
<1>1. DOMAIN handles = 1 .. Len(handles) /\ Len(handles) \in Nat
  BY DEF TypeOK
<1>2. RejectAll = [i \in 1 .. Len(handles) |-> Rejected]
  BY <1>1 DEF RejectAll
<1>3. RejectAll \in Seq(Handle) /\ Len(RejectAll) = Len(handles)
  BY <1>1, <1>2, HandleType
<1> QED
  BY <1>1, <1>2, <1>3, HandleType

(* What an operation makes of a row is there as the row is. *)
LEMMA MadeType ==
  ASSUME TypeOK, NEW i \in DOMAIN out, NEW row \in Row,
         ops[i].from > 0 => ops[i].from \in DOMAIN out
  PROVE  Made(i, row) \in Row /\ (Made(i, row).there <=> row.there)
<1> USE Facts
<1>1. ops[i] \in Op /\ row.deleted \in BOOLEAN /\ row.link \in Nat
  BY DEF Row
<1>2. ops[i].from > 0 => Link(i) \in Nat
  <2> SUFFICES ASSUME ops[i].from > 0 PROVE Link(i) \in Nat
    OBVIOUS
  <2>1. out[ops[i].from].row \in Row
    BY DEF Branch
  <2> QED
    BY <2>1 DEF Link, Row
<1> DEFINE link == IF ops[i].from > 0 THEN Link(i) ELSE row.link
<1>3. link \in Nat
  BY <1>1, <1>2
<1> HIDE DEF link
<1>4. CASE ops[i].kind = "hardDelete"
  BY <1>4 DEF Made
<1>5. CASE ops[i].kind = "update"
  <2>1. Made(i, row) = Revised(row, row.deleted, link)
    BY <1>5 DEF Made, link
  <2>2. /\ Revised(row, row.deleted, link) \in Row
        /\ Revised(row, row.deleted, link).there <=> row.there
    BY <1>1, <1>3, RevisedType
  <2> QED
    BY <2>1, <2>2
<1>6. CASE ops[i].kind \notin {"hardDelete", "update"}
  <2>1. Made(i, row) = Revised(row, ops[i].kind = "delete", row.link)
    BY <1>6 DEF Made
  <2> QED
    BY <1>1, <2>1 DEF Revised, Row
<1> QED
  BY <1>4, <1>5, <1>6

(***************************************************************************)
(* Steps of commit() before and after the statement                        *)
(***************************************************************************)

LEMMA IInvInit == Init => IInv
<1> SUFFICES ASSUME Init PROVE IInv
  OBVIOUS
<1>1. /\ ops = <<>> /\ handles = <<>> /\ out = <<>> /\ DOMAIN ops = {} /\ DOMAIN out = {}
      /\ DOMAIN handles = {} /\ Len(ops) = 0 /\ Len(handles) = 0 /\ Len(out) = 0
      /\ pc = "buffer" /\ state = "open" /\ outcome = "none" /\ nextId = 2
  BY DEF Init
<1>2. table \in [Keys -> Row]
  <2>1. \A ver \in 1 .. MaxVer + 1, deleted \in BOOLEAN : Present(1, ver, deleted, 0) \in Row
    <3>1. \A ver \in 1 .. MaxVer + 1 : ver \in Nat
      BY DeferredAssumption
    <3> QED
      BY <3>1 DEF Present, Row
  <2> QED
    BY <2>1, NoRowType DEF Init
<1>3. snap \in [Keys -> Row]
  BY NoRowType DEF Init
<1>4. TypeOK
  BY <1>1, <1>2, <1>3 DEF TypeOK
<1>6. TableInv
  <2>1. NoRow.ver = 0 /\ \A ver, deleted : Present(1, ver, deleted, 0).there
    BY DEF NoRow, Present
  <2>2. ASSUME NEW k \in Keys PROVE table[k].there \/ table[k].ver = 0
    <3>1. table[k] = NoRow
            \/ \E ver \in 1 .. MaxVer + 1, deleted \in BOOLEAN : table[k] = Present(1, ver, deleted, 0)
      BY DEF Init
    <3> QED
      BY <2>1, <3>1
  <2> QED
    BY <2>2 DEF TableInv
<1>5. PhaseInv /\ OpsInv /\ RunInv /\ HandlesSettle /\ AbortsAreDeserved
  BY <1>1 DEF PhaseInv, OpsInv, RunInv, HandlesSettle, AbortsAreDeserved
<1> QED
  BY <1>4, <1>5, <1>6 DEF IInv

LEMMA RegisterStep ==
  ASSUME IInv, NEW op \in Op, Register(op)
  PROVE  IInv'
<1> USE Facts DEF IInv
<1>1. /\ state = "open" /\ pc = "buffer" /\ outcome = "none" /\ WellFormed(op)
      /\ ops' = Append(ops, op) /\ handles' = Append(handles, Pending)
      /\ UNCHANGED <<table, nextId, state, pc, snap, out, outcome>>
  BY DEF Register, PhaseInv
<1>2. /\ ops' \in Seq(Op) /\ handles' \in Seq(Handle) /\ Len(ops') = Len(ops) + 1
      /\ Len(handles') = Len(handles) + 1
      /\ \A i \in DOMAIN ops' : (i \in DOMAIN ops /\ ops'[i] = ops[i]) \/ ops'[i] = op
  BY <1>1, HandleType DEF TypeOK
<1>3. TypeOK'
  BY <1>1, <1>2 DEF TypeOK
<1>4. PhaseInv' /\ OpsInv' /\ RunInv' /\ TableInv'
  BY <1>1, <1>2 DEF PhaseInv, OpsInv, RunInv, WellFormed, TableInv
<1>5. HandlesSettle' /\ AbortsAreDeserved'
  BY <1>1 DEF HandlesSettle, AbortsAreDeserved
<1> QED
  BY <1>3, <1>4, <1>5

(* commit() or discard() ends with every handle rejected. *)
LEMMA FailStep ==
  ASSUME IInv, pc # "buffer" \/ state' = "discarded", table' \in [Keys -> Row], TableInv',
         outcome' \in Codes \cup {"none", "invalid", "failed", "unknown"},
         state' \in {state, "discarded"}, state' # "open",
         pc' = "over", handles' = RejectAll, UNCHANGED <<nextId, ops, snap, out>>,
         outcome' \in Codes => AbortsAreDeserved'
  PROVE  IInv'
<1> USE Facts DEF IInv
<1>1. TypeOK'
  BY RejectAllType DEF TypeOK
<1>2. PhaseInv' /\ RunInv'
  BY DEF PhaseInv, RunInv
<1>3. OpsInv'
  BY DEF OpsInv, WellFormed
<1>4. HandlesSettle'
  BY RejectAllType DEF HandlesSettle
<1>5. AbortsAreDeserved'
  BY DEF AbortsAreDeserved, Codes
<1> QED
  BY <1>1, <1>2, <1>3, <1>4, <1>5

LEMMA EdgeStep ==
  ASSUME IInv, Commit \/ Discard \/ CommitNothing \/ Merge \/ MergeRejects \/ Start \/ StatementFails
  PROVE  IInv'
<1> USE Facts DEF IInv
<1>1. CASE Commit
  <2>1. TypeOK'
    BY <1>1 DEF Commit, TypeOK
  <2>2. PhaseInv' /\ OpsInv' /\ RunInv' /\ TableInv'
    BY <1>1 DEF Commit, PhaseInv, OpsInv, RunInv, WellFormed, TableInv
  <2>3. HandlesSettle' /\ AbortsAreDeserved'
    BY <1>1 DEF Commit, HandlesSettle, AbortsAreDeserved, PhaseInv
  <2> QED
    BY <2>1, <2>2, <2>3
<1>2. CASE Discard
  <2>1. outcome = "none"
    BY <1>2 DEF Discard, PhaseInv
  <2> QED
    BY <1>2, <2>1, FailStep DEF Discard, Codes, TypeOK, TableInv
<1>3. CASE CommitNothing
  <2>1. TypeOK'
    BY <1>3 DEF CommitNothing, TypeOK
  <2>2. PhaseInv' /\ OpsInv' /\ RunInv' /\ TableInv'
    BY <1>3 DEF CommitNothing, PhaseInv, OpsInv, RunInv, WellFormed, TableInv
  <2>3. HandlesSettle' /\ AbortsAreDeserved'
    BY <1>3 DEF CommitNothing, HandlesSettle, AbortsAreDeserved, TypeOK
  <2> QED
    BY <2>1, <2>2, <2>3
<1>4. CASE Merge
  <2>1. out' = [i \in 1 .. Len(ops) |-> NotRun]
    BY <1>4 DEF Merge
  <2>2. out' \in Seq(Branch) /\ Len(out') = Len(ops) /\ \A i \in DOMAIN out' : out'[i] = NotRun
    BY <2>1, NotRunType
  <2>3. TypeOK'
    BY <1>4, <2>2 DEF Merge, TypeOK, Branch
  <2>4. PhaseInv' /\ RunInv' /\ TableInv'
    BY <1>4, <2>2 DEF Merge, PhaseInv, RunInv, TableInv
  <2>5. OpsInv'
    BY <1>4 DEF Merge, OpsInv, WellFormed, Compiles
  <2>6. HandlesSettle' /\ AbortsAreDeserved'
    BY <1>4 DEF Merge, HandlesSettle, AbortsAreDeserved, PhaseInv
  <2> QED
    BY <2>3, <2>4, <2>5, <2>6
<1>5. CASE MergeRejects
  BY <1>5, FailStep DEF MergeRejects, Fail, Codes, TypeOK, PhaseInv, TableInv
<1>6. CASE Start
  <2>1. /\ pc = "send" /\ pc' = "run" /\ snap' = table /\ outcome = "none"
        /\ UNCHANGED <<table, nextId, state, ops, handles, out, outcome>>
        /\ \A i \in DOMAIN out : out[i] = NotRun
    BY <1>6 DEF Start, PhaseInv
  <2>2. TypeOK'
    BY <2>1 DEF TypeOK
  <2>3. PhaseInv' /\ OpsInv' /\ TableInv'
    BY <2>1 DEF PhaseInv, OpsInv, WellFormed, Compiles, TableInv
  <2>4. RunInv'
    BY <2>1, NotRunType, NoRowType DEF RunInv, BranchInv, Effective
  <2>5. HandlesSettle' /\ AbortsAreDeserved'
    BY <2>1 DEF HandlesSettle, AbortsAreDeserved
  <2> QED
    BY <2>2, <2>3, <2>4, <2>5
<1>7. CASE StatementFails
  BY <1>7, FailStep DEF StatementFails, Fail, Codes, TypeOK, PhaseInv, TableInv
<1> QED
  BY <1>1, <1>2, <1>3, <1>4, <1>5, <1>6, <1>7

(***************************************************************************)
(* Branches of the statement                                               *)
(***************************************************************************)

(* The branch whose output another one reads comes before it. *)
LEMMA RefType ==
  ASSUME IInv, pc = "run", NEW i \in DOMAIN out
  PROVE  /\ DOMAIN out = DOMAIN ops /\ ops[i] \in Op
         /\ ops[i].from > 0 => ops[i].from \in DOMAIN out
<1> USE Facts DEF IInv
<1>1. DOMAIN out = DOMAIN ops /\ ops[i] \in Op
  BY DEF PhaseInv
<1>2. Compiles(i) /\ ops[i].from \in Nat
  BY <1>1, Kinds6 DEF OpsInv
<1> QED
  BY <1>1, <1>2 DEF Compiles

(* A guarded branch that has run wrote a row, so that its key is taken. *)
LEMMA RanWrote ==
  ASSUME IInv, pc = "run", NEW i \in DOMAIN out, out[i].ran, ops[i].kind \in Guarded
  PROVE  out[i].row.there /\ i \in WroteKey(ops[i].key)
<1> USE Facts DEF IInv
<1>1. /\ table[ops[i].key].there /\ out[i].row = Made(i, table[ops[i].key])
  BY DEF RunInv, BranchInv
<1>2. table[ops[i].key] \in Row
  BY RefType, Kinds6 DEF TypeOK
<1>4. ops[i].from > 0 => ops[i].from \in DOMAIN out
  BY RefType
<1>3. out[i].row.there
  BY <1>1, <1>2, <1>4, MadeType
<1> QED
  BY <1>3 DEF WroteKey, Writes

(* A branch has run: what it found and wrote is in the invariant. *)
LEMMA ReturnStep ==
  ASSUME IInv, NEW i \in DOMAIN out, NEW row \in Row, CanRun(i), Returns(i, row),
         UNCHANGED <<table, state, ops, snap>>, nextId' \in Nat,
         ops[i].kind \in Guarded =>
           LET k == ops[i].key
           IN  /\ snap[k].there /\ table[k].there /\ table[k].ver = ops[i].ver
               /\ row = Made(i, table[k]),
         ops[i].kind = "add" /\ ops[i].strict => row.there /\ ~snap[ops[i].key].there,
         ops[i].kind = "add" /\ row.there /\ Separate => ~table[ops[i].key].there,
         ops[i].kind \in Writes /\ row.there /\ Separate => WroteKey(ops[i].key) = {}
  PROVE  IInv'
<1> USE Facts DEF IInv
<1>1. /\ pc = "run" /\ ~out[i].ran /\ (ops[i].from > 0 => out[ops[i].from].ran)
      /\ out' = [out EXCEPT ![i] = [ran |-> TRUE, row |-> row]]
      /\ UNCHANGED <<pc, handles, outcome>>
  BY DEF CanRun, Returns
<1> DEFINE branch == [ran |-> TRUE, row |-> row]
<1>2. branch \in Branch /\ branch.ran /\ branch.row = row
  BY RanType
<1> HIDE DEF branch
<1>3. /\ out' \in Seq(Branch) /\ Len(out') = Len(out) /\ DOMAIN out' = DOMAIN out
      /\ out'[i] = branch /\ \A j \in DOMAIN out : j # i => out'[j] = out[j]
  <2>1. out \in Seq(Branch)
    BY DEF TypeOK, Branch
  <2> QED
    BY <1>1, <1>2, <2>1 DEF branch
<1>4. TypeOK'
  BY <1>1, <1>3 DEF TypeOK, Branch
<1>5. PhaseInv' /\ OpsInv' /\ TableInv'
  BY <1>1, <1>3 DEF PhaseInv, OpsInv, WellFormed, Compiles, TableInv
<1>6. HandlesSettle' /\ AbortsAreDeserved'
  BY <1>1 DEF HandlesSettle, AbortsAreDeserved, PhaseInv, Codes
<1>7. \A j \in DOMAIN out : j = i \/ out[j].ran =>
        /\ ops[j].from > 0 => ops[j].from # i /\ out[ops[j].from].ran /\ ops[j].from \in DOMAIN out
        /\ Made(j, table[ops[j].key])' = Made(j, table[ops[j].key])
  <2> SUFFICES ASSUME NEW j \in DOMAIN out, j = i \/ out[j].ran
               PROVE  /\ ops[j].from > 0 => ops[j].from # i /\ out[ops[j].from].ran
                                            /\ ops[j].from \in DOMAIN out
                      /\ Made(j, table[ops[j].key])' = Made(j, table[ops[j].key])
    OBVIOUS
  <2>1. ops[j].from > 0 => out[ops[j].from].ran
    BY <1>1 DEF RunInv, BranchInv
  <2>2. ops[j].from > 0 => ops[j].from \in DOMAIN out
    BY <1>1, RefType
  <2>3. ops[j].from > 0 => Link(j)' = Link(j)
    BY <1>1, <1>3, <2>1, <2>2 DEF Link
  <2>4. Made(j, table[ops[j].key])' = Made(j, table[ops[j].key])
    BY <1>1, <2>3 DEF Made, Revised
  <2> QED
    BY <1>1, <2>1, <2>2, <2>4
<1>8. ASSUME NEW j \in DOMAIN out PROVE BranchInv(j)'
  <2>1. BranchInv(j)
    BY <1>1 DEF RunInv
  <2>2. Separate' <=> Separate
    BY DEF Separate
  <2>3. CASE j = i
    BY <1>1, <1>2, <1>3, <1>7, <2>2, <2>3 DEF BranchInv
  <2>4. CASE j # i
    BY <1>1, <1>2, <1>3, <1>7, <2>1, <2>2, <2>4 DEF BranchInv
  <2> QED
    BY <2>3, <2>4
<1>9. ASSUME Separate, NEW j \in Effective', NEW k \in Effective', ops[j].key = ops[k].key
      PROVE  j = k
  <2>1. /\ j \in DOMAIN out /\ k \in DOMAIN out
        /\ j # i => j \in Effective /\ j \in WroteKey(ops[j].key)
        /\ k # i => k \in Effective /\ k \in WroteKey(ops[k].key)
    BY <1>3 DEF Effective, WroteKey
  <2>2. j = i \/ k = i => ops[i].kind \in Writes /\ row.there
    BY <1>2, <1>3 DEF Effective
  <2>3. CASE j # i /\ k # i
    BY <1>1, <1>9, <2>1, <2>3 DEF RunInv
  <2>4. CASE j = i \/ k = i
    BY <1>9, <2>1, <2>2, <2>4
  <2> QED
    BY <2>3, <2>4
<1>10. RunInv'
  <2>1. Separate' <=> Separate
    BY DEF Separate
  <2> QED
    BY <1>3, <1>8, <1>9, <2>1 DEF RunInv
<1> QED
  BY <1>4, <1>5, <1>6, <1>10

LEMMA GuardedStep ==
  ASSUME IInv, NEW i \in DOMAIN out, RunGuarded(i)
  PROVE  IInv'
<1> USE Facts DEF IInv
<1>1. /\ CanRun(i) /\ pc = "run" /\ ops[i].kind \in Guarded /\ Hits(i)
      /\ Returns(i, Made(i, table[ops[i].key])) /\ UNCHANGED <<table, nextId, state, ops, snap>>
  BY DEF RunGuarded, CanRun
<1>2. WroteKey(ops[i].key) = {} /\ snap[ops[i].key].there /\ table[ops[i].key].ver = ops[i].ver
  BY <1>1 DEF Hits
<1>4. table[ops[i].key] \in Row /\ ops[i].key \in Keys /\ ops[i].ver > 0
  BY <1>1, RefType, Kinds6 DEF TypeOK, OpsInv, WellFormed
<1>3. table[ops[i].key].there
  BY <1>2, <1>4 DEF TableInv
<1>5. Made(i, table[ops[i].key]) \in Row
  BY <1>1, <1>4, RefType, MadeType
<1> DEFINE row == Made(i, table[ops[i].key])
<1>6. row \in Row /\ Returns(i, row) /\ row = Made(i, table[ops[i].key])
  BY <1>1, <1>5
<1> HIDE DEF row
<1>7. ops[i].kind # "add" /\ nextId' \in Nat
  BY <1>1 DEF Guarded, TypeOK
<1> QED
  BY <1>1, <1>2, <1>3, <1>6, <1>7, ReturnStep

LEMMA AddStep ==
  ASSUME IInv, NEW i \in DOMAIN out, RunAdd(i)
  PROVE  IInv'
<1> USE Facts DEF IInv
<1> DEFINE k == ops[i].key
           link == IF ops[i].from > 0 THEN Link(i) ELSE 0
           row == Present(nextId, 1, FALSE, link)
<1>1. /\ CanRun(i) /\ pc = "run" /\ ops[i].kind = "add" /\ ~Current(k).there
      /\ ops[i].strict => ~snap[k].there
      /\ Returns(i, row) /\ nextId' = nextId + 1 /\ UNCHANGED <<table, state, ops, snap>>
  BY DEF RunAdd, CanRun
<1>2. row \in Row /\ row.there
  <2>1. link \in Nat
    <3>1. ops[i].from > 0 => out[ops[i].from].row \in Row
      BY <1>1, RefType DEF Branch
    <3> QED
      BY <3>1 DEF Link, Row
  <2>2. nextId \in Nat
    BY DEF TypeOK
  <2> HIDE DEF link
  <2> QED
    BY <2>1, <2>2 DEF Present, Row
<1>3. ASSUME Separate PROVE WroteKey(k) = {}
  <2> SUFFICES ASSUME NEW j \in WroteKey(k) PROVE FALSE
    OBVIOUS
  <2>1. /\ j \in DOMAIN out /\ out[j].row.there /\ ops[j].kind \in Writes /\ ops[j].key = k
        /\ out[j].ran /\ j # i
    BY <1>1, NoRowType DEF WroteKey, RunInv, BranchInv, CanRun
  <2>2. \A x \in WroteKey(k) : ops[x].kind = "hardDelete"
    <3> SUFFICES ASSUME NEW x \in WroteKey(k), ops[x].kind # "hardDelete" PROVE FALSE
      OBVIOUS
    <3> DEFINE y == CHOOSE y \in WroteKey(k) : ops[y].kind # "hardDelete"
    <3>1. y \in WroteKey(k)
      OBVIOUS
    <3>2. Current(k) = out[y].row
      BY DEF Current
    <3> QED
      BY <1>1, <3>1, <3>2 DEF WroteKey
  <2>3. snap[k].there
    BY <1>1, <2>1, <2>2 DEF RunInv, BranchInv, Guarded
  <2>4. i \in DOMAIN ops /\ j \in DOMAIN ops
    BY <2>1
  <2> QED
    BY <1>1, <1>3, <2>1, <2>3, <2>4 DEF Separate
<1>4. Separate => ~table[k].there
  BY <1>1, <1>3 DEF Current
<1>5. nextId' \in Nat /\ ops[i].kind \notin Guarded
  BY <1>1 DEF TypeOK, Guarded
<1> HIDE DEF row
<1> QED
  BY <1>1, <1>2, <1>3, <1>4, <1>5, ReturnStep

LEMMA SkipStep ==
  ASSUME IInv, NEW i \in DOMAIN out, CanRun(i), Returns(i, NoRow),
         ops[i].kind = "find" \/ (ops[i].kind = "add" /\ ~ops[i].strict),
         UNCHANGED <<table, nextId, state, ops, snap>>
  PROVE  IInv'
<1>1. ops[i].kind \notin Guarded /\ nextId' \in Nat
  BY DEF Guarded, IInv, TypeOK
<1> QED
  BY <1>1, ReturnStep, NoRowType

(* A branch that raises ends commit() with a code that is deserved. *)
LEMMA RaiseStep ==
  ASSUME IInv, NEW i \in DOMAIN out, CanRun(i), NEW code \in Codes, Raises(code),
         UNCHANGED <<table, nextId, state, ops, snap>>,
         outcome' = code => AbortsAreDeserved'
  PROVE  IInv'
<1>1. pc # "buffer" /\ state # "open"
  BY DEF CanRun, IInv, PhaseInv
<1>2. table' \in [Keys -> Row] /\ TableInv'
  BY DEF IInv, TypeOK, TableInv
<1> QED
  BY <1>1, <1>2, FailStep DEF Raises, Fail

LEMMA MissStep ==
  ASSUME IInv, NEW i \in DOMAIN out, GuardedMisses(i)
  PROVE  IInv'
<1> USE Facts DEF IInv
<1>1. /\ CanRun(i) /\ pc = "run" /\ ~out[i].ran /\ ops[i].kind \in Guarded /\ ~Hits(i)
      /\ Raises(AbortCode(i)) /\ UNCHANGED <<table, nextId, state, ops, snap>>
  BY DEF GuardedMisses, CanRun
<1>2. i \in DOMAIN ops /\ out[i].row = NoRow
  BY <1>1, RefType DEF RunInv, BranchInv
<1>3. CASE snap[ops[i].key].there
  <2>1. AbortCode(i) = "ERR01" /\ outcome' = "ERR01"
    BY <1>1, <1>3 DEF AbortCode, Raises, Fail
  <2>2. \A j \in WroteKey(ops[i].key) : j # i /\ j \in DOMAIN ops
                                        /\ ops[j].kind \in Writes /\ ops[j].key = ops[i].key
    BY <1>2, NoRowType DEF WroteKey
  <2>3. \/ snap[ops[i].key].ver # ops[i].ver \/ table[ops[i].key].ver # ops[i].ver
        \/ table[ops[i].key].id # snap[ops[i].key].id
        \/ \E j \in DOMAIN ops : i # j /\ ops[j].kind \in Writes /\ ops[j].key = ops[i].key
    BY <1>1, <1>3, <2>2 DEF Hits
  <2>4. AbortsAreDeserved'
    BY <1>1, <1>2, <1>3, <2>1, <2>3 DEF AbortsAreDeserved
  <2> QED
    BY <1>1, <2>1, <2>4, RaiseStep DEF Codes
<1>4. CASE ~snap[ops[i].key].there
  <2>1. AbortCode(i) = "ERR03" /\ outcome' = "ERR03"
    BY <1>1, <1>4 DEF AbortCode, Raises, Fail
  <2>2. AbortsAreDeserved'
    BY <1>1, <1>2, <1>4, <2>1 DEF AbortsAreDeserved, Guarded
  <2> QED
    BY <1>1, <2>1, <2>2, RaiseStep DEF Codes
<1> QED
  BY <1>3, <1>4

LEMMA ConflictStep ==
  ASSUME IInv, NEW i \in DOMAIN out, AddConflicts(i) \/ AddSkips(i) \/ RunFind(i)
  PROVE  IInv'
<1> USE Facts DEF IInv
<1>1. /\ CanRun(i) /\ pc = "run" /\ ~out[i].ran /\ UNCHANGED <<table, nextId, state, ops, snap>>
      /\ i \in DOMAIN ops /\ out[i].row = NoRow
  BY RefType DEF AddConflicts, AddSkips, RunFind, CanRun, RunInv, BranchInv
<1>2. CASE AddConflicts(i)
  <2>1. PICK code \in {"ERR04", "ERR05"} : Raises(code) /\ outcome' = code
    BY <1>2 DEF AddConflicts, Raises, Fail
  <2>2. AbortsAreDeserved'
    BY <1>1, <1>2, <2>1 DEF AddConflicts, AbortsAreDeserved
  <2> QED
    BY <1>1, <2>1, <2>2, RaiseStep DEF Codes
<1>3. CASE AddSkips(i) /\ ~ops[i].strict
  BY <1>1, <1>3, SkipStep DEF AddSkips
<1>4. CASE AddSkips(i) /\ ops[i].strict
  <2> DEFINE k == ops[i].key
  <2>1. Raises("ERR04") /\ outcome' = "ERR04" /\ ops[i].kind = "add" /\ Current(k).there
    BY <1>4 DEF AddSkips, Raises, Fail
  <2>2. table[k].there \/ snap[k].there
        \/ \E j \in DOMAIN ops : i # j /\ ops[j].kind = "add" /\ ops[j].key = k
    <3>1. CASE WroteKey(k) = {}
      BY <2>1, <3>1 DEF Current
    <3>2. ASSUME NEW j \in WroteKey(k)
          PROVE  table[k].there \/ (j \in DOMAIN ops /\ i # j /\ ops[j].kind = "add" /\ ops[j].key = k)
      <4>1. j \in DOMAIN out /\ j \in DOMAIN ops /\ out[j].row.there /\ ops[j].kind \in Writes
            /\ ops[j].key = k /\ j # i /\ out[j].ran
        BY <1>1, NoRowType DEF WroteKey, RunInv, BranchInv
      <4>2. ops[j].kind \in Guarded => table[k].there
        BY <1>1, <4>1 DEF RunInv, BranchInv
      <4> QED
        BY <4>1, <4>2 DEF Writes
    <3> QED
      BY <3>1, <3>2
  <2>3. AbortsAreDeserved'
    BY <1>1, <2>1, <2>2 DEF AbortsAreDeserved
  <2> QED
    BY <1>1, <2>1, <2>3, RaiseStep DEF Codes
<1>5. CASE RunFind(i)
  <2> DEFINE found == snap[ops[i].key].there /\ ~snap[ops[i].key].deleted
  <2>1. ops[i].kind = "find"
    BY <1>5 DEF RunFind
  <2>2. CASE found
    <3>1. Returns(i, snap[ops[i].key])
      BY <1>5, <2>2 DEF RunFind
    <3>2. snap[ops[i].key] \in Row /\ nextId' \in Nat /\ ops[i].kind \notin Writes
      BY <1>1, <2>1, Kinds6 DEF TypeOK, Writes, Guarded
    <3> QED
      BY <1>1, <2>1, <3>1, <3>2, ReturnStep DEF Writes
  <2>3. CASE ~found /\ ops[i].strict
    <3>1. Raises("ERR03") /\ outcome' = "ERR03"
      BY <1>5, <2>3 DEF RunFind, Raises, Fail
    <3>2. AbortsAreDeserved'
      BY <1>1, <2>1, <2>3, <3>1 DEF AbortsAreDeserved
    <3> QED
      BY <1>1, <3>1, <3>2, RaiseStep DEF Codes
  <2>4. CASE ~found /\ ~ops[i].strict
    <3>1. Returns(i, NoRow)
      BY <1>5, <2>4 DEF RunFind
    <3> QED
      BY <1>1, <2>1, <2>4, <3>1, SkipStep
  <2> QED
    BY <2>2, <2>3, <2>4
<1> QED
  BY <1>2, <1>3, <1>4, <1>5

(***************************************************************************)
(* The end of the statement, and other clients                             *)
(***************************************************************************)

LEMMA CurrentType ==
  ASSUME IInv, NEW k \in Keys
  PROVE  Current(k) \in Row /\ (Current(k).there \/ Current(k).ver = 0)
<1> USE Facts DEF IInv
<1>1. CASE WroteKey(k) = {}
  BY <1>1 DEF Current, TypeOK, TableInv
<1>2. CASE \E i \in WroteKey(k) : ops[i].kind # "hardDelete"
  <2> DEFINE y == CHOOSE y \in WroteKey(k) : ops[y].kind # "hardDelete"
  <2>1. y \in WroteKey(k)
    BY <1>2
  <2>2. Current(k) = out[y].row
    BY <1>2 DEF Current
  <2> HIDE DEF y
  <2> QED
    BY <2>1, <2>2 DEF WroteKey, Branch
<1>3. CASE WroteKey(k) # {} /\ ~ \E i \in WroteKey(k) : ops[i].kind # "hardDelete"
  <2>1. Current(k) = NoRow
    BY <1>3 DEF Current
  <2>2. NoRow.ver = 0
    BY DEF NoRow
  <2> QED
    BY <2>1, <2>2, NoRowType
<1> QED
  BY <1>1, <1>2, <1>3

LEMMA FinalizedType ==
  ASSUME TypeOK, NEW i
  PROVE  Finalized(i) \in Handle /\ Finalized(i).is # "pending"
<1> USE Facts
<1>1. CASE i \notin DOMAIN out \/ ~out[i].row.there
  BY <1>1, HandleType DEF Finalized
<1>2. CASE i \in DOMAIN out /\ out[i].row.there
  <2>1. Finalized(i) = [is |-> "row", id |-> JsonNumber(out[i].row.id)]
    BY <1>2 DEF Finalized
  <2>2. out[i].row.id \in Nat
    BY <1>2 DEF Branch, Row
  <2>3. JsonNumber(out[i].row.id) \in Nat
    BY <2>2, JsonType
  <2> QED
    BY <2>1, <2>3 DEF Handle
<1> QED
  BY <1>1, <1>2

LEMMA AnswerStep ==
  ASSUME IInv, Answer \/ AnswerLost
  PROVE  IInv'
<1> USE Facts DEF IInv
<1>1. /\ table' = [k \in Keys |-> Current(k)] /\ pc = "run" /\ pc' = "over" /\ state # "open"
      /\ UNCHANGED <<nextId, state, ops, snap, out>>
  BY DEF Answer, AnswerLost, Finished, Fail, PhaseInv
<1>2. table' \in [Keys -> Row] /\ TableInv'
  BY <1>1, CurrentType DEF TableInv
<1>3. CASE AnswerLost
  BY <1>1, <1>2, <1>3, FailStep DEF AnswerLost, Fail, Codes
<1>4. CASE Answer
  <2>1. outcome' = "ok"
    BY <1>4 DEF Answer
  <2>2. /\ handles' \in Seq(Handle) /\ Len(handles') = Len(ops) /\ DOMAIN handles' = DOMAIN ops
        /\ \A i \in DOMAIN ops : handles'[i].is # "pending"
    <3>1. PICK bad \in SUBSET {i \in DOMAIN ops : Faults} :
            handles' = [i \in DOMAIN ops |-> IF i \in bad THEN Rejected ELSE Finalized(i)]
      BY <1>4 DEF Answer
    <3>2. \A i \in DOMAIN ops : handles'[i] \in Handle /\ handles'[i].is # "pending"
      BY <3>1, HandleType, FinalizedType
    <3>3. handles' = [i \in 1 .. Len(ops) |-> handles'[i]]
      BY <3>1
    <3> QED
      BY <3>2, <3>3
  <2>3. TypeOK'
    BY <1>1, <1>2, <2>1, <2>2 DEF TypeOK
  <2>4. PhaseInv' /\ OpsInv' /\ RunInv'
    BY <1>1 DEF PhaseInv, OpsInv, WellFormed, RunInv
  <2>5. HandlesSettle' /\ AbortsAreDeserved'
    BY <2>1, <2>2 DEF HandlesSettle, AbortsAreDeserved
  <2> QED
    BY <1>2, <2>3, <2>4, <2>5
<1> QED
  BY <1>3, <1>4

(* Another client writes, but no row that a branch has written. *)
LEMMA OtherStep ==
  ASSUME IInv, NEW k \in Keys, OtherWrite(k)
  PROVE  IInv'
<1> USE Facts DEF IInv
<1>1. /\ pc = "run" /\ WroteKey(k) = {} /\ UNCHANGED <<state, ops, handles, pc, snap, out, outcome>>
  BY DEF OtherWrite
<1>2. nextId \in Nat /\ table \in [Keys -> Row]
  BY DEF TypeOK
<1>3. nextId' \in Nat
  <2>1. nextId' = nextId + 1 \/ nextId' = nextId
    BY DEF OtherWrite
  <2> QED
    BY <1>2, <2>1
<1>4. PICK row \in Row : table' = [table EXCEPT ![k] = row] /\ (row.there \/ row.ver = 0)
  <2>1. Present(nextId, 1, FALSE, 0) \in Row /\ Present(nextId, 1, FALSE, 0).there
    BY <1>2 DEF Present, Row
  <2>2. table[k] \in Row /\ table[k].link \in Nat
    BY <1>2 DEF Row
  <2>3. ASSUME NEW gone \in BOOLEAN
        PROVE  Revised(table[k], gone, table[k].link) \in Row
               /\ (Revised(table[k], gone, table[k].link).there <=> table[k].there)
    BY <2>2, RevisedType
  <2>4. NoRow.ver = 0
    BY DEF NoRow
  <2> QED
    BY <2>1, <2>3, <2>4, NoRowType DEF OtherWrite
<1>5. table'[k] = row /\ \A l \in Keys : l # k => table'[l] = table[l]
  BY <1>2, <1>4
<1>6. TypeOK'
  BY <1>1, <1>3, <1>4 DEF TypeOK
<1>7. TableInv'
  BY <1>4, <1>5 DEF TableInv
<1>8. PhaseInv' /\ OpsInv' /\ HandlesSettle' /\ AbortsAreDeserved'
  BY <1>1 DEF PhaseInv, OpsInv, WellFormed, Compiles, HandlesSettle, AbortsAreDeserved, Codes
<1>9. ASSUME NEW i \in DOMAIN out PROVE BranchInv(i)'
  <2>1. BranchInv(i) /\ ops[i].key \in Keys
    BY <1>1, RefType, Kinds6 DEF RunInv
  <2>2. out[i].ran /\ ops[i].kind \in Guarded => ops[i].key # k
    BY <1>1, RanWrote
  <2>3. ops[i].kind = "add" /\ out[i].row.there => ops[i].key # k
    BY <1>1 DEF WroteKey, Writes
  <2>4. ops[i].key # k => /\ table'[ops[i].key] = table[ops[i].key]
                          /\ Made(i, table[ops[i].key])' = Made(i, table[ops[i].key])
    BY <1>1, <1>5, <2>1 DEF Made, Link, Revised
  <2>5. Separate' <=> Separate
    BY <1>1 DEF Separate
  <2> QED
    BY <1>1, <2>1, <2>2, <2>3, <2>4, <2>5 DEF BranchInv
<1>10. RunInv'
  <2>1. (Separate' <=> Separate) /\ Effective' = Effective
    BY <1>1 DEF Separate, Effective
  <2> QED
    BY <1>1, <1>9, <2>1 DEF RunInv
<1> QED
  BY <1>6, <1>7, <1>8, <1>10

LEMMA IInvStep == IInv /\ [Next]_vars => IInv'
<1> SUFFICES ASSUME IInv, [Next]_vars PROVE IInv'
  OBVIOUS
<1>1. CASE UNCHANGED vars
  <2>1. TypeOK' /\ TableInv' /\ PhaseInv' /\ OpsInv' /\ HandlesSettle' /\ AbortsAreDeserved'
    BY <1>1 DEF vars, IInv, TypeOK, TableInv, PhaseInv, OpsInv, WellFormed, Compiles, HandlesSettle,
                AbortsAreDeserved
  <2>2. RunInv'
    BY <1>1 DEF vars, IInv, RunInv, BranchInv, Separate, Effective, Made, Link, Revised
  <2> QED
    BY <2>1, <2>2 DEF IInv
<1>2. ASSUME NEW op \in Requests, Register(op) PROVE IInv'
  <2>1. op \in Op
    BY DeferredAssumption DEF Requests, Op
  <2> QED
    BY <1>2, <2>1, RegisterStep
<1>3. ASSUME NEW i \in DOMAIN out,
             RunGuarded(i) \/ GuardedMisses(i) \/ AddConflicts(i) \/ RunAdd(i) \/ AddSkips(i)
               \/ RunFind(i)
      PROVE  IInv'
  BY <1>3, GuardedStep, MissStep, ConflictStep, AddStep
<1> QED
  BY <1>1, <1>2, <1>3, EdgeStep, AnswerStep, OtherStep DEF Next

LEMMA Invariance == Spec => []IInv
BY IInvInit, IInvStep, PTL DEF Spec

(***************************************************************************)
(* Theorems                                                                *)
(***************************************************************************)

(* Every variable keeps its type. *)
THEOREM TypeCorrect == Spec => []TypeOK
<1>1. IInv => TypeOK
  BY DEF IInv
<1> QED
  BY <1>1, Invariance, PTL

(* commit() and discard() leave no handle pending (commit 687-754). *)
THEOREM AllSettle == Spec => []HandlesSettle
<1>1. IInv => HandlesSettle
  BY DEF IInv
<1> QED
  BY <1>1, Invariance, PTL

(* The error of a commit names a reason that is there (abortSpec 852-873). *)
THEOREM AbortsDeserved == Spec => []AbortsAreDeserved
<1>1. IInv => AbortsAreDeserved
  BY DEF IInv
<1> QED
  BY <1>1, Invariance, PTL

(***************************************************************************)
(* What the handles say                                                    *)
(***************************************************************************)

(* No handle is settled before commit() is over, and a finder that has to  *)
(* find has found by the time that its branch has run.                     *)
TruthInv ==
  /\ pc # "over" => \A i \in DOMAIN handles : handles[i] = Pending
  /\ pc = "run" => \A i \in DOMAIN out :
       out[i].ran /\ ops[i].kind = "find" /\ ops[i].strict => out[i].row.there
  /\ HandlesTellTheTruth

(* A number that JSON.parse changes is odd and beyond what a double holds. *)
LEMMA JsonRounds ==
  ASSUME NEW n \in Nat, JsonNumber(n) # n
  PROVE  n > Exact /\ n % 2 = 1
<1>1. Exact \in Nat /\ Exact % 2 = 0
  BY DeferredAssumption
<1>2. n >= Exact /\ n % 2 # 0
  BY <1>1 DEF JsonNumber
<1> QED
  BY <1>1, <1>2

(* Rejected handles claim nothing, provided that commit() did not succeed. *)
LEMMA RejectedTruth ==
  ASSUME TypeOK, pc' = "over", handles' = RejectAll, outcome' # "ok"
  PROVE  TruthInv'
<1>1. \A i \in DOMAIN handles' : handles'[i].is = "rejected"
  BY DEF RejectAll, Rejected
<1> QED
  BY <1>1 DEF TruthInv, HandlesTellTheTruth

(* A branch that returns leaves the handles pending. *)
LEMMA ReturnTruth ==
  ASSUME IInv, TruthInv, NEW i \in DOMAIN out, NEW row \in Row, CanRun(i), Returns(i, row), ops' = ops,
         ops[i].kind = "find" /\ ops[i].strict => row.there
  PROVE  TruthInv'
<1> USE Facts DEF IInv
<1>1. /\ pc = "run" /\ out' = [out EXCEPT ![i] = [ran |-> TRUE, row |-> row]]
      /\ UNCHANGED <<pc, handles, outcome>>
  BY DEF CanRun, Returns
<1>2. [ran |-> TRUE, row |-> row].row = row
  BY RanType
<1>3. DOMAIN out' = DOMAIN out /\ out'[i].row = row /\ \A j \in DOMAIN out : j # i => out'[j] = out[j]
  BY <1>1, <1>2
<1>4. \A j \in DOMAIN handles' : handles'[j].is = "pending"
  BY <1>1 DEF TruthInv, Pending
<1> QED
  BY <1>1, <1>3, <1>4 DEF TruthInv, HandlesTellTheTruth

LEMMA AnswerTruth ==
  ASSUME IInv, TruthInv, Answer
  PROVE  TruthInv'
<1> USE Facts DEF IInv
<1>1. /\ pc = "run" /\ pc' = "over" /\ outcome' = "ok" /\ UNCHANGED <<ops, out>>
      /\ DOMAIN out = DOMAIN ops /\ \A i \in DOMAIN out : out[i].ran /\ BranchInv(i)
  BY DEF Answer, Finished, PhaseInv, RunInv
<1>2. PICK bad \in SUBSET {i \in DOMAIN ops : Faults} :
        handles' = [i \in DOMAIN ops |-> IF i \in bad THEN Rejected ELSE Finalized(i)]
  BY DEF Answer
<1>3. ASSUME NEW i \in DOMAIN ops, out[i].row.there
      PROVE  /\ Finalized(i).is = "row" /\ Finalized(i).id \in {out[i].row.id, JsonNumber(out[i].row.id)}
             /\ Finalized(i).id # out[i].row.id => out[i].row.id > Exact /\ out[i].row.id % 2 = 1
  <2>1. Finalized(i) = [is |-> "row", id |-> JsonNumber(out[i].row.id)]
    BY <1>1, <1>3 DEF Finalized
  <2>2. out[i].row.id \in Nat
    BY <1>1 DEF Branch, Row
  <2> QED
    BY <2>1, <2>2, JsonRounds
<1>4. ASSUME NEW i \in DOMAIN ops, ~out[i].row.there
      PROVE  Finalized(i).is = "empty" /\ ~ops[i].strict
  <2>1. Finalized(i).is = "empty"
    BY <1>1, <1>4 DEF Finalized, Empty
  <2>2. ops[i].kind \notin Guarded
    BY <1>1, <1>4, RanWrote
  <2>3. CASE ops[i].kind = "add"
    BY <1>1, <1>4, <2>1, <2>3 DEF BranchInv
  <2>4. CASE ops[i].kind = "find"
    BY <1>1, <1>4, <2>1, <2>4 DEF TruthInv
  <2> QED
    BY <2>2, <2>3, <2>4, Kinds6 DEF Guarded
<1>5. ASSUME NEW i \in bad PROVE handles'[i].is = "rejected" /\ Faults
  BY <1>2 DEF Rejected
<1>6. \A i \in DOMAIN ops : i \notin bad => handles'[i] = Finalized(i)
  BY <1>2
<1>7. DOMAIN handles' = DOMAIN ops
  BY <1>2
<1>8. ASSUME NEW i \in DOMAIN handles'
      PROVE  /\ handles'[i].is = "row" =>
                  out[i].row.there /\ handles'[i].id \in {out[i].row.id, JsonNumber(out[i].row.id)}
             /\ handles'[i].is = "row" /\ handles'[i].id # out[i].row.id =>
                  out[i].row.id > Exact /\ out[i].row.id % 2 = 1
             /\ handles'[i].is = "empty" => ~ops[i].strict
             /\ handles'[i].is = "rejected" => Faults
  <2>1. CASE i \in bad
    BY <1>5, <2>1
  <2>2. CASE i \notin bad /\ out[i].row.there
    BY <1>3, <1>6, <1>7, <2>2
  <2>3. CASE i \notin bad /\ ~out[i].row.there
    BY <1>4, <1>6, <1>7, <2>3
  <2> QED
    BY <2>1, <2>2, <2>3
<1> QED
  BY <1>1, <1>7, <1>8 DEF TruthInv, HandlesTellTheTruth, JsonNumber

LEMMA TruthStep == IInv /\ TruthInv /\ [Next]_vars => TruthInv'
<1> SUFFICES ASSUME IInv, TruthInv, [Next]_vars PROVE TruthInv'
  OBVIOUS
<1> USE Facts DEF IInv
<1>1. CASE \/ \E k \in Keys : OtherWrite(k)
           \/ UNCHANGED vars
  <2>1. UNCHANGED <<ops, handles, pc, out, outcome>>
    BY <1>1 DEF OtherWrite, vars
  <2> QED
    BY <2>1 DEF TruthInv, HandlesTellTheTruth, JsonNumber
<1>2. ASSUME NEW op \in Requests, Register(op) PROVE TruthInv'
  <2>1. pc' = "buffer" /\ pc = "buffer" /\ handles' = Append(handles, Pending)
    BY <1>2 DEF Register, PhaseInv
  <2>2. \A i \in DOMAIN handles' : handles'[i] = Pending
    <3>1. handles \in Seq(Handle)
      BY DEF TypeOK
    <3> QED
      BY <2>1, <3>1, HandleType DEF TruthInv
  <2> QED
    BY <2>1, <2>2 DEF TruthInv, HandlesTellTheTruth, Pending
<1>3. CASE Commit \/ Merge \/ Start
  <2>1. pc # "over" /\ pc' # "over" /\ handles' = handles
    BY <1>3 DEF Commit, Merge, Start, PhaseInv
  <2>2. \A i \in DOMAIN handles' : handles'[i] = Pending
    BY <2>1 DEF TruthInv
  <2>3. Pending.is = "pending"
    BY DEF Pending
  <2>4. pc' = "run" => \A i \in DOMAIN out' : ~out'[i].ran
    BY <1>3, NotRunType DEF Commit, Merge, Start, PhaseInv
  <2> QED
    BY <2>1, <2>2, <2>3, <2>4 DEF TruthInv, HandlesTellTheTruth
<1>4. CASE CommitNothing
  <2>1. pc' = "over" /\ DOMAIN handles' = {}
    BY <1>4 DEF CommitNothing
  <2> QED
    BY <2>1 DEF TruthInv, HandlesTellTheTruth
<1>5. CASE Discard \/ MergeRejects \/ StatementFails \/ AnswerLost
  BY <1>5, RejectedTruth DEF Discard, MergeRejects, StatementFails, AnswerLost, Fail, PhaseInv
<1>6. ASSUME NEW i \in DOMAIN out,
             RunGuarded(i) \/ GuardedMisses(i) \/ AddConflicts(i) \/ RunAdd(i) \/ AddSkips(i)
               \/ RunFind(i)
      PROVE  TruthInv'
  <2>1. CanRun(i) /\ ops' = ops /\ pc = "run"
    BY <1>6 DEF RunGuarded, GuardedMisses, AddConflicts, RunAdd, AddSkips, RunFind, CanRun
  <2>2. CASE \E code \in Codes : Raises(code)
    BY <2>2, RejectedTruth DEF Raises, Fail, Codes
  <2>3. CASE \E row \in Row : Returns(i, row) /\ (ops[i].kind = "find" /\ ops[i].strict => row.there)
    BY <2>1, <2>3, ReturnTruth
  <2>4. CASE GuardedMisses(i) \/ AddConflicts(i)
    BY <2>2, <2>4 DEF GuardedMisses, AddConflicts, AbortCode, Codes
  <2>5. CASE RunGuarded(i)
    <3>1. ops[i].kind \in Guarded /\ Returns(i, Made(i, table[ops[i].key]))
      BY <2>5 DEF RunGuarded
    <3>2. table[ops[i].key] \in Row
      BY <2>1, RefType, Kinds6 DEF TypeOK
    <3>3. Made(i, table[ops[i].key]) \in Row
      BY <2>1, <3>2, RefType, MadeType
    <3> QED
      BY <2>3, <3>1, <3>3 DEF Guarded
  <2>6. CASE RunAdd(i)
    <3> DEFINE link == IF ops[i].from > 0 THEN Link(i) ELSE 0
    <3>1. ops[i].kind = "add" /\ Returns(i, Present(nextId, 1, FALSE, link))
      BY <2>6 DEF RunAdd
    <3>2. link \in Nat
      <4>1. ops[i].from > 0 => out[ops[i].from].row \in Row
        BY <2>1, RefType DEF Branch
      <4> QED
        BY <4>1 DEF Link, Row
    <3> HIDE DEF link
    <3>3. Present(nextId, 1, FALSE, link) \in Row
      BY <3>2 DEF Present, Row, TypeOK
    <3> QED
      BY <2>3, <3>1, <3>3
  <2>7. CASE AddSkips(i)
    <3>1. ops[i].kind = "add" /\ (Raises("ERR04") \/ Returns(i, NoRow))
      BY <2>7 DEF AddSkips
    <3> QED
      BY <2>2, <2>3, <3>1, NoRowType DEF Codes
  <2>8. CASE RunFind(i)
    <3>1. snap[ops[i].key] \in Row
      BY <2>1, RefType, Kinds6 DEF TypeOK
    <3>2. \/ Returns(i, snap[ops[i].key]) /\ snap[ops[i].key].there
          \/ Raises("ERR03")
          \/ Returns(i, NoRow) /\ ~ops[i].strict
      BY <2>8 DEF RunFind
    <3> QED
      BY <2>2, <2>3, <3>1, <3>2, NoRowType DEF Codes
  <2> QED
    BY <1>6, <2>4, <2>5, <2>6, <2>7, <2>8
<1>7. CASE Answer
  BY <1>7, AnswerTruth
<1> QED
  BY <1>1, <1>2, <1>3, <1>4, <1>5, <1>6, <1>7 DEF Next

(* What a handle says is what became of its operation: it has the row that *)
(* its branch returned, with the id of that row unless a double cannot hold*)
(* it, and without a fault no operation of a commit that succeeded is told *)
(* that it failed (deferred-transaction.ts 687-741, 329-341).              *)
THEOREM TruthfulHandles == Spec => []HandlesTellTheTruth
<1>1. Init => TruthInv
  BY DEF Init, TruthInv, HandlesTellTheTruth
<1>2. TruthInv => HandlesTellTheTruth
  BY DEF TruthInv
<1> QED
  BY <1>1, <1>2, Invariance, TruthStep, PTL DEF Spec

(* When all branches have run, the table that the statement makes is the   *)
(* one that its operations would make one after the other.                 *)
LEMMA SerialCommit ==
  ASSUME IInv, Answer \/ AnswerLost, Separate
  PROVE  Serially
<1> USE Facts DEF IInv
<1>1. /\ pc = "run" /\ \A i \in DOMAIN out : out[i].ran /\ BranchInv(i) /\ i \in DOMAIN ops
      /\ DOMAIN out = DOMAIN ops /\ table' = [k \in Keys |-> Current(k)]
      /\ UNCHANGED <<ops, out>>
  BY DEF Answer, AnswerLost, Finished, Fail, RunInv, PhaseInv
<1>2. \A i, j \in Effective : ops[i].key = ops[j].key => i = j
  BY <1>1 DEF RunInv
<1>3. ASSUME NEW i \in DOMAIN ops, ops[i].kind \in Writes, ops[i].strict PROVE i \in Effective
  <2>1. CASE ops[i].kind \in Guarded
    BY <1>1, <1>3, <2>1, RanWrote DEF Effective
  <2>2. CASE ops[i].kind = "add"
    BY <1>1, <1>3, <2>2 DEF Effective, BranchInv
  <2> QED
    BY <1>3, <2>1, <2>2 DEF Writes
<1>4. \A i \in Effective : ops[i].key \in Keys /\ WroteKey(ops[i].key) = {i}
  BY <1>1, <1>2, Kinds6 DEF Effective, WroteKey
<1>5. ASSUME NEW i \in Effective
      PROVE  LET k == ops[i].key
             IN  CASE ops[i].kind = "hardDelete" -> table[k].ver = ops[i].ver /\ ~table'[k].there
                   [] ops[i].kind = "add" -> ~table[k].there /\ table'[k] = out[i].row
                   [] OTHER -> table[k].ver = ops[i].ver /\ table'[k] = Made(i, table[k])
  <2>1. i \in DOMAIN out /\ out[i].row.there /\ ops[i].kind \in Writes /\ BranchInv(i) /\ out[i].ran
    BY <1>1 DEF Effective
  <2>2. WroteKey(ops[i].key) = {i} /\ table'[ops[i].key] = Current(ops[i].key)
    BY <1>1, <1>4
  <2>3. CASE ops[i].kind = "hardDelete"
    <3>1. Current(ops[i].key) = NoRow
      BY <2>2, <2>3 DEF Current
    <3> QED
      BY <2>1, <2>2, <2>3, <3>1, NoRowType DEF BranchInv, Guarded
  <2>4. CASE ops[i].kind # "hardDelete"
    <3>1. Current(ops[i].key) = out[i].row
      BY <2>2, <2>4 DEF Current
    <3>2. CASE ops[i].kind = "add"
      BY <2>1, <2>2, <3>1, <3>2 DEF BranchInv
    <3>3. CASE ops[i].kind # "add"
      BY <2>1, <2>2, <2>4, <3>1, <3>3 DEF BranchInv, Writes
    <3> QED
      BY <3>2, <3>3
  <2> QED
    BY <2>3, <2>4
<1>6. ASSUME NEW k \in Keys, \A i \in Effective : ops[i].key # k PROVE table'[k] = table[k]
  <2>1. WroteKey(k) = {}
    BY <1>6 DEF Effective, WroteKey
  <2> QED
    BY <1>1, <2>1 DEF Current
<1> QED
  BY <1>2, <1>3, <1>5, <1>6 DEF Serially

(* Of any buffer, and whatever other clients write meanwhile: a deferred   *)
(* transaction that commits comes to one operation after the other, each on*)
(* the row its caller had read (deferred-transaction.ts 687-741).          *)
THEOREM SerialCommits == Spec => CommitIsSerial
<1>1. ASSUME IInv, [Next]_vars, pc = "run", outcome' \in {"ok", "unknown"}, Separate
      PROVE  Serially
  <2>1. outcome = "none"
    BY <1>1 DEF IInv, PhaseInv
  <2>2. Answer \/ AnswerLost
    BY <1>1, <2>1 DEF Next, vars, Register, Commit, Discard, CommitNothing, Merge, MergeRejects, Start,
       StatementFails, RunGuarded, GuardedMisses, AddConflicts, RunAdd, AddSkips, RunFind, OtherWrite,
       Returns, Raises, Fail, AbortCode, CanRun
  <2> QED
    BY <1>1, <2>2, SerialCommit
<1>2. IInv /\ [Next]_vars =>
        [pc = "run" /\ outcome' \in {"ok", "unknown"} /\ Separate => Serially]_vars
  BY <1>1
<1> QED
  BY <1>2, Invariance, PTL DEF Spec, CommitIsSerial
=============================================================================
