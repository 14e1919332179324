----------------------- MODULE RepositoryWritesProofs -----------------------
(***************************************************************************)
(* Proofs of the properties of RepositoryWrites, for every set of rows and *)
(* writers and every bound MaxGen.                                         *)
(***************************************************************************)
EXTENDS RepositoryWrites, TLAPS

(***************************************************************************)
(* Type correctness                                                        *)
(***************************************************************************)

(* TypeOK and what makes it inductive: the kind of an operation under way. *)
TypeInv ==
  /\ TypeOK
  /\ \A w \in Writers : pc[w] # "idle" => op[w].kind \in Kinds

(* The images that a SELECT and a write make are images. *)
LEMMA SnapshotType ==
  ASSUME TypeOK, NEW r \in Rows
  PROVE  Snapshot(r) \in Image
BY DEF TypeOK, Snapshot, NoImage, Image, Tuple

LEMMA WrittenType ==
  ASSUME TypeOK, NEW w \in Writers, NEW r \in Rows
  PROVE  Written(w, r) \in Tuple
<1>1. row[r] \in Tuple
  BY DEF TypeOK
<1>2. NoRow \in Tuple
  BY DEF NoRow, Tuple
<1>3. (IF Bumps(w) THEN row[r].ver + 1 ELSE row[r].ver) \in Nat
  BY <1>1 DEF Tuple
<1> QED
  BY <1>1, <1>2, <1>3 DEF Written, Tuple

(* The audit rows of an operation under way are audit entries. *)
LEMMA AuditOfType ==
  ASSUME TypeInv, NEW w \in Writers, pc[w] # "idle", NEW S \in SUBSET Rows
  PROVE  AuditOf(w, S) \subseteq Entry
<1>1. op[w].kind \in Kinds
  BY DEF TypeInv
<1>2. \A r \in Rows : old[w][r].ver \in Nat /\ old[w][r].gen \in Nat /\ gen[r] + 1 \in Nat
  BY DEF TypeInv, TypeOK, Image
<1>3. \A r \in Rows : Written(w, r).ver \in Nat
  BY WrittenType DEF TypeInv, Tuple
<1> QED
  BY <1>1, <1>2, <1>3 DEF AuditOf, Entry

(* Ending an operation keeps its part of the types. *)
LEMMA FinishType ==
  ASSUME TypeOK, NEW w \in Writers, NEW outcome \in Results, NEW S \in SUBSET Rows,
         Finish(w, outcome, S)
  PROVE  /\ pc' \in [Writers -> {"idle"} \cup Statements]
         /\ res' \in [Writers -> Results]
         /\ hit' \in [Writers -> SUBSET Rows]
         /\ old' \in [Writers -> [Rows -> Image]]
         /\ todo' \in [Writers -> SUBSET Rows]
         /\ \A x \in Writers : pc'[x] # "idle" => pc[x] # "idle"
BY DEF TypeOK, Finish, NoImage, Image

(* The outcome of an operation that ends without writing. *)
LEMMA QuietFinishType ==
  ASSUME TypeInv, NEW w \in Writers, NEW outcome \in Results,
         Finish(w, outcome, {}),
         UNCHANGED <<row, gen, seen, op, audit, inflight>>
  PROVE  TypeInv'
<1>1. /\ pc' \in [Writers -> {"idle"} \cup Statements]
      /\ res' \in [Writers -> Results]
      /\ hit' \in [Writers -> SUBSET Rows]
      /\ old' \in [Writers -> [Rows -> Image]]
      /\ todo' \in [Writers -> SUBSET Rows]
      /\ \A x \in Writers : pc'[x] # "idle" => pc[x] # "idle"
  BY FinishType DEF TypeInv
<1> QED
  BY <1>1 DEF TypeInv, TypeOK

(* The rows that a write leaves have the type of rows. *)
LEMMA ApplyType ==
  ASSUME TypeOK, NEW w \in Writers, NEW S \in SUBSET Rows, Apply(w, S)
  PROVE  /\ row' \in [Rows -> Tuple]
         /\ gen' \in [Rows -> Nat]
<1>1. \A r \in Rows : Written(w, r) \in Tuple
  BY WrittenType
<1> QED
  BY <1>1 DEF Apply, TypeOK

(* RETURNING changes the images of one writer, of the rows it wrote. *)
LEMMA ReturnedImages ==
  ASSUME TypeInv, NEW w \in Writers, NEW S \in SUBSET Rows
  PROVE  /\ \A x \in Writers, r \in Rows :
              x # w \/ r \notin S => Returned(w, S)[x][r] = seen[x][r]
         /\ \A r \in S : /\ Returned(w, S)[w][r].ver = Written(w, r).ver
                         /\ Returned(w, S)[w][r].gen = gen[r] + 1
                         /\ Returned(w, S)[w][r].id = row[r].id
         /\ (\A r \in S : Written(w, r).ver \in Nat)
              => Returned(w, S) \in [Writers -> [Rows -> Image]]
BY DEF TypeInv, TypeOK, Returned, Image, Tuple

LEMMA TypeInit == Init => TypeInv
BY DEF Init, TypeInv, TypeOK, NoRow, NoImage, Image, Results, Tuple

(* Every step keeps the types. *)
LEMMA TypeStep == TypeInv /\ [Next]_vars => TypeInv'
<1> SUFFICES ASSUME TypeInv, [Next]_vars PROVE TypeInv'
  OBVIOUS
<1> USE ConstantsOK
<1>1. ASSUME NEW w \in Writers, NEW r \in Rows, Find(w, r) PROVE TypeInv'
  <2>1. Snapshot(r) \in Image
    BY SnapshotType DEF TypeInv
  <2>2. "none" \in Results
    BY DEF Results
  <2> QED
    BY <1>1, <2>1, <2>2 DEF Find, TypeInv, TypeOK
<1>2. ASSUME NEW w \in Writers, NEW r \in Rows, VisitRow(w, r) PROVE TypeInv'
  BY <1>2 DEF VisitRow, TypeInv, TypeOK
<1>3. ASSUME NEW w \in Writers, NEW r \in Rows, NEW ack \in Acks, Add(w, r, ack) PROVE TypeInv'
  <2>1. seen' \in [Writers -> [Rows -> Image]]
    BY <1>3 DEF Add, TypeInv, TypeOK, Image
  <2>2. inflight' \subseteq Entry
    BY <1>3 DEF Add, TypeInv, TypeOK, Entry
  <2>3. row' \in [Rows -> Tuple] /\ gen' \in [Rows -> Nat]
    BY <1>3 DEF Add, TypeInv, TypeOK, FreshRow, Tuple
  <2>4. res' \in [Writers -> Results]
    BY <1>3 DEF Add, TypeInv, TypeOK, Results
  <2> QED
    BY <1>3, <2>1, <2>2, <2>3, <2>4 DEF Add, TypeInv, TypeOK
<1>4. ASSUME NEW w \in Writers, NEW kind \in Kinds, NEW S \in SUBSET Rows,
             NEW many \in BOOLEAN, NEW twice \in BOOLEAN, Begin(w, kind, S, many, twice)
      PROVE  TypeInv'
  <2>1. "none" \in Results
    BY DEF Results
  <2>2. "old" \in {"idle"} \cup Statements
    BY DEF Statements
  <2> QED
    BY <1>4, <2>1, <2>2 DEF Begin, TypeInv, TypeOK
<1>5. ASSUME NEW w \in Writers, NEW ack \in Acks, GuardedWrite(w, ack) PROVE TypeInv'
  <2>1. op[w].rows \in SUBSET Rows /\ pc[w] # "idle"
    BY <1>5 DEF GuardedWrite, TypeInv, TypeOK
  <2>2. (IF ack THEN "ok" ELSE "unknown") \in Results
    BY DEF Results
  <2>3. /\ pc' \in [Writers -> {"idle"} \cup Statements]
        /\ res' \in [Writers -> Results]
        /\ hit' \in [Writers -> SUBSET Rows]
        /\ old' \in [Writers -> [Rows -> Image]]
        /\ todo' \in [Writers -> SUBSET Rows]
        /\ \A x \in Writers : pc'[x] # "idle" => pc[x] # "idle"
    BY <1>5, <2>1, <2>2, FinishType DEF GuardedWrite, TypeInv
  <2>4. row' \in [Rows -> Tuple] /\ gen' \in [Rows -> Nat]
    BY <1>5, <2>1, ApplyType DEF GuardedWrite, TypeInv
  <2>5. AuditOf(w, op[w].rows) \subseteq Entry
    BY <2>1, AuditOfType
  <2>6. seen' \in [Writers -> [Rows -> Image]]
    <3>1. \A r \in Rows : Written(w, r).ver \in Nat
      BY WrittenType DEF TypeInv, Tuple
    <3> QED
      BY <1>5, <2>1, <3>1, ReturnedImages DEF GuardedWrite, TypeInv, TypeOK
  <2> QED
    BY <1>5, <2>3, <2>4, <2>5, <2>6 DEF GuardedWrite, TypeInv, TypeOK
<1>6. ASSUME NEW w \in Writers, NEW ack \in Acks, CommitMany(w, ack) PROVE TypeInv'
  <2>1. hit[w] \in SUBSET Rows /\ pc[w] # "idle"
    BY <1>6 DEF CommitMany, TypeInv, TypeOK
  <2>2. (IF ack THEN "ok" ELSE "unknown") \in Results
    BY DEF Results
  <2>3. /\ pc' \in [Writers -> {"idle"} \cup Statements]
        /\ res' \in [Writers -> Results]
        /\ hit' \in [Writers -> SUBSET Rows]
        /\ old' \in [Writers -> [Rows -> Image]]
        /\ todo' \in [Writers -> SUBSET Rows]
        /\ \A x \in Writers : pc'[x] # "idle" => pc[x] # "idle"
    BY <1>6, <2>1, <2>2, FinishType DEF CommitMany, TypeInv
  <2>4. row' \in [Rows -> Tuple] /\ gen' \in [Rows -> Nat]
    BY <1>6, <2>1, ApplyType DEF CommitMany, TypeInv
  <2>5. AuditOf(w, hit[w]) \subseteq Entry
    BY <2>1, AuditOfType
  <2> QED
    BY <1>6, <2>3, <2>4, <2>5 DEF CommitMany, TypeInv, TypeOK
<1>7. ASSUME NEW w \in Writers, ReadOld(w) PROVE TypeInv'
  <2>1. \A r \in Rows : Snapshot(r) \in Image /\ NoImage \in Image
    BY SnapshotType DEF TypeInv, NoImage, Image
  <2>2. [r \in Rows |-> IF r \in op[w].rows /\ w \in Auditors /\ Identified(w, r)
                        THEN Snapshot(r) ELSE NoImage] \in [Rows -> Image]
    BY <2>1
  <2>3. /\ old' \in [Writers -> [Rows -> Image]]
        /\ pc' \in [Writers -> {"idle"} \cup Statements]
        /\ \A x \in Writers : pc'[x] # "idle" => pc[x] # "idle"
    BY <1>7, <2>2 DEF ReadOld, TypeInv, TypeOK, Statements
  <2> QED
    BY <1>7, <2>3 DEF ReadOld, TypeInv, TypeOK
<1>8. ASSUME NEW w \in Writers, DiagnoseClean(w) PROVE TypeInv'
  BY <1>8 DEF DiagnoseClean, TypeInv, TypeOK, Statements
<1>9. ASSUME NEW w \in Writers,
             WriteMisses(w) \/ DisambiguateZeroRows(w) \/ IdentityFound(w) \/ IdentityMissing(w)
      PROVE  TypeInv'
  <2>1. pc[w] # "idle" /\ UNCHANGED <<row, gen, seen, op, audit, inflight>>
    BY <1>9 DEF WriteMisses, DisambiguateZeroRows, IdentityFound, IdentityMissing
  <2>2. \/ \E outcome \in Results : Finish(w, outcome, {})
        \/ \E next \in Statements : /\ pc' = [pc EXCEPT ![w] = next]
                                    /\ UNCHANGED <<old, todo, hit, res>>
    BY <1>9 DEF WriteMisses, DisambiguateZeroRows, IdentityFound, IdentityMissing, Results,
                Statements
  <2>3. CASE \E outcome \in Results : Finish(w, outcome, {})
    BY <2>1, <2>3, QuietFinishType
  <2>4. CASE \E next \in Statements : /\ pc' = [pc EXCEPT ![w] = next]
                                      /\ UNCHANGED <<old, todo, hit, res>>
    BY <2>1, <2>4 DEF TypeInv, TypeOK
  <2> QED
    BY <2>2, <2>3, <2>4
<1>10. ASSUME NEW w \in Writers, DiagnoseStale(w) PROVE TypeInv'
  BY <1>10, QuietFinishType DEF DiagnoseStale, Results
<1>11. ASSUME NEW w \in Writers,
              RaceGuard(w) \/ AbortMany(w) \/ AbortOne(w) \/ BreakDeadlock(w)
       PROVE  TypeInv'
  BY <1>11, QuietFinishType DEF RaceGuard, AbortMany, AbortOne, BreakDeadlock, Results
<1>12. ASSUME NEW e \in inflight, AuditLands(e) \/ AuditFails(e) PROVE TypeInv'
  BY <1>12 DEF AuditLands, AuditFails, TypeInv, TypeOK
<1>13. CASE UNCHANGED vars
  BY <1>13 DEF vars, TypeInv, TypeOK
<1> QED
  BY <1>1, <1>2, <1>3, <1>4, <1>5, <1>6, <1>7, <1>8, <1>9, <1>10, <1>11, <1>12, <1>13
  DEF Next

(* Every variable keeps its type, whatever the entity, the writers and the *)
(* operations they use.                                                    *)
THEOREM TypeCorrect == Spec => []TypeOK
<1>1. TypeInv => TypeOK
  BY DEF TypeInv
<1> QED
  BY <1>1, TypeInit, TypeStep, PTL DEF Spec

(***************************************************************************)
(* The inductive invariant of the writes                                   *)
(***************************************************************************)

(* Under the discipline every write of a row that is in the table bumps    *)
(* its version or removes it.                                              *)
LEMMA WrittenBumps ==
  ASSUME TypeInv, Disciplined, NEW w \in Writers, NEW r \in Rows, row[r].live
  PROVE  /\ Written(w, r).live => Written(w, r).ver = row[r].ver + 1
         /\ op[w].kind = "hardDelete" => ~Written(w, r).live
         /\ op[w].kind # "hardDelete" => Written(w, r).live
         /\ Written(w, r).live => Written(w, r).id = row[r].id
<1>1. row[r] \in Tuple
  BY DEF TypeInv, TypeOK
<1>2. Bumps(w)
  BY DEF Disciplined, Bumps
<1>3. CASE op[w].kind = "hardDelete"
  BY <1>3 DEF Written, NoRow
<1>4. CASE op[w].kind # "hardDelete"
  <2>1. Written(w, r) = [row[r] EXCEPT !.ver = row[r].ver + 1]
    BY <1>2, <1>4 DEF Written
  <2> QED
    BY <1>1, <1>4, <2>1 DEF Tuple
<1> QED
  BY <1>3, <1>4

(* w may write row r as far as identity and version tell. *)
Current(w, r) == Identified(w, r) /\ seen[w][r].ver = row[r].ver

(* The row is as its caller read it, or it is another one and its caller   *)
(* gave no id.                                                             *)
Fresh(w, r) ==
  \/ seen[w][r].gen = gen[r]
  \/ r \in Reusable /\ w \notin Paired /\ OfEarlierRow(w, r)

(* The numbers that images, rows and generations are.                      *)
LEMMA Numbers ==
  ASSUME TypeInv, NEW w \in Writers, NEW r \in Rows
  PROVE  /\ seen[w][r].gen \in Nat /\ seen[w][r].ver \in Nat /\ seen[w][r].id \in Nat
         /\ gen[r] \in Nat /\ row[r].ver \in Nat /\ row[r].id \in Nat
BY DEF TypeInv, TypeOK, Image, Tuple

(* A row in the version that its caller read is the row that it read, but  *)
(* for identities that are inserted again.                                 *)
LEMMA CurrentMeansFresh ==
  ASSUME TypeInv, IdsAreSerial, VersionsCount, NEW w \in Writers, NEW r \in Rows,
         seen[w][r].gen > 0, Current(w, r)
  PROVE  Fresh(w, r)
<1>1. /\ seen[w][r].gen \in Nat /\ seen[w][r].ver \in Nat /\ seen[w][r].id \in Nat
      /\ gen[r] \in Nat /\ row[r].ver \in Nat /\ row[r].id \in Nat
  BY Numbers
<1>2. row[r].live /\ seen[w][r].ver = row[r].ver /\ (w \in Paired => SameId(w, r))
  BY DEF Current, Identified
<1>3. SameId(w, r) \/ OfEarlierRow(w, r)
  BY <1>2 DEF IdsAreSerial
<1>4. CASE SameId(w, r)
  BY <1>1, <1>2, <1>4 DEF SameId, VersionsCount, Fresh
<1>5. CASE ~SameId(w, r)
  <2>1. r \in Reusable
    BY <1>2, <1>5 DEF IdsAreSerial, SameId
  <2> QED
    BY <1>2, <1>3, <1>5, <2>1 DEF Fresh
<1> QED
  BY <1>4, <1>5

(* Under the discipline a write of a row that was read matches it if it is *)
(* there in that version; if not, it has changed.                          *)
LEMMA MatchMeansCurrent ==
  ASSUME TypeInv, Disciplined, IdsAreSerial, VersionsCount, NEW w \in Writers, NEW r \in Rows,
         seen[w][r].gen > 0
  PROVE  /\ Matches(w, r) => Current(w, r)
         /\ ~Matches(w, r) => Changed(w, r)
<1>1. /\ seen[w][r].gen \in Nat /\ seen[w][r].ver \in Nat /\ seen[w][r].id \in Nat
      /\ gen[r] \in Nat /\ row[r].ver \in Nat /\ row[r].id \in Nat
  BY Numbers
<1>2. Matches(w, r) => Current(w, r)
  BY DEF Matches, Current, Disciplined
<1>3. ASSUME seen[w][r].gen = gen[r] PROVE Matches(w, r)
  <2>1. SameId(w, r)
    BY <1>3 DEF IdsAreSerial
  <2>2. row[r].ver = seen[w][r].ver
    BY <1>1, <1>3, <2>1 DEF SameId, VersionsCount
  <2> QED
    BY <2>1, <2>2 DEF SameId, Identified, Matches
<1>4. seen[w][r].gen <= gen[r]
  BY DEF IdsAreSerial
<1>5. ~Matches(w, r) => Changed(w, r)
  BY <1>1, <1>3, <1>4 DEF Changed
<1> QED
  BY <1>2, <1>5

(* A row that was read and is not there under that identity is gone; one   *)
(* that has its place was inserted since.                                  *)
LEMMA UnidentifiedMeansGone ==
  ASSUME TypeInv, IdsAreSerial, NEW w \in Writers, NEW r \in Rows,
         seen[w][r].gen > 0, ~Identified(w, r)
  PROVE  Gone(w, r)
<1>1. /\ seen[w][r].gen \in Nat /\ gen[r] \in Nat /\ row[r].id \in Nat
  BY Numbers
<1>2. ~SameId(w, r)
  BY DEF SameId, Identified
<1>3. Changed(w, r)
  BY <1>1, <1>2 DEF IdsAreSerial, Changed
<1>4. ASSUME row[r].live PROVE Replaced(w, r)
  <2>1. r \in Reusable
    BY <1>2, <1>4 DEF IdsAreSerial, SameId
  <2>2. OfEarlierRow(w, r) /\ row[r].id <= gen[r]
    BY <1>2, <1>4 DEF IdsAreSerial
  <2>3. seen[w][r].gen + 1 < gen[r]
    BY <1>1, <2>2 DEF OfEarlierRow
  <2> QED
    BY <2>1, <2>3 DEF Replaced
<1> QED
  BY <1>3, <1>4 DEF Gone

(* An operation that ends without a write keeps the invariant, if there is *)
(* a reason for the outcome.                                               *)
LEMMA QuietFinish ==
  ASSUME TypeInv, WriteInv, NEW w \in Writers, NEW outcome,
         Finish(w, outcome, {}),
         UNCHANGED <<row, gen, seen, op>>,
         outcome = "ERR01" /\ ~Repeats => \E r \in op[w].rows : Changed(w, r),
         outcome = "ERR03" => \E r \in op[w].rows : Gone(w, r),
         outcome = "ERR10" => \E r \in op[w].rows : Replaced(w, r)
  PROVE  WriteInv'
<1>1. /\ \A x \in Writers : pc'[x] = IF x = w THEN "idle" ELSE pc[x]
      /\ \A x \in Writers : res'[x] = IF x = w THEN outcome ELSE res[x]
      /\ \A x \in Writers : hit'[x] = IF x = w THEN {} ELSE hit[x]
      /\ \A x \in Writers : todo'[x] = IF x = w THEN {} ELSE todo[x]
  BY DEF Finish, TypeInv, TypeOK
<1>2. IdsAreSerial' /\ VersionsCount'
  BY DEF WriteInv, IdsAreSerial, VersionsCount, SameId, OfEarlierRow
<1>3. OperationsAreFormed'
  BY <1>1 DEF WriteInv, OperationsAreFormed, Statements
<1>4. HeldRowsAreFresh'
  BY <1>1 DEF WriteInv, HeldRowsAreFresh, Identified, SameId, Changed, Statements
<1>5. FailuresHaveReasons'
  BY <1>1 DEF WriteInv, FailuresHaveReasons, Changed, Replaced, Gone
<1> QED
  BY <1>2, <1>3, <1>4, <1>5 DEF WriteInv

(* What writing the rows of S does to them.                                *)
LEMMA RowsChange ==
  ASSUME TypeInv, Disciplined, NEW w \in Writers, NEW S \in SUBSET Rows,
         \A r \in S : row[r].live,
         Apply(w, S)
  PROVE  /\ \A r \in Rows : gen'[r] = IF r \in S THEN gen[r] + 1 ELSE gen[r]
         /\ \A r \in Rows \ S : row'[r] = row[r]
         /\ \A r \in S : row'[r].live => row'[r].ver = row[r].ver + 1
         /\ \A r \in S : row'[r].live <=> op[w].kind # "hardDelete"
         /\ \A r \in S : row'[r].ver = Written(w, r).ver
         /\ \A r \in S : row'[r].live => row'[r].id = row[r].id
<1>1. \A r \in S : row'[r] = Written(w, r) /\ gen'[r] = gen[r] + 1
  BY DEF Apply
<1> QED
  BY <1>1, WrittenBumps DEF Apply

(* An operation that ends with a write of rows that are there, and that no *)
(* open bulk write of another holds, keeps the invariant; its caller may or*)
(* may not learn the rows.                                                 *)
LEMMA WritingFinish ==
  ASSUME TypeInv, Disciplined, WriteInv, NEW w \in Writers, NEW S \in SUBSET Rows,
         NEW outcome \in {"ok", "unknown"}, pc[w] # "idle",
         \A r \in S : row[r].live,
         \A x \in Writers : x # w /\ pc[x] = "apply" => hit[x] \cap S = {},
         Apply(w, S), Finish(w, outcome, S), op' = op,
         seen' = seen \/ (op[w].kind # "hardDelete" /\ seen' = Returned(w, S))
  PROVE  WriteInv'
<1>1. /\ \A x \in Writers : pc'[x] = IF x = w THEN "idle" ELSE pc[x]
      /\ \A x \in Writers : res'[x] = IF x = w THEN outcome ELSE res[x]
      /\ \A x \in Writers : hit'[x] = IF x = w THEN S ELSE hit[x]
      /\ \A x \in Writers : todo'[x] = IF x = w THEN {} ELSE todo[x]
  BY DEF Finish, TypeInv, TypeOK
<1>2. /\ \A r \in Rows : gen'[r] = IF r \in S THEN gen[r] + 1 ELSE gen[r]
      /\ \A r \in Rows \ S : row'[r] = row[r]
      /\ \A r \in S : row'[r].live => row'[r].ver = row[r].ver + 1
      /\ \A r \in S : row'[r].live <=> op[w].kind # "hardDelete"
      /\ \A r \in S : row'[r].ver = Written(w, r).ver
      /\ \A r \in S : row'[r].live => row'[r].id = row[r].id
  BY RowsChange
<1>3. \A x \in Writers, r \in Rows : x # w \/ r \notin S => seen'[x][r] = seen[x][r]
  BY ReturnedImages
<1>4. \A r \in S : \/ seen'[w][r] = seen[w][r]
                   \/ /\ row'[r].live
                      /\ seen'[w][r].ver = row'[r].ver
                      /\ seen'[w][r].gen = gen'[r]
                      /\ seen'[w][r].id = row'[r].id
  BY <1>2, ReturnedImages
<1>5. \A r \in Rows : /\ gen[r] \in Nat /\ row[r].ver \in Nat /\ row[r].id \in Nat
                      /\ \A x \in Writers : /\ seen[x][r].gen \in Nat
                                            /\ seen[x][r].ver \in Nat
                                            /\ seen[x][r].id \in Nat
  BY Numbers
<1>6. IdsAreSerial' /\ VersionsCount'
  <2>1. ASSUME NEW r \in Rows, row'[r].live
        PROVE  /\ 0 < row'[r].id /\ row'[r].id <= gen'[r]
               /\ r \notin Reusable => row'[r].id = 1
               /\ row'[r].id + row'[r].ver = gen'[r] + 1
    <3>1. row[r].live /\ row'[r].id = row[r].id
      BY <1>2, <2>1
    <3> QED
      BY <1>2, <1>5, <2>1, <3>1 DEF WriteInv, IdsAreSerial, VersionsCount
  <2>2. ASSUME NEW x \in Writers, NEW r \in Rows
        PROVE  /\ seen'[x][r].gen <= gen'[r]
               /\ seen'[x][r].id <= seen'[x][r].gen
               /\ seen'[x][r].gen > 0 =>
                    0 < seen'[x][r].id /\ (r \notin Reusable => seen'[x][r].id = 1)
               /\ seen'[x][r].gen > 0 /\ seen'[x][r].gen = gen'[r] => SameId(x, r)'
               /\ seen'[x][r].gen > 0 /\ row'[r].live => SameId(x, r)' \/ OfEarlierRow(x, r)'
               /\ seen'[x][r].gen > 0 => seen'[x][r].id + seen'[x][r].ver = seen'[x][r].gen + 1
    <3>1. CASE r \notin S
      BY <1>2, <1>3, <3>1 DEF WriteInv, IdsAreSerial, VersionsCount, SameId, OfEarlierRow
    <3>2. CASE r \in S /\ seen'[x][r] = seen[x][r]
      <4>1. gen'[r] = gen[r] + 1 /\ (row'[r].live => row'[r].id = row[r].id) /\ row[r].live
        BY <1>2, <3>2
      <4>2. /\ seen[x][r].gen <= gen[r]
            /\ seen[x][r].id <= seen[x][r].gen
            /\ seen[x][r].gen > 0 =>
                 0 < seen[x][r].id /\ (r \notin Reusable => seen[x][r].id = 1)
            /\ seen[x][r].gen > 0 => SameId(x, r) \/ OfEarlierRow(x, r)
            /\ seen[x][r].gen > 0 => seen[x][r].id + seen[x][r].ver = seen[x][r].gen + 1
        BY <4>1 DEF WriteInv, IdsAreSerial, VersionsCount
      <4>3. seen'[x][r].gen # gen'[r] /\ seen'[x][r].gen <= gen'[r]
        BY <1>5, <3>2, <4>1, <4>2
      <4> QED
        BY <3>2, <4>1, <4>2, <4>3 DEF SameId, OfEarlierRow
    <3>3. CASE r \in S /\ seen'[x][r] # seen[x][r]
      <4>1. /\ row'[r].live
            /\ seen'[x][r].ver = row'[r].ver /\ seen'[x][r].gen = gen'[r]
            /\ seen'[x][r].id = row'[r].id
        BY <1>3, <1>4, <3>3
      <4>2. gen'[r] \in Nat
        BY <1>2, <1>5
      <4> QED
        BY <2>1, <4>1, <4>2 DEF SameId
    <3> QED
      BY <3>1, <3>2, <3>3
  <2> QED
    BY <2>1, <2>2 DEF IdsAreSerial, VersionsCount
<1>7. OperationsAreFormed'
  <2>1. \A r \in S : seen[w][r].gen > 0 => seen'[w][r].gen > 0
    BY <1>2, <1>4, <1>5
  <2> QED
    BY <1>1, <1>3, <2>1 DEF WriteInv, OperationsAreFormed, TypeInv, TypeOK, Statements
<1>8. HeldRowsAreFresh'
  <2>1. ASSUME NEW x \in Writers, pc'[x] = "apply"
        PROVE  /\ x # w /\ pc[x] = "apply" /\ hit'[x] = hit[x] /\ todo'[x] = todo[x]
               /\ \A r \in hit[x] : row'[r] = row[r] /\ gen'[r] = gen[r]
               /\ \A r \in Rows : seen'[x][r] = seen[x][r] /\ gen[r] <= gen'[r]
    <3>1. x # w /\ pc[x] = "apply" /\ hit'[x] = hit[x] /\ todo'[x] = todo[x]
      BY <1>1, <2>1
    <3>2. \A r \in hit[x] : r \in Rows /\ r \notin S
      BY <1>1, <3>1 DEF TypeInv, TypeOK
    <3>3. \A r \in hit[x] : row'[r] = row[r] /\ gen'[r] = gen[r]
      BY <1>2, <3>2
    <3>4. \A r \in Rows : seen'[x][r] = seen[x][r] /\ gen[r] <= gen'[r]
      BY <1>2, <1>3, <1>5, <3>1
    <3> QED
      BY <3>1, <3>3, <3>4
  <2>2. \A x \in Writers : pc'[x] \in Statements \ {"apply"} => hit'[x] = {}
    BY <1>1 DEF WriteInv, HeldRowsAreFresh, Statements
  <2>3. ASSUME NEW x \in Writers, pc'[x] = "apply"
        PROVE  /\ todo'[x] \subseteq op'[x].rows
               /\ hit'[x] \subseteq op'[x].rows
               /\ \A r \in hit'[x] : Identified(x, r)' /\ seen'[x][r].ver = row'[r].ver
    BY <2>1, <2>3 DEF WriteInv, HeldRowsAreFresh, Identified, SameId, TypeInv, TypeOK
  <2>4. ASSUME NEW x \in Writers, pc'[x] = "apply", NEW r \in op'[x].rows
        PROVE  r \in todo'[x] \/ r \in hit'[x] \/ Changed(x, r)'
    <3>1. r \in Rows
      BY DEF TypeInv, TypeOK
    <3> QED
      BY <1>2, <1>5, <2>1, <2>4, <3>1 DEF WriteInv, HeldRowsAreFresh, Changed
  <2>5. \A x, y \in Writers :
          x # y /\ pc'[x] = "apply" /\ pc'[y] = "apply" => hit'[x] \cap hit'[y] = {}
    BY <2>1 DEF WriteInv, HeldRowsAreFresh
  <2> QED
    BY <2>2, <2>3, <2>4, <2>5 DEF HeldRowsAreFresh
<1>9. FailuresHaveReasons'
  <2>1. ASSUME NEW x \in Writers, NEW r \in Rows, x # w
        PROVE  /\ Changed(x, r) => Changed(x, r)'
               /\ Replaced(x, r) => Replaced(x, r)'
               /\ Gone(x, r) => Gone(x, r)'
    <3>1. seen'[x][r] = seen[x][r] /\ gen[r] <= gen'[r] /\ gen'[r] \in Nat
      BY <1>2, <1>3, <1>5, <2>1
    <3>2. row'[r].live => row[r].live
      BY <1>2
    <3> QED
      BY <1>5, <3>1, <3>2 DEF Changed, Replaced, Gone
  <2>2. \A x \in Writers : op[x].rows \subseteq Rows
    BY DEF TypeInv, TypeOK
  <2> QED
    BY <1>1, <2>1, <2>2 DEF WriteInv, FailuresHaveReasons
<1> QED
  BY <1>6, <1>7, <1>8, <1>9 DEF WriteInv

LEMMA WriteInit == Init => WriteInv
BY DEF Init, WriteInv, IdsAreSerial, VersionsCount, OperationsAreFormed, HeldRowsAreFresh,
       FailuresHaveReasons, NoRow, NoImage, Statements

(* An insert keeps the invariant: what was read of its identity before is  *)
(* of an earlier row.                                                      *)
LEMMA AddKeeps ==
  ASSUME TypeInv, Disciplined, WriteInv, NEW w \in Writers, NEW r \in Rows,
         NEW ack \in Acks, Add(w, r, ack)
  PROVE  WriteInv'
<1>1. ~row[r].live /\ (gen[r] = 0 \/ r \in Reusable)
  BY DEF Add
<1>2. /\ \A q \in Rows : row'[q] = IF q = r THEN FreshRow(r) ELSE row[q]
      /\ \A q \in Rows : gen'[q] = IF q = r THEN gen[r] + 1 ELSE gen[q]
      /\ \A x \in Writers : res'[x] = IF x = w THEN "none" ELSE res[x]
      /\ pc' = pc /\ op' = op /\ hit' = hit /\ todo' = todo
  BY <1>1 DEF Add, TypeInv, TypeOK
<1>3. FreshRow(r).live /\ FreshRow(r).ver = 1 /\ FreshRow(r).id = gen[r] + 1
  BY DEF FreshRow
<1>4. \A x \in Writers, q \in Rows :
        \/ seen'[x][q] = seen[x][q]
        \/ /\ x = w /\ q = r /\ seen'[x][q].ver = 1
           /\ seen'[x][q].gen = gen[r] + 1 /\ seen'[x][q].id = gen[r] + 1
  BY <1>1 DEF Add, TypeInv, TypeOK
<1>5. \A q \in Rows : /\ gen[q] \in Nat /\ row[q].ver \in Nat /\ row[q].id \in Nat
                      /\ \A x \in Writers : /\ seen[x][q].gen \in Nat
                                            /\ seen[x][q].ver \in Nat
                                            /\ seen[x][q].id \in Nat
  BY Numbers
<1>6. \A x \in Writers : seen[x][r].gen <= gen[r] /\ (seen[x][r].gen > 0 => seen[x][r].gen < gen[r])
  BY <1>1, <1>5 DEF WriteInv, IdsAreSerial, SameId
<1>7. \A x \in Writers : op[x].rows \subseteq Rows /\ (pc[x] # "idle" => x # w)
  BY DEF Add, TypeInv, TypeOK
<1>8. IdsAreSerial' /\ VersionsCount'
  <2>1. ASSUME NEW q \in Rows, row'[q].live
        PROVE  /\ 0 < row'[q].id /\ row'[q].id <= gen'[q]
               /\ q \notin Reusable => row'[q].id = 1
               /\ row'[q].id + row'[q].ver = gen'[q] + 1
    <3>1. CASE q = r
      BY <1>1, <1>2, <1>3, <1>5, <3>1
    <3>2. CASE q # r
      BY <1>2, <2>1, <3>2 DEF WriteInv, IdsAreSerial, VersionsCount
    <3> QED
      BY <3>1, <3>2
  <2>2. ASSUME NEW x \in Writers, NEW q \in Rows
        PROVE  /\ seen'[x][q].gen <= gen'[q]
               /\ seen'[x][q].id <= seen'[x][q].gen
               /\ seen'[x][q].gen > 0 =>
                    0 < seen'[x][q].id /\ (q \notin Reusable => seen'[x][q].id = 1)
               /\ seen'[x][q].gen > 0 /\ seen'[x][q].gen = gen'[q] => SameId(x, q)'
               /\ seen'[x][q].gen > 0 /\ row'[q].live => SameId(x, q)' \/ OfEarlierRow(x, q)'
               /\ seen'[x][q].gen > 0 => seen'[x][q].id + seen'[x][q].ver = seen'[x][q].gen + 1
    <3>1. CASE q # r
      BY <1>2, <1>4, <3>1 DEF WriteInv, IdsAreSerial, VersionsCount, SameId, OfEarlierRow
    <3>2. CASE q = r /\ seen'[x][q] = seen[x][q]
      <4>1. /\ seen[x][r].id <= seen[x][r].gen
            /\ seen[x][r].gen > 0 =>
                 0 < seen[x][r].id /\ (r \notin Reusable => seen[x][r].id = 1)
            /\ seen[x][r].gen > 0 => seen[x][r].id + seen[x][r].ver = seen[x][r].gen + 1
        BY DEF WriteInv, IdsAreSerial, VersionsCount
      <4>2. gen'[r] = gen[r] + 1 /\ row'[r].id = gen[r] + 1
        BY <1>2, <1>3
      <4>3. seen[x][r].gen <= gen'[r] /\ seen[x][r].gen # gen'[r]
        BY <1>5, <1>6, <4>2
      <4>4. seen[x][r].gen > 0 => OfEarlierRow(x, q)'
        BY <1>5, <1>6, <3>2, <4>2 DEF OfEarlierRow
      <4> QED
        BY <3>2, <4>1, <4>3, <4>4
    <3>3. CASE q = r /\ seen'[x][q] # seen[x][q]
      <4>1. gen'[r] = gen[r] + 1 /\ row'[r].live /\ row'[r].id = gen[r] + 1
        BY <1>2, <1>3
      <4>2. seen'[x][q].ver = 1 /\ seen'[x][q].gen = gen[r] + 1 /\ seen'[x][q].id = gen[r] + 1
        BY <1>4, <3>3
      <4> QED
        BY <1>1, <1>5, <3>3, <4>1, <4>2 DEF SameId
    <3> QED
      BY <3>1, <3>2, <3>3
  <2> QED
    BY <2>1, <2>2 DEF IdsAreSerial, VersionsCount
<1>9. OperationsAreFormed'
  BY <1>2, <1>4, <1>7 DEF WriteInv, OperationsAreFormed
<1>10. \A x \in Writers : pc[x] = "apply" => r \notin hit[x]
  BY <1>1 DEF WriteInv, HeldRowsAreFresh, Identified
<1>11. HeldRowsAreFresh'
  <2>1. ASSUME NEW x \in Writers, pc[x] = "apply"
        PROVE  /\ \A q \in Rows : seen'[x][q] = seen[x][q] /\ gen[q] <= gen'[q]
               /\ \A q \in hit[x] : row'[q] = row[q] /\ q \in Rows
    <3>1. x # w
      BY <1>7, <2>1
    <3>2. hit[x] \subseteq Rows /\ r \notin hit[x]
      BY <1>10, <2>1 DEF TypeInv, TypeOK
    <3>3. \A q \in Rows : seen'[x][q] = seen[x][q]
      BY <1>4, <3>1
    <3>4. \A q \in Rows : gen[q] <= gen'[q]
      BY <1>2, <1>5
    <3>5. \A q \in hit[x] : row'[q] = row[q] /\ q \in Rows
      BY <1>2, <3>2
    <3> QED
      BY <3>3, <3>4, <3>5
  <2>2. ASSUME NEW x \in Writers, pc'[x] = "apply"
        PROVE  /\ todo'[x] \subseteq op'[x].rows /\ hit'[x] \subseteq op'[x].rows
               /\ \A q \in hit'[x] : Identified(x, q)' /\ seen'[x][q].ver = row'[q].ver
    BY <1>2, <2>1, <2>2 DEF WriteInv, HeldRowsAreFresh, Identified, SameId
  <2>3. ASSUME NEW x \in Writers, pc'[x] = "apply", NEW q \in op'[x].rows
        PROVE  q \in todo'[x] \/ q \in hit'[x] \/ Changed(x, q)'
    <3>1. q \in op[x].rows /\ q \in Rows /\ pc[x] = "apply"
      BY <1>2, <1>7, <2>3
    <3>2. q \in todo[x] \/ q \in hit[x] \/ seen[x][q].gen < gen[q]
      BY <3>1 DEF WriteInv, HeldRowsAreFresh, Changed
    <3>3. seen'[x][q] = seen[x][q] /\ gen[q] <= gen'[q] /\ gen'[q] \in Nat
      BY <1>2, <1>5, <2>1, <3>1
    <3> QED
      BY <1>2, <1>5, <3>1, <3>2, <3>3 DEF Changed
  <2> QED
    BY <1>2, <2>2, <2>3 DEF WriteInv, HeldRowsAreFresh
<1>12. FailuresHaveReasons'
  <2>1. ASSUME NEW x \in Writers, x # w, NEW q \in Rows
        PROVE  /\ Changed(x, q) => Changed(x, q)'
               /\ Replaced(x, q) => Replaced(x, q)'
               /\ Gone(x, q) => Gone(x, q)'
    <3>1. seen'[x][q] = seen[x][q]
      BY <1>4, <2>1
    <3>2. CASE q # r
      BY <1>2, <3>1, <3>2 DEF Changed, Replaced, Gone
    <3>3. CASE q = r
      <4>1. gen'[r] = gen[r] + 1
        BY <1>2
      <4>2. Changed(x, q) => r \in Reusable
        BY <1>1, <1>5, <3>3 DEF Changed
      <4> QED
        BY <1>5, <3>1, <3>3, <4>1, <4>2 DEF Changed, Replaced, Gone
    <3> QED
      BY <3>2, <3>3
  <2> QED
    BY <1>2, <1>7, <2>1 DEF WriteInv, FailuresHaveReasons
<1> QED
  BY <1>8, <1>9, <1>11, <1>12 DEF WriteInv

(* The steps that only move one operation on.                              *)
Advance(w) ==
  \/ ReadOld(w) \/ DiagnoseClean(w)
  \/ (WriteMisses(w) \/ DisambiguateZeroRows(w) \/ IdentityMissing(w)) /\ pc'[w] # "idle"

(* What such a step is, and the reason there is for it.                    *)
LEMMA AdvanceSteps ==
  ASSUME TypeInv, Disciplined, WriteInv, NEW w \in Writers, Advance(w)
  PROVE  /\ UNCHANGED <<row, gen, seen, op, hit, res>>
         /\ \A x \in Writers : x # w => pc'[x] = pc[x] /\ todo'[x] = todo[x]
         /\ pc[w] \in Statements \ {"apply"} /\ pc'[w] \in Statements
         /\ pc'[w] = "apply" => todo'[w] = op[w].rows /\ pc[w] = "check"
         /\ pc'[w] = "write" => ~op[w].many
         /\ pc'[w] = "check" => op[w].many
         /\ pc'[w] = "old" => pc[w] = "old"
         /\ pc'[w] = "probe" => pc[w] = "write" /\ \E r \in op[w].rows : ~Matches(w, r)
         /\ pc'[w] \in {"selector", "id"} =>
              \/ pc[w] = "probe" /\ \A r \in op[w].rows : ~Identified(w, r)
              \/ pc[w] = "selector"
<1>1. CASE ReadOld(w)
  BY <1>1 DEF ReadOld, TypeInv, TypeOK, Statements
<1>2. CASE DiagnoseClean(w)
  BY <1>2 DEF DiagnoseClean, TypeInv, TypeOK, Statements
<1>3. CASE WriteMisses(w) /\ pc'[w] # "idle"
  BY <1>3 DEF WriteMisses, Finish, Disciplined, TypeInv, TypeOK, Statements
<1>4. CASE DisambiguateZeroRows(w) /\ pc'[w] # "idle"
  BY <1>4 DEF DisambiguateZeroRows, Finish, TypeInv, TypeOK, Statements
<1>5. CASE IdentityMissing(w) /\ pc'[w] # "idle"
  BY <1>5 DEF IdentityMissing, Finish, TypeInv, TypeOK, Statements
<1> QED
  BY <1>1, <1>2, <1>3, <1>4, <1>5 DEF Advance

(* The steps that only move one operation on keep the invariant.           *)
LEMMA ProgressKeeps ==
  ASSUME TypeInv, Disciplined, WriteInv, NEW w \in Writers, Advance(w)
  PROVE  WriteInv'
<1>1. /\ UNCHANGED <<row, gen, seen, op, hit, res>>
      /\ \A x \in Writers : x # w => pc'[x] = pc[x] /\ todo'[x] = todo[x]
      /\ pc[w] \in Statements \ {"apply"} /\ pc'[w] \in Statements
      /\ pc'[w] = "apply" => todo'[w] = op[w].rows /\ pc[w] = "check"
      /\ pc'[w] = "write" => ~op[w].many
      /\ pc'[w] = "check" => op[w].many
      /\ pc'[w] = "old" => pc[w] = "old"
      /\ pc'[w] = "probe" => pc[w] = "write" /\ \E r \in op[w].rows : ~Matches(w, r)
      /\ pc'[w] \in {"selector", "id"} =>
           \/ pc[w] = "probe" /\ \A r \in op[w].rows : ~Identified(w, r)
           \/ pc[w] = "selector"
  BY AdvanceSteps
<1>2. IdsAreSerial' /\ VersionsCount'
  BY <1>1 DEF WriteInv, IdsAreSerial, VersionsCount, SameId, OfEarlierRow
<1>0. pc[w] # "idle" /\ pc'[w] # "idle" /\ op[w].rows \subseteq Rows
  BY <1>1 DEF Statements, TypeInv, TypeOK
<1>8. /\ \A r \in op[w].rows : seen[w][r].gen > 0
      /\ op[w].rows # {}
  BY <1>0 DEF WriteInv, OperationsAreFormed
<1>3. OperationsAreFormed'
  <2>1. /\ pc'[w] \in {"write", "probe", "selector", "id"} => ~op[w].many
        /\ pc'[w] \in {"check", "apply"} => op[w].many
    BY <1>0, <1>1 DEF WriteInv, OperationsAreFormed
  <2> QED
    BY <1>0, <1>1, <2>1 DEF WriteInv, OperationsAreFormed
<1>4. hit[w] = {}
  BY <1>1 DEF WriteInv, HeldRowsAreFresh
<1>5. HeldRowsAreFresh'
  BY <1>1, <1>4 DEF WriteInv, HeldRowsAreFresh, Identified, SameId, Changed
<1>6. pc'[w] = "probe" => \E r \in op[w].rows : Changed(w, r)
  BY <1>0, <1>1, <1>8, MatchMeansCurrent DEF WriteInv
<1>7. pc'[w] \in {"selector", "id"} => \A r \in op[w].rows : Gone(w, r)
  BY <1>0, <1>1, <1>8, UnidentifiedMeansGone DEF WriteInv, FailuresHaveReasons
<1>9. FailuresHaveReasons'
  BY <1>0, <1>1, <1>6, <1>7 DEF WriteInv, FailuresHaveReasons, Changed, Replaced, Gone
<1> QED
  BY <1>2, <1>3, <1>5, <1>9 DEF WriteInv

(* A finder gives the idle writer w the committed image of row r.          *)
LEMMA FindKeeps ==
  ASSUME TypeInv, WriteInv, NEW w \in Writers, NEW r \in Rows, Find(w, r)
  PROVE  WriteInv'
<1>1. /\ UNCHANGED <<row, gen, pc, op, todo, hit>>
      /\ \A x \in Writers : res'[x] = IF x = w THEN "none" ELSE res[x]
      /\ \A x \in Writers, q \in Rows :
           seen'[x][q] = IF x = w /\ q = r THEN Snapshot(r) ELSE seen[x][q]
      /\ pc[w] = "idle"
  BY DEF Find, TypeInv, TypeOK
<1>2. \/ /\ row[r].live /\ Snapshot(r).ver = row[r].ver
         /\ Snapshot(r).gen = gen[r] /\ Snapshot(r).id = row[r].id
      \/ ~row[r].live /\ Snapshot(r).gen = 0 /\ Snapshot(r).id = 0
  BY DEF Snapshot, NoImage
<1>3. \A x \in Writers : op[x].rows \subseteq Rows /\ (pc[x] # "idle" => x # w)
  BY <1>1 DEF TypeInv, TypeOK
<1>8. \A x \in Writers, q \in Rows : x # w => seen'[x][q] = seen[x][q]
  BY <1>1
<1>4. IdsAreSerial' /\ VersionsCount'
  <2>1. /\ gen[r] \in Nat /\ row[r].ver \in Nat /\ row[r].id \in Nat
        /\ row[r].live => 0 < row[r].id /\ row[r].id <= gen[r] /\ (r \notin Reusable => row[r].id = 1)
        /\ row[r].live => row[r].id + row[r].ver = gen[r] + 1
    BY Numbers DEF WriteInv, IdsAreSerial, VersionsCount
  <2>2. ASSUME NEW x \in Writers, NEW q \in Rows
        PROVE  /\ seen'[x][q].gen <= gen'[q]
               /\ seen'[x][q].id <= seen'[x][q].gen
               /\ seen'[x][q].gen > 0 =>
                    0 < seen'[x][q].id /\ (q \notin Reusable => seen'[x][q].id = 1)
               /\ seen'[x][q].gen > 0 /\ seen'[x][q].gen = gen'[q] => SameId(x, q)'
               /\ seen'[x][q].gen > 0 /\ row'[q].live => SameId(x, q)' \/ OfEarlierRow(x, q)'
               /\ seen'[x][q].gen > 0 => seen'[x][q].id + seen'[x][q].ver = seen'[x][q].gen + 1
    <3>1. CASE x = w /\ q = r
      BY <1>1, <1>2, <2>1, <3>1 DEF SameId
    <3>2. CASE ~(x = w /\ q = r)
      BY <1>1, <3>2 DEF WriteInv, IdsAreSerial, VersionsCount, SameId, OfEarlierRow
    <3> QED
      BY <3>1, <3>2
  <2> QED
    BY <1>1, <2>2 DEF WriteInv, IdsAreSerial, VersionsCount
<1>5. OperationsAreFormed'
  BY <1>1, <1>3, <1>8 DEF WriteInv, OperationsAreFormed
<1>6. HeldRowsAreFresh'
  BY <1>1, <1>3, <1>8 DEF WriteInv, HeldRowsAreFresh, Identified, SameId, Changed, TypeInv, TypeOK
<1>7. FailuresHaveReasons'
  BY <1>1, <1>3, <1>8 DEF WriteInv, FailuresHaveReasons, Changed, Replaced, Gone
<1> QED
  BY <1>4, <1>5, <1>6, <1>7 DEF WriteInv

(* An operation begins on rows that its caller has read.                   *)
LEMMA BeginKeeps ==
  ASSUME TypeInv, WriteInv, NEW w \in Writers, NEW kind \in Kinds, NEW S \in SUBSET Rows,
         NEW many \in BOOLEAN, NEW twice \in BOOLEAN, Begin(w, kind, S, many, twice)
  PROVE  WriteInv'
<1>1. /\ UNCHANGED <<row, gen, seen, todo>>
      /\ \A x \in Writers : pc'[x] = IF x = w THEN "old" ELSE pc[x]
      /\ \A x \in Writers : res'[x] = IF x = w THEN "none" ELSE res[x]
      /\ \A x \in Writers : hit'[x] = IF x = w THEN {} ELSE hit[x]
      /\ \A x \in Writers : x # w => op'[x] = op[x]
      /\ op'[w].rows = S /\ op'[w].many = many /\ op'[w].twice = twice
      /\ S # {} /\ (twice => many /\ Repeats)
  BY DEF Begin, TypeInv, TypeOK
<1>2. \A r \in S : seen[w][r].gen > 0
  BY DEF Begin
<1>3. IdsAreSerial' /\ VersionsCount'
  BY <1>1 DEF WriteInv, IdsAreSerial, VersionsCount, SameId, OfEarlierRow
<1>4. OperationsAreFormed'
  BY <1>1, <1>2 DEF WriteInv, OperationsAreFormed
<1>5. HeldRowsAreFresh'
  BY <1>1 DEF WriteInv, HeldRowsAreFresh, Identified, SameId, Changed
<1>6. FailuresHaveReasons'
  BY <1>1 DEF WriteInv, FailuresHaveReasons, Changed, Replaced, Gone
<1> QED
  BY <1>3, <1>4, <1>5, <1>6 DEF WriteInv

(* The set-based write takes a row only if it matches and nobody holds it. *)
LEMMA VisitKeeps ==
  ASSUME TypeInv, Disciplined, WriteInv, NEW w \in Writers, NEW r \in Rows, VisitRow(w, r)
  PROVE  WriteInv'
<1>1. /\ UNCHANGED <<row, gen, seen, pc, op, res>>
      /\ pc[w] = "apply" /\ r \in todo[w]
      /\ \A x \in Writers : todo'[x] = IF x = w THEN todo[w] \ {r} ELSE todo[x]
      /\ \A x \in Writers : hit'[x] = IF x = w /\ Matches(w, r) THEN hit[w] \cup {r} ELSE hit[x]
  BY DEF VisitRow, TypeInv, TypeOK
<1>2. r \in op[w].rows /\ seen[w][r].gen > 0
  BY <1>1 DEF WriteInv, HeldRowsAreFresh, OperationsAreFormed
<1>3. /\ Matches(w, r) => Identified(w, r) /\ seen[w][r].ver = row[r].ver
      /\ ~Matches(w, r) => Changed(w, r)
  BY <1>2, MatchMeansCurrent DEF WriteInv, Current
<1>4. Matches(w, r) => \A x \in Writers : pc[x] = "apply" => r \notin hit[x]
  BY DEF VisitRow, Locked
<1>5. HeldRowsAreFresh'
  BY <1>1, <1>2, <1>3, <1>4 DEF WriteInv, HeldRowsAreFresh, Identified, SameId, Changed
<1>6. IdsAreSerial' /\ VersionsCount'
  BY <1>1 DEF WriteInv, IdsAreSerial, VersionsCount, SameId, OfEarlierRow
<1>7. OperationsAreFormed' /\ FailuresHaveReasons'
  BY <1>1 DEF WriteInv, OperationsAreFormed, FailuresHaveReasons, Changed, Replaced, Gone
<1> QED
  BY <1>5, <1>6, <1>7 DEF WriteInv

(* An operation that fails has a reason to.                                *)
LEMMA FailureKeeps ==
  ASSUME TypeInv, Disciplined, WriteInv, NEW w \in Writers,
         \/ (WriteMisses(w) \/ DisambiguateZeroRows(w) \/ IdentityMissing(w)) /\ pc'[w] = "idle"
         \/ IdentityFound(w) \/ DiagnoseStale(w) \/ RaceGuard(w)
         \/ AbortMany(w) \/ AbortOne(w) \/ BreakDeadlock(w)
  PROVE  WriteInv'
<1>1. op[w].rows \subseteq Rows
  BY DEF TypeInv, TypeOK
<1>2. CASE (DisambiguateZeroRows(w) \/ WriteMisses(w)) /\ pc'[w] = "idle"
  <2>1. pc[w] = "probe" /\ Finish(w, "ERR01", {}) /\ UNCHANGED <<row, gen, seen, op>>
    BY <1>2 DEF DisambiguateZeroRows, WriteMisses, Disciplined, TypeInv, TypeOK
  <2> QED
    BY <2>1, QuietFinish DEF WriteInv, FailuresHaveReasons
<1>6. CASE (IdentityMissing(w) /\ pc'[w] = "idle") \/ IdentityFound(w)
  <2>1. pc[w] \in {"selector", "id"} /\ UNCHANGED <<row, gen, seen, op>>
    BY <1>6 DEF IdentityMissing, IdentityFound
  <2>2. \/ Finish(w, "ERR03", {})
        \/ Finish(w, "ERR10", {}) /\ FieldFound(w)
    BY <1>6 DEF IdentityMissing, IdentityFound, Disciplined, TypeInv, TypeOK
  <2>3. \A r \in op[w].rows : Gone(w, r)
    BY <2>1 DEF WriteInv, FailuresHaveReasons
  <2>4. CASE Finish(w, "ERR03", {})
    <3>1. op[w].rows # {}
      BY <2>1 DEF WriteInv, OperationsAreFormed
    <3>2. \E r \in op[w].rows : Gone(w, r)
      BY <2>3, <3>1
    <3> QED
      BY <2>1, <2>4, <3>2, QuietFinish
  <2>5. CASE Finish(w, "ERR10", {}) /\ FieldFound(w)
    <3>1. \E r \in op[w].rows : Replaced(w, r)
      BY <2>3, <2>5 DEF FieldFound, SameId, Gone
    <3> QED
      BY <2>1, <2>5, <3>1, QuietFinish
  <2> QED
    BY <2>2, <2>4, <2>5
<1>3. CASE DiagnoseStale(w)
  <2>1. pc[w] = "check" /\ \A r \in op[w].rows : seen[w][r].gen > 0
    BY <1>3 DEF DiagnoseStale, WriteInv, OperationsAreFormed
  <2>2. \A r \in op[w].rows : /\ ~Matches(w, r) => Changed(w, r)
                              /\ ~Identified(w, r) => Gone(w, r)
    BY <1>1, <2>1, MatchMeansCurrent, UnidentifiedMeansGone DEF WriteInv
  <2>3. UNCHANGED <<row, gen, seen, op>> /\ \E r \in op[w].rows : ~Matches(w, r)
    BY <1>3 DEF DiagnoseStale
  <2>4. CASE \E r \in op[w].rows : ~Identified(w, r) /\ row[r].live
    <3>1. \E r \in op[w].rows : Replaced(w, r)
      BY <2>2, <2>4 DEF Gone
    <3>2. Finish(w, "ERR10", {})
      BY <1>3, <2>4 DEF DiagnoseStale
    <3> QED
      BY <2>3, <3>1, <3>2, QuietFinish
  <2>5. CASE /\ ~\E r \in op[w].rows : ~Identified(w, r) /\ row[r].live
             /\ \A r \in op[w].rows : Matches(w, r) \/ ~Identified(w, r)
    <3>1. \E r \in op[w].rows : Gone(w, r)
      BY <2>2, <2>3, <2>5
    <3>2. Finish(w, "ERR03", {})
      BY <1>3, <2>5 DEF DiagnoseStale
    <3> QED
      BY <2>3, <3>1, <3>2, QuietFinish
  <2>6. CASE /\ ~\E r \in op[w].rows : ~Identified(w, r) /\ row[r].live
             /\ ~\A r \in op[w].rows : Matches(w, r) \/ ~Identified(w, r)
    <3>1. \E r \in op[w].rows : Changed(w, r)
      BY <2>2, <2>6
    <3>2. Finish(w, "ERR01", {})
      BY <1>3, <2>6 DEF DiagnoseStale
    <3> QED
      BY <2>3, <3>1, <3>2, QuietFinish
  <2> QED
    BY <2>4, <2>5, <2>6
<1>4. CASE RaceGuard(w)
  <2>1. pc[w] = "apply" /\ todo[w] = {} /\ ~Whole(w)
    BY <1>4 DEF RaceGuard
  <2>2. ~Repeats => hit[w] # op[w].rows
    BY <2>1 DEF Whole, WriteInv, OperationsAreFormed
  <2>3. ~Repeats => \E r \in op[w].rows : Changed(w, r)
    BY <2>1, <2>2 DEF WriteInv, HeldRowsAreFresh
  <2> QED
    BY <1>4, <2>3, QuietFinish DEF RaceGuard
<1>5. CASE AbortMany(w) \/ AbortOne(w) \/ BreakDeadlock(w)
  BY <1>5, QuietFinish DEF AbortMany, AbortOne, BreakDeadlock
<1> QED
  BY <1>2, <1>3, <1>4, <1>5, <1>6

(* The rows a guarded single-row write changes, and why it may.            *)
LEMMA GuardedWriteIsFresh ==
  ASSUME TypeInv, Disciplined, WriteInv, NEW w \in Writers, NEW ack, GuardedWrite(w, ack)
  PROVE  /\ pc[w] # "idle" /\ op[w].rows \in SUBSET Rows
         /\ \A r \in op[w].rows : row[r].live /\ seen[w][r].gen > 0 /\ Fresh(w, r)
         /\ \A x \in Writers : pc[x] = "apply" => hit[x] \cap op[w].rows = {}
<1>1. pc[w] = "write" /\ \A r \in op[w].rows : Matches(w, r) /\ ~Locked(r)
  BY DEF GuardedWrite
<1>2. op[w].rows \in SUBSET Rows
  BY DEF TypeInv, TypeOK
<1>3. \A r \in op[w].rows : row[r].live /\ seen[w][r].gen > 0 /\ Fresh(w, r)
  <2> SUFFICES ASSUME NEW r \in op[w].rows
               PROVE  row[r].live /\ seen[w][r].gen > 0 /\ Fresh(w, r)
    OBVIOUS
  <2>1. r \in Rows /\ seen[w][r].gen > 0
    BY <1>1, <1>2 DEF WriteInv, OperationsAreFormed
  <2>2. Current(w, r)
    BY <1>1, <2>1, MatchMeansCurrent DEF WriteInv
  <2> QED
    BY <2>1, <2>2, CurrentMeansFresh DEF WriteInv, Current, Identified
<1>4. \A x \in Writers : pc[x] = "apply" => hit[x] \cap op[w].rows = {}
  BY <1>1 DEF Locked
<1> QED
  BY <1>1, <1>2, <1>3, <1>4

(* The rows a bulk write commits, and why it may.                          *)
LEMMA CommitIsFresh ==
  ASSUME TypeInv, Disciplined, WriteInv, NEW w \in Writers, NEW ack, CommitMany(w, ack)
  PROVE  /\ pc[w] # "idle" /\ hit[w] \in SUBSET Rows /\ hit[w] = op[w].rows
         /\ \A r \in hit[w] : row[r].live /\ seen[w][r].gen > 0 /\ Fresh(w, r)
         /\ \A x \in Writers : x # w /\ pc[x] = "apply" => hit[x] \cap hit[w] = {}
<1>1. /\ pc[w] = "apply" /\ hit[w] \in SUBSET Rows /\ hit[w] = op[w].rows
      /\ \A x \in Writers : x # w /\ pc[x] = "apply" => hit[x] \cap hit[w] = {}
  BY DEF CommitMany, Whole, Disciplined, TypeInv, TypeOK, WriteInv, HeldRowsAreFresh
<1>2. ASSUME NEW r \in hit[w] PROVE row[r].live /\ seen[w][r].gen > 0 /\ Fresh(w, r)
  <2>1. r \in Rows /\ seen[w][r].gen > 0
    BY <1>1, <1>2 DEF WriteInv, OperationsAreFormed
  <2>2. Current(w, r)
    BY <1>1, <1>2 DEF WriteInv, HeldRowsAreFresh, Current
  <2> QED
    BY <2>1, <2>2, CurrentMeansFresh DEF WriteInv, Current, Identified
<1> QED
  BY <1>1, <1>2

LEMMA WriteStep == TypeInv /\ Disciplined /\ WriteInv /\ [Next]_vars => WriteInv'
<1> SUFFICES ASSUME TypeInv, Disciplined, WriteInv, [Next]_vars PROVE WriteInv'
  OBVIOUS
<1>1. ASSUME NEW w \in Writers, NEW ack \in Acks, GuardedWrite(w, ack) PROVE WriteInv'
  <2>1. /\ pc[w] # "idle" /\ op[w].rows \in SUBSET Rows
        /\ \A r \in op[w].rows : row[r].live
        /\ \A x \in Writers : pc[x] = "apply" => hit[x] \cap op[w].rows = {}
    BY <1>1, GuardedWriteIsFresh
  <2>2. PICK outcome \in {"ok", "unknown"} : Finish(w, outcome, op[w].rows)
    BY <1>1 DEF GuardedWrite
  <2>3. Apply(w, op[w].rows) /\ op' = op
    BY <1>1 DEF GuardedWrite
  <2>4. seen' = seen \/ (op[w].kind # "hardDelete" /\ seen' = Returned(w, op[w].rows))
    BY <1>1 DEF GuardedWrite
  <2> QED
    BY <2>1, <2>2, <2>3, <2>4, WritingFinish
<1>2. ASSUME NEW w \in Writers, NEW ack \in Acks, CommitMany(w, ack) PROVE WriteInv'
  <2>1. /\ pc[w] # "idle" /\ hit[w] \in SUBSET Rows
        /\ \A r \in hit[w] : row[r].live
        /\ \A x \in Writers : x # w /\ pc[x] = "apply" => hit[x] \cap hit[w] = {}
    BY <1>2, CommitIsFresh
  <2>2. PICK outcome \in {"ok", "unknown"} : Finish(w, outcome, hit[w])
    BY <1>2 DEF CommitMany
  <2>3. Apply(w, hit[w]) /\ op' = op /\ seen' = seen
    BY <1>2 DEF CommitMany
  <2> QED
    BY <2>1, <2>2, <2>3, WritingFinish
<1>3. ASSUME NEW e \in inflight, AuditLands(e) \/ AuditFails(e) PROVE WriteInv'
  BY <1>3 DEF AuditLands, AuditFails, WriteInv, IdsAreSerial, VersionsCount, SameId, Identified,
              OfEarlierRow, OperationsAreFormed, HeldRowsAreFresh, FailuresHaveReasons,
              Changed, Replaced, Gone
<1>4. CASE UNCHANGED vars
  BY <1>4 DEF vars, WriteInv, IdsAreSerial, VersionsCount, SameId, Identified, OfEarlierRow,
              OperationsAreFormed, HeldRowsAreFresh, FailuresHaveReasons, Changed, Replaced, Gone
<1> QED
  BY <1>1, <1>2, <1>3, <1>4, AddKeeps, ProgressKeeps, FindKeeps, BeginKeeps, VisitKeeps,
     FailureKeeps
  DEF Next, Advance

(* WriteInv holds of every run of the library as it is meant to be used.   *)
THEOREM WriteInvariant ==
  ASSUME Disciplined
  PROVE  Spec => []WriteInv
<1>1. Init => TypeInv /\ WriteInv
  BY TypeInit, WriteInit
<1>2. TypeInv /\ WriteInv /\ [Next]_vars => TypeInv' /\ WriteInv'
  BY TypeStep, WriteStep
<1> QED
  BY <1>1, <1>2, PTL DEF Spec

(***************************************************************************)
(* What follows from it                                                    *)
(***************************************************************************)

(* Only three actions change a row, and each only rows it may change.      *)
LEMMA WhoChangesRows ==
  ASSUME TypeInv, Disciplined, WriteInv, [Next]_vars, NEW r \in Rows, gen'[r] # gen[r]
  PROVE  \/ ~row[r].live
         \/ \E w \in Writers :
              /\ pc[w] # "idle" /\ pc'[w] = "idle"
              /\ r \in op[w].rows /\ Fresh(w, r)
<1>1. ASSUME NEW w \in Writers, NEW q \in Rows, NEW ack \in Acks, Add(w, q, ack)
      PROVE  ~row[r].live
  BY <1>1 DEF Add, TypeInv, TypeOK
<1>2. ASSUME NEW w \in Writers, NEW ack \in Acks, GuardedWrite(w, ack)
      PROVE  /\ pc[w] # "idle" /\ pc'[w] = "idle"
             /\ r \in op[w].rows /\ Fresh(w, r)
  BY <1>2, GuardedWriteIsFresh DEF GuardedWrite, Apply, Finish, TypeInv, TypeOK
<1>3. ASSUME NEW w \in Writers, NEW ack \in Acks, CommitMany(w, ack)
      PROVE  /\ pc[w] # "idle" /\ pc'[w] = "idle"
             /\ r \in op[w].rows /\ Fresh(w, r)
  BY <1>3, CommitIsFresh DEF CommitMany, Apply, Finish, TypeInv, TypeOK
<1> QED
  BY <1>1, <1>2, <1>3
  DEF Next, vars, Find, VisitRow, Begin, ReadOld, WriteMisses, DisambiguateZeroRows,
      IdentityFound, IdentityMissing, DiagnoseClean, DiagnoseStale, RaceGuard, AbortMany, AbortOne, BreakDeadlock,
      AuditLands, AuditFails

(* No write goes on top of a change that its caller has not read: the      *)
(* promise of the optimistic lock (the guarded statements of update,       *)
(* delete, restore, hardDelete and of their bulk forms).                   *)
THEOREM NoUpdateIsLost ==
  ASSUME Disciplined
  PROVE  Spec => NoLostUpdate
<1>1. Init => TypeInv /\ WriteInv
  BY TypeInit, WriteInit
<1>2. TypeInv /\ WriteInv /\ [Next]_vars => TypeInv' /\ WriteInv'
  BY TypeStep, WriteStep
<1>3. TypeInv /\ WriteInv /\ [Next]_vars =>
        [\A r \in Rows :
           row[r].live /\ gen'[r] # gen[r] =>
             \E w \in Writers :
               /\ pc[w] # "idle" /\ pc'[w] = "idle"
               /\ r \in op[w].rows
               /\ \/ seen[w][r].gen = gen[r]
                  \/ r \in Reusable /\ w \notin Paired /\ OfEarlierRow(w, r)]_vars
  BY WhoChangesRows DEF Fresh
<1> QED
  BY <1>1, <1>2, <1>3, PTL DEF Spec, NoLostUpdate

(* Whoever is told of a conflict or of a vanished record has lost the race *)
(* for at least one row (disambiguateZeroRows, bulkStaleDiagnoseSql, race  *)
(* guards); a caller that lists a row twice is left out.                   *)
THEOREM ErrorsDeserved ==
  ASSUME Disciplined, ~Repeats
  PROVE  Spec => []ErrorsAreDeserved
<1>1. WriteInv => ErrorsAreDeserved
  BY DEF WriteInv, FailuresHaveReasons, ErrorsAreDeserved
<1>2. Init => TypeInv /\ WriteInv
  BY TypeInit, WriteInit
<1>3. TypeInv /\ WriteInv /\ [Next]_vars => TypeInv' /\ WriteInv'
  BY TypeStep, WriteStep
<1> QED
  BY <1>1, <1>2, <1>3, PTL DEF Spec

(* The steps that end an operation without a write, or take it to a probe. *)
FailingStep(w) ==
  \/ WriteMisses(w) \/ DisambiguateZeroRows(w) \/ IdentityFound(w) \/ IdentityMissing(w)
  \/ DiagnoseStale(w) \/ RaceGuard(w) \/ AbortMany(w) \/ AbortOne(w) \/ BreakDeadlock(w)

(* They change no row and no audit entry, and report no success.           *)
LEMMA FailingOutcome ==
  ASSUME NEW w \in Writers, FailingStep(w)
  PROVE  /\ UNCHANGED <<row, gen, seen, op, audit, inflight>>
         /\ \/ \E outcome \in Results \ {"ok"} : Finish(w, outcome, {})
            \/ /\ pc[w] \in Statements \ {"old"}
               /\ \E s \in Statements \ {"old"} : pc' = [pc EXCEPT ![w] = s]
               /\ UNCHANGED <<old, todo, hit, res>>
<1>1. CASE WriteMisses(w)
  BY <1>1 DEF WriteMisses, Statements, Results
<1>2. CASE DisambiguateZeroRows(w)
  BY <1>2 DEF DisambiguateZeroRows, Statements, Results
<1>3. CASE IdentityFound(w)
  BY <1>3 DEF IdentityFound, Results
<1>4. CASE IdentityMissing(w)
  BY <1>4 DEF IdentityMissing, Statements, Results
<1>5. CASE DiagnoseStale(w)
  BY <1>5 DEF DiagnoseStale, Results
<1>6. CASE RaceGuard(w) \/ AbortMany(w) \/ AbortOne(w) \/ BreakDeadlock(w)
  BY <1>6 DEF RaceGuard, AbortMany, AbortOne, BreakDeadlock, Results
<1> QED
  BY <1>1, <1>2, <1>3, <1>4, <1>5, <1>6 DEF FailingStep

(* A step that reports success has written a row for every item, and the   *)
(* report stands until the writer's next operation.                        *)
LEMMA SuccessStep ==
  TypeInv /\ Disciplined /\ WriteInv /\ SuccessIsComplete /\ [Next]_vars => SuccessIsComplete'
<1> SUFFICES ASSUME TypeInv, Disciplined, WriteInv, SuccessIsComplete, [Next]_vars
             PROVE  SuccessIsComplete'
  OBVIOUS
<1>1. ASSUME NEW w \in Writers, NEW outcome \in Results \ {"ok"}, NEW S \in SUBSET Rows,
             Finish(w, outcome, S), op' = op
      PROVE  SuccessIsComplete'
  BY <1>1 DEF Finish, SuccessIsComplete, TypeInv, TypeOK
<1>2. ASSUME NEW w \in Writers, NEW ack \in Acks, GuardedWrite(w, ack)
      PROVE  SuccessIsComplete'
  <2>1. ~op[w].twice
    BY <1>2 DEF GuardedWrite, WriteInv, OperationsAreFormed
  <2> QED
    BY <1>2, <2>1 DEF GuardedWrite, Finish, SuccessIsComplete, TypeInv, TypeOK
<1>3. ASSUME NEW w \in Writers, NEW ack \in Acks, CommitMany(w, ack)
      PROVE  SuccessIsComplete'
  BY <1>3 DEF CommitMany, Whole, Disciplined, Finish, SuccessIsComplete, TypeInv, TypeOK
<1>4. ASSUME NEW w \in Writers, FailingStep(w)
      PROVE  SuccessIsComplete'
  BY <1>1, <1>4, FailingOutcome DEF SuccessIsComplete
<1>5. ASSUME NEW w \in Writers, NEW r \in Rows,
             Find(w, r) \/ VisitRow(w, r) \/ \E ack \in Acks : Add(w, r, ack)
      PROVE  SuccessIsComplete'
  BY <1>5 DEF Find, VisitRow, Add, SuccessIsComplete, TypeInv, TypeOK, WriteInv,
              FailuresHaveReasons
<1>6. ASSUME NEW w \in Writers, NEW kind \in Kinds, NEW S \in SUBSET Rows,
             NEW many \in BOOLEAN, NEW twice \in BOOLEAN, Begin(w, kind, S, many, twice)
      PROVE  SuccessIsComplete'
  BY <1>6 DEF Begin, SuccessIsComplete, TypeInv, TypeOK
<1>7. CASE UNCHANGED <<op, hit, res>>
  BY <1>7 DEF SuccessIsComplete
<1> QED
  BY <1>2, <1>3, <1>4, <1>5, <1>6, <1>7
  DEF Next, FailingStep, vars, ReadOld, DiagnoseClean, AuditLands, AuditFails

(* A bulk write of a versioned entity that succeeds has written all of its *)
(* rows (the race guards before COMMIT), and so has a single-row write.    *)
THEOREM SuccessComplete ==
  ASSUME Disciplined
  PROVE  Spec => []SuccessIsComplete
<1>1. Init => TypeInv /\ WriteInv /\ SuccessIsComplete
  BY TypeInit, WriteInit DEF Init, SuccessIsComplete
<1>2. TypeInv /\ WriteInv /\ SuccessIsComplete /\ [Next]_vars
        => TypeInv' /\ WriteInv' /\ SuccessIsComplete'
  BY TypeStep, WriteStep, SuccessStep
<1> QED
  BY <1>1, <1>2, PTL DEF Spec

(***************************************************************************)
(* The table is a multi-row compare-and-set register                       *)
(***************************************************************************)

LEMMA StoreInit == Init => Store!Init
BY DEF Init, Store!Init, NoRow, NoImage

(* A write of fresh rows is a Change of the abstract store.                *)
LEMMA WriteIsChange ==
  ASSUME TypeInv, Disciplined, WriteInv, NEW w \in Writers, NEW S \in SUBSET Rows,
         \A r \in S : row[r].live /\ seen[w][r].gen > 0 /\ Fresh(w, r),
         Apply(w, S),
         seen' = seen \/ (op[w].kind # "hardDelete" /\ seen' = Returned(w, S))
  PROVE  Store!Change(w, S)
<1>1. /\ \A r \in Rows : gen'[r] = IF r \in S THEN gen[r] + 1 ELSE gen[r]
      /\ \A r \in Rows \ S : row'[r] = row[r]
      /\ \A r \in S : row'[r].live <=> op[w].kind # "hardDelete"
  BY RowsChange
<1>2. gen' = [r \in Rows |-> IF r \in S THEN gen[r] + 1 ELSE gen[r]]
  BY DEF Apply
<1>3. \/ [r \in Rows |-> row'[r].live] = [r \in Rows |-> row[r].live]
      \/ [r \in Rows |-> row'[r].live] =
           [r \in Rows |-> [q \in Rows |-> row[q].live][r] /\ r \notin S]
  <2>1. \A r \in Rows : row[r].live \in BOOLEAN /\ row'[r].live \in BOOLEAN
    <3>1. row' \in [Rows -> Tuple]
      BY ApplyType DEF TypeInv
    <3> QED
      BY <3>1 DEF TypeInv, TypeOK, Tuple
  <2>2. CASE op[w].kind = "hardDelete"
    BY <1>1, <2>1, <2>2
  <2>3. CASE op[w].kind # "hardDelete"
    BY <1>1, <2>1, <2>3
  <2> QED
    BY <2>2, <2>3
<1>0. \A r \in S : row[r].live /\ (seen[w][r].gen = gen[r] \/ (r \in Reusable /\ seen[w][r].gen > 0))
  BY DEF Fresh
<1>4. CASE seen' = seen
  BY <1>0, <1>2, <1>3, <1>4 DEF Store!Change
<1>5. CASE op[w].kind # "hardDelete" /\ seen' = Returned(w, S)
  <2>1. \A x \in Writers, r \in Rows :
          seen'[x][r].gen = IF x = w /\ r \in S THEN gen[r] + 1 ELSE seen[x][r].gen
    BY <1>5, ReturnedImages
  <2> DEFINE before == [x \in Writers |-> [r \in Rows |-> seen[x][r].gen]]
             after == [x \in Writers |-> [r \in Rows |-> seen'[x][r].gen]]
             learnt == [before EXCEPT ![w] =
                          [r \in Rows |-> IF r \in S THEN gen[r] + 1 ELSE @[r]]]
  <2>2. after = learnt
    <3>1. \A x \in Writers, r \in Rows : after[x][r] = learnt[x][r]
      BY <2>1
    <3>2. /\ after = [x \in Writers |-> [r \in Rows |-> after[x][r]]]
          /\ learnt = [x \in Writers |-> [r \in Rows |-> learnt[x][r]]]
      OBVIOUS
    <3> HIDE DEF after, learnt
    <3> QED
      BY <3>1, <3>2
  <2> QED
    BY <1>0, <1>2, <1>3, <2>2 DEF Store!Change
<1> QED
  BY <1>4, <1>5

LEMMA StoreStep ==
  TypeInv /\ Disciplined /\ WriteInv /\ [Next]_vars => [Store!Next]_(Store!vars)
<1> SUFFICES ASSUME TypeInv, Disciplined, WriteInv, [Next]_vars
             PROVE  [Store!Next]_(Store!vars)
  OBVIOUS
<1>1. ASSUME NEW w \in Writers, NEW r \in Rows, Find(w, r) PROVE Store!Next
  <2>1. Snapshot(r).gen = IF row[r].live THEN gen[r] ELSE 0
    BY DEF Snapshot, NoImage
  <2>2. \A x \in Writers, q \in Rows :
          seen'[x][q] = IF x = w /\ q = r THEN Snapshot(r) ELSE seen[x][q]
    BY <1>1 DEF Find, TypeInv, TypeOK
  <2> DEFINE before == [x \in Writers |-> [q \in Rows |-> seen[x][q].gen]]
             after == [x \in Writers |-> [q \in Rows |-> seen'[x][q].gen]]
             learnt == [before EXCEPT ![w][r] = IF row[r].live THEN gen[r] ELSE 0]
  <2>3. after = learnt
    <3>1. \A x \in Writers, q \in Rows : after[x][q] = learnt[x][q]
      BY <2>1, <2>2
    <3>2. /\ after = [x \in Writers |-> [q \in Rows |-> after[x][q]]]
          /\ learnt = [x \in Writers |-> [q \in Rows |-> learnt[x][q]]]
      OBVIOUS
    <3> HIDE DEF after, learnt
    <3> QED
      BY <3>1, <3>2
  <2>4. Store!Read(w, r)
    BY <1>1, <2>3 DEF Find, Store!Read
  <2> QED
    BY <2>4 DEF Store!Next
<1>2. ASSUME NEW w \in Writers, NEW r \in Rows, NEW ack \in Acks, Add(w, r, ack)
      PROVE  Store!Next
  <2>1. ~row[r].live /\ (gen[r] = 0 \/ r \in Reusable) /\ gen' = [gen EXCEPT ![r] = @ + 1]
    BY <1>2 DEF Add
  <2>2. [q \in Rows |-> row'[q].live] = [[q \in Rows |-> row[q].live] EXCEPT ![r] = TRUE]
    BY <1>2 DEF Add, FreshRow, TypeInv, TypeOK
  <2> DEFINE before == [x \in Writers |-> [q \in Rows |-> seen[x][q].gen]]
             after == [x \in Writers |-> [q \in Rows |-> seen'[x][q].gen]]
             learnt == [before EXCEPT ![w][r] = gen[r] + 1]
  <2>3. after \in {before, learnt}
    <3>1. CASE ~ack
      BY <1>2, <3>1 DEF Add
    <3>2. CASE ack
      <4>1. \A x \in Writers, q \in Rows :
              seen'[x][q].gen = IF x = w /\ q = r THEN gen[r] + 1 ELSE seen[x][q].gen
        BY <1>2, <2>1, <3>2 DEF Add, TypeInv, TypeOK
      <4>2. \A x \in Writers, q \in Rows : after[x][q] = learnt[x][q]
        BY <4>1
      <4>3. /\ after = [x \in Writers |-> [q \in Rows |-> after[x][q]]]
            /\ learnt = [x \in Writers |-> [q \in Rows |-> learnt[x][q]]]
        OBVIOUS
      <4> HIDE DEF after, learnt
      <4> QED
        BY <4>2, <4>3
    <3> QED
      BY <3>1, <3>2
  <2>4. Store!Insert(w, r)
    BY <2>1, <2>2, <2>3 DEF Store!Insert
  <2> QED
    BY <2>4 DEF Store!Next
<1>3. ASSUME NEW w \in Writers, NEW ack \in Acks, GuardedWrite(w, ack) PROVE Store!Next
  <2>1. PICK S \in SUBSET Rows : S = op[w].rows
    BY DEF TypeInv, TypeOK
  <2>2. Store!Change(w, S)
    <3>1. \A r \in S : row[r].live /\ seen[w][r].gen > 0 /\ Fresh(w, r)
      BY <1>3, <2>1, GuardedWriteIsFresh
    <3>2. Apply(w, S) /\ (seen' = seen \/ (op[w].kind # "hardDelete" /\ seen' = Returned(w, S)))
      BY <1>3, <2>1 DEF GuardedWrite
    <3> QED
      BY <3>1, <3>2, WriteIsChange
  <2> QED
    BY <2>1, <2>2 DEF Store!Next
<1>4. ASSUME NEW w \in Writers, NEW ack \in Acks, CommitMany(w, ack) PROVE Store!Next
  <2>1. PICK S \in SUBSET Rows : S = hit[w]
    BY DEF TypeInv, TypeOK
  <2>2. Store!Change(w, S)
    <3>1. \A r \in S : row[r].live /\ seen[w][r].gen > 0 /\ Fresh(w, r)
      BY <1>4, <2>1, CommitIsFresh
    <3>2. Apply(w, S) /\ seen' = seen
      BY <1>4, <2>1 DEF CommitMany
    <3> QED
      BY <3>1, <3>2, WriteIsChange
  <2> QED
    BY <2>1, <2>2 DEF Store!Next
<1>5. CASE UNCHANGED <<row, gen, seen>>
  BY <1>5 DEF Store!vars
<1> QED
  BY <1>1, <1>2, <1>3, <1>4, <1>5
  DEF Next, vars, VisitRow, Begin, ReadOld, WriteMisses, DisambiguateZeroRows,
      IdentityFound, IdentityMissing, DiagnoseClean, DiagnoseStale, RaceGuard, AbortMany, AbortOne, BreakDeadlock,
      AuditLands, AuditFails

(* Every operation of the library on a versioned table, single-row or bulk,*)
(* is one compare-and-set on the rows it was given: Spec refines           *)
(* VersionedStore.                                                         *)
THEOREM StoreImplemented ==
  ASSUME Disciplined
  PROVE  Spec => ImplementsStore
<1>1. Init => TypeInv /\ WriteInv
  BY TypeInit, WriteInit
<1>2. TypeInv /\ WriteInv /\ [Next]_vars => TypeInv' /\ WriteInv'
  BY TypeStep, WriteStep
<1>3. TypeInv /\ WriteInv /\ [Next]_vars => [Store!Next]_(Store!vars)
  BY StoreStep
<1> QED
  BY <1>1, <1>2, <1>3, StoreInit, PTL DEF Spec, ImplementsStore, Store!Spec

(***************************************************************************)
(* The audit trail                                                         *)
(***************************************************************************)

LEMMA AuditInit == Init => AuditInv
BY DEF Init, AuditInv

(* The audit rows of a write of fresh rows: they say that the write        *)
(* replaced the old image, and carry the version it gave the row.          *)
LEMMA AuditOfFresh ==
  ASSUME TypeInv, Disciplined, WriteInv, AuditInv,
         NEW w \in Writers, NEW S \in SUBSET Rows,
         \A r \in S : row[r].live /\ Fresh(w, r) /\ seen[w][r].gen > 0,
         NEW e \in AuditOf(w, S)
  PROVE  /\ e.row \in S
         /\ e.new = gen[e.row] + 1
         /\ e.row \notin Reusable =>
              e.old = gen[e.row] /\ (e.act # "hardDelete" => e.ver = e.new)
         /\ e.act = op[w].kind
         /\ e = [row |-> e.row, act |-> e.act, ver |-> e.ver, old |-> e.old, new |-> e.new]
         /\ \A f \in AuditOf(w, S) : f.row = e.row => f = e
<1> DEFINE entry(r) == [row |-> r, act |-> op[w].kind,
                        ver |-> IF op[w].kind = "hardDelete" THEN old[w][r].ver
                                ELSE Written(w, r).ver,
                        old |-> old[w][r].gen, new |-> gen[r] + 1]
           audited == {x \in S : w \in Auditors /\ old[w][x] # NoImage}
<1>1. AuditOf(w, S) = {entry(r) : r \in audited}
  BY DEF AuditOf
<1>2. PICK r \in audited : e = entry(r)
  BY <1>1
<1>3. r \in S /\ r \in Rows /\ old[w][r] # NoImage
  BY <1>2
<1>4. /\ e.row = r /\ e.new = gen[r] + 1 /\ e.old = old[w][r].gen /\ e.act = op[w].kind
      /\ op[w].kind # "hardDelete" => e.ver = Written(w, r).ver
  BY <1>2
<1>5. r \notin Reusable => old[w][r].gen = gen[r]
  <2>1. seen[w][r].gen <= old[w][r].gen /\ old[w][r].gen <= gen[r]
    BY <1>3 DEF AuditInv
  <2>2. r \notin Reusable => seen[w][r].gen = gen[r]
    BY <1>3 DEF Fresh
  <2>3. old[w][r].gen \in Nat /\ gen[r] \in Nat
    BY <1>3 DEF TypeInv, TypeOK, Image
  <2> HIDE DEF entry, audited
  <2> QED
    BY <2>1, <2>2, <2>3
<1>6. r \notin Reusable /\ op[w].kind # "hardDelete" => Written(w, r).ver = gen[r] + 1
  <2>1. row[r].live => row[r].id + row[r].ver = gen[r] + 1
    BY <1>3 DEF WriteInv, VersionsCount
  <2>2. r \notin Reusable => row[r].id = 1
    BY <1>3 DEF WriteInv, IdsAreSerial
  <2>3. op[w].kind # "hardDelete" => Written(w, r).ver = row[r].ver + 1
    BY <1>3, WrittenBumps
  <2>4. row[r].id \in Nat /\ row[r].ver \in Nat /\ gen[r] \in Nat
    BY <1>3 DEF TypeInv, TypeOK, Tuple
  <2> HIDE DEF entry, audited
  <2> QED
    BY <1>3, <2>1, <2>2, <2>3, <2>4
<1>7. \A f \in AuditOf(w, S) : f.row = e.row => f = e
  <2> SUFFICES ASSUME NEW f \in AuditOf(w, S), f.row = e.row PROVE f = e
    OBVIOUS
  <2>1. PICK q \in audited : f = entry(q)
    BY <1>1
  <2>2. q = r
    BY <1>4, <2>1
  <2> QED
    BY <1>2, <2>1, <2>2
<1> QED
  BY <1>2, <1>3, <1>4, <1>5, <1>6, <1>7

(* Steps that add no audit entry and keep the rows, or add generations to  *)
(* them, and keep or drop old images.                                      *)
LEMMA NoNewEntries ==
  ASSUME TypeInv, AuditInv,
         (audit \cup inflight)' \subseteq audit \cup inflight,
         \A r \in Rows : gen'[r] \in Nat /\ gen[r] <= gen'[r],
         \A w \in Writers, r \in Rows :
           old'[w][r] = NoImage \/
             /\ old'[w][r] = old[w][r] /\ seen'[w][r] = seen[w][r]
             /\ pc'[w] \in Statements \ {"old"}
  PROVE  AuditInv'
<1>1. \A e \in audit \cup inflight : e.row \in Rows /\ e.new \in Nat
  BY DEF TypeInv, TypeOK, Entry
<1>2. \A r \in Rows :
        gen[r] \in Nat /\ \A w \in Writers : seen[w][r].gen \in Nat /\ old[w][r].gen \in Nat
  BY DEF TypeInv, TypeOK, Image
<1>3. ASSUME NEW w \in Writers, NEW r \in Rows, old'[w][r] # NoImage
      PROVE  /\ pc'[w] \in Statements \ {"old"}
             /\ seen'[w][r].gen <= old'[w][r].gen
             /\ old'[w][r].gen <= gen'[r]
  BY <1>2, <1>3 DEF AuditInv
<1>4. ASSUME NEW e \in (audit \cup inflight)'
      PROVE  /\ e.new <= gen'[e.row]
             /\ e.row \notin Reusable =>
                  e.new = e.old + 1 /\ (e.act # "hardDelete" => e.ver = e.new)
  <2>1. e \in audit \cup inflight
    BY <1>4
  <2>2. /\ e.new <= gen[e.row]
        /\ e.row \notin Reusable =>
             e.new = e.old + 1 /\ (e.act # "hardDelete" => e.ver = e.new)
    BY <2>1 DEF AuditInv
  <2>3. e.row \in Rows /\ e.new \in Nat /\ gen[e.row] \in Nat
    BY <1>1, <1>2, <2>1
  <2>4. e.new <= gen'[e.row]
    <3>1. gen'[e.row] \in Nat /\ gen[e.row] <= gen'[e.row]
      BY <2>3
    <3> QED
      BY <2>2, <2>3, <3>1
  <2> QED
    BY <2>2, <2>4
<1>5. \A e, f \in (audit \cup inflight)' : e.row = f.row /\ e.new = f.new => e = f
  BY DEF AuditInv
<1> QED
  BY <1>3, <1>4, <1>5 DEF AuditInv

(* A write of fresh rows adds at most the entries of AuditOf.              *)
LEMMA WritingFinishAudit ==
  ASSUME TypeInv, Disciplined, WriteInv, AuditInv,
         NEW w \in Writers, NEW S \in SUBSET Rows, NEW outcome,
         \A r \in S : row[r].live /\ Fresh(w, r) /\ seen[w][r].gen > 0,
         Apply(w, S), Finish(w, outcome, S),
         \A x \in Writers, r \in Rows : x # w => seen'[x][r] = seen[x][r],
         (audit \cup inflight)' \subseteq audit \cup inflight \cup AuditOf(w, S)
  PROVE  AuditInv'
<1>1. \A r \in Rows : /\ gen[r] \in Nat
                      /\ gen'[r] = IF r \in S THEN gen[r] + 1 ELSE gen[r]
  BY RowsChange DEF TypeInv, TypeOK
<1>2. \A x \in Writers : pc'[x] = IF x = w THEN "idle" ELSE pc[x]
  BY DEF Finish, TypeInv, TypeOK
<1>3. \A x \in Writers, r \in Rows : old'[x][r] = IF x = w THEN NoImage ELSE old[x][r]
  BY DEF Finish, TypeInv, TypeOK
<1>4. \A e \in audit \cup inflight : e.row \in Rows /\ e.new \in Nat
  BY DEF TypeInv, TypeOK, Entry
<1>5. \A x \in Writers, r \in Rows : seen[x][r].gen \in Nat /\ old[x][r].gen \in Nat
  BY DEF TypeInv, TypeOK, Image
<1>6. \A e \in AuditOf(w, S) :
        /\ e.row \in S /\ e.new = gen[e.row] + 1
        /\ e.row \notin Reusable =>
             e.old = gen[e.row] /\ (e.act # "hardDelete" => e.ver = e.new)
        /\ \A f \in AuditOf(w, S) : f.row = e.row => f = e
  BY AuditOfFresh
<1>7. ASSUME NEW x \in Writers, NEW r \in Rows, old'[x][r] # NoImage
      PROVE  /\ pc'[x] \in Statements \ {"old"}
             /\ seen'[x][r].gen <= old'[x][r].gen
             /\ old'[x][r].gen <= gen'[r]
  BY <1>1, <1>2, <1>3, <1>5, <1>7 DEF AuditInv
<1>8. ASSUME NEW e \in (audit \cup inflight)'
      PROVE  /\ e.new <= gen'[e.row]
             /\ e.row \notin Reusable =>
                  e.new = e.old + 1 /\ (e.act # "hardDelete" => e.ver = e.new)
  <2>1. CASE e \in AuditOf(w, S)
    BY <1>1, <1>6, <2>1
  <2>2. CASE e \in audit \cup inflight
    BY <1>1, <1>4, <2>2 DEF AuditInv
  <2> QED
    BY <2>1, <2>2
<1>9. ASSUME NEW e \in (audit \cup inflight)', NEW f \in (audit \cup inflight)',
             e.row = f.row, e.new = f.new
      PROVE  e = f
  <2>1. \A g \in audit \cup inflight : g.new <= gen[g.row]
    BY DEF AuditInv
  <2>2. CASE e \in AuditOf(w, S) /\ f \in AuditOf(w, S)
    BY <1>6, <1>9, <2>2
  <2>3. CASE e \in audit \cup inflight /\ f \in audit \cup inflight
    BY <1>9, <2>3 DEF AuditInv
  <2>4. CASE e \in AuditOf(w, S) /\ f \in audit \cup inflight
    BY <1>1, <1>4, <1>6, <1>9, <2>1, <2>4
  <2>5. CASE e \in audit \cup inflight /\ f \in AuditOf(w, S)
    BY <1>1, <1>4, <1>6, <1>9, <2>1, <2>5
  <2> QED
    BY <2>2, <2>3, <2>4, <2>5
<1> QED
  BY <1>7, <1>8, <1>9 DEF AuditInv

LEMMA AuditStep ==
  TypeInv /\ Disciplined /\ WriteInv /\ AuditInv /\ [Next]_vars => AuditInv'
<1> SUFFICES ASSUME TypeInv, Disciplined, WriteInv, AuditInv, [Next]_vars PROVE AuditInv'
  OBVIOUS
<1>1. \A r \in Rows :
        gen[r] \in Nat /\ \A w \in Writers : seen[w][r].gen \in Nat /\ old[w][r].gen \in Nat
  BY DEF TypeInv, TypeOK, Image
<1>2. \A w \in Writers, r \in Rows : old[w][r] # NoImage =>
        pc[w] \in Statements \ {"old"} /\ pc[w] # "idle" /\ pc[w] # "old"
  BY DEF AuditInv, Statements
<1>3. ASSUME NEW w \in Writers, NEW ack \in Acks, GuardedWrite(w, ack) PROVE AuditInv'
  <2>1. PICK S \in SUBSET Rows : S = op[w].rows
    BY DEF TypeInv, TypeOK
  <2>2. \A r \in S : row[r].live /\ Fresh(w, r) /\ seen[w][r].gen > 0
    BY <1>3, <2>1, GuardedWriteIsFresh
  <2>3. PICK outcome : Finish(w, outcome, S)
    BY <1>3, <2>1 DEF GuardedWrite
  <2>4. Apply(w, S)
    BY <1>3, <2>1 DEF GuardedWrite
  <2>5. \A x \in Writers, r \in Rows : x # w => seen'[x][r] = seen[x][r]
    BY <1>3, <2>1, ReturnedImages DEF GuardedWrite
  <2>6. (audit \cup inflight)' \subseteq audit \cup inflight \cup AuditOf(w, S)
    BY <1>3, <2>1 DEF GuardedWrite
  <2> QED
    BY <2>2, <2>3, <2>4, <2>5, <2>6, WritingFinishAudit
<1>4. ASSUME NEW w \in Writers, NEW ack \in Acks, CommitMany(w, ack) PROVE AuditInv'
  <2>1. PICK S \in SUBSET Rows : S = hit[w]
    BY DEF TypeInv, TypeOK
  <2>2. \A r \in S : row[r].live /\ Fresh(w, r) /\ seen[w][r].gen > 0
    BY <1>4, <2>1, CommitIsFresh
  <2>3. PICK outcome : Finish(w, outcome, S)
    BY <1>4, <2>1 DEF CommitMany
  <2>4. Apply(w, S) /\ seen' = seen
    BY <1>4, <2>1 DEF CommitMany
  <2>5. (audit \cup inflight)' \subseteq audit \cup inflight \cup AuditOf(w, S)
    BY <1>4, <2>1 DEF CommitMany
  <2> QED
    BY <2>2, <2>3, <2>4, <2>5, WritingFinishAudit
<1>5. ASSUME NEW w \in Writers, NEW r \in Rows, NEW ack \in Acks, Add(w, r, ack)
      PROVE  AuditInv'
  <2> DEFINE new == [row |-> r, act |-> "insert", ver |-> 1, old |-> 0, new |-> gen[r] + 1]
  <2>1. /\ gen[r] = 0 \/ r \in Reusable
        /\ \A q \in Rows : gen'[q] = IF q = r THEN gen[r] + 1 ELSE gen[q]
    BY <1>5 DEF Add, TypeInv, TypeOK
  <2>2. audit' = audit /\ inflight' \subseteq inflight \cup {new}
    BY <1>5 DEF Add
  <2>3. pc' = pc /\ old' = old /\ pc[w] = "idle"
    BY <1>5 DEF Add
  <2>4. \A x \in Writers, q \in Rows : x # w => seen'[x][q] = seen[x][q]
    BY <1>5 DEF Add, TypeInv, TypeOK
  <2>5. \A e \in audit \cup inflight : e.row \in Rows /\ e.new \in Nat /\ e.old \in Nat
    BY DEF TypeInv, TypeOK, Entry
  <2>6. ASSUME NEW x \in Writers, NEW q \in Rows, old'[x][q] # NoImage
        PROVE  /\ pc'[x] \in Statements \ {"old"}
               /\ seen'[x][q].gen <= old'[x][q].gen
               /\ old'[x][q].gen <= gen'[q]
    <3>1. x # w
      BY <1>2, <2>3, <2>6
    <3>2. seen[x][q].gen <= old[x][q].gen /\ old[x][q].gen <= gen[q]
      BY <2>3, <2>6 DEF AuditInv
    <3> QED
      BY <1>1, <1>2, <2>1, <2>3, <2>4, <2>6, <3>1, <3>2
  <2>7. \A e \in audit \cup inflight :
          /\ e.new <= gen[e.row]
          /\ e.row \notin Reusable =>
               e.new = e.old + 1 /\ (e.act # "hardDelete" => e.ver = e.new)
    BY DEF AuditInv
  <2>8. /\ new.new = gen[r] + 1 /\ new.row = r
        /\ r \notin Reusable => new.new = 1 /\ new.old = 0 /\ new.ver = 1
    BY <2>1
  <2> HIDE DEF new
  <2>9. ASSUME NEW e \in (audit \cup inflight)'
        PROVE  /\ e.new <= gen'[e.row]
               /\ e.row \notin Reusable =>
                    e.new = e.old + 1 /\ (e.act # "hardDelete" => e.ver = e.new)
    <3>1. CASE e = new
      BY <1>1, <2>1, <2>8, <3>1
    <3>2. CASE e \in audit \cup inflight
      BY <1>1, <2>1, <2>5, <2>7, <3>2
    <3> QED
      BY <2>2, <3>1, <3>2
  <2>10. ASSUME NEW e \in (audit \cup inflight)', NEW f \in (audit \cup inflight)',
                e.row = f.row, e.new = f.new
         PROVE  e = f
    <3>1. \A g \in audit \cup inflight : g.row = r => g.new # gen[r] + 1
      BY <1>1, <2>5, <2>7
    <3>2. CASE e \in audit \cup inflight /\ f \in audit \cup inflight
      BY <2>10, <3>2 DEF AuditInv
    <3> QED
      BY <2>2, <2>8, <2>10, <3>1, <3>2
  <2> QED
    BY <2>6, <2>9, <2>10 DEF AuditInv
<1>6. ASSUME NEW w \in Writers, ReadOld(w) PROVE AuditInv'
  <2>1. /\ UNCHANGED <<gen, seen, audit, inflight>>
        /\ \A x \in Writers : pc'[x] = IF x = w THEN pc'[w] ELSE pc[x]
        /\ pc'[w] \in Statements \ {"old"}
        /\ \A x \in Writers, r \in Rows :
             old'[x][r] = old[x][r] \/ (x = w /\ old'[x][r] \in {Snapshot(r), NoImage})
    BY <1>6 DEF ReadOld, TypeInv, TypeOK, Statements
  <2>2. \A r \in Rows : Snapshot(r) = NoImage \/ Snapshot(r).gen = gen[r]
    BY DEF Snapshot
  <2>3. \A x \in Writers, r \in Rows : seen[x][r].gen <= gen[r]
    BY DEF WriteInv, IdsAreSerial
  <2>4. ASSUME NEW x \in Writers, NEW r \in Rows, old'[x][r] # NoImage
        PROVE  /\ pc'[x] \in Statements \ {"old"}
               /\ seen'[x][r].gen <= old'[x][r].gen
               /\ old'[x][r].gen <= gen'[r]
    <3>1. CASE old'[x][r] = old[x][r]
      BY <1>2, <2>1, <2>4, <3>1 DEF AuditInv
    <3>2. CASE x = w /\ old'[x][r] = Snapshot(r)
      BY <1>1, <2>1, <2>2, <2>3, <2>4, <3>2
    <3> QED
      BY <2>1, <2>4, <3>1, <3>2
  <2> QED
    BY <2>1, <2>4 DEF AuditInv
<1>7. ASSUME NEW w \in Writers, NEW r \in Rows, Find(w, r) PROVE AuditInv'
  <2>1. \A q \in Rows : old[w][q] = NoImage
    BY <1>2, <1>7 DEF Find
  <2> QED
    BY <1>1, <1>2, <1>7, <2>1, NoNewEntries DEF Find, TypeInv, TypeOK
<1>8. ASSUME NEW w \in Writers, NEW kind \in Kinds, NEW S \in SUBSET Rows,
             NEW many \in BOOLEAN, NEW twice \in BOOLEAN, Begin(w, kind, S, many, twice)
      PROVE  AuditInv'
  <2>1. \A q \in Rows : old[w][q] = NoImage
    BY <1>2, <1>8 DEF Begin
  <2> QED
    BY <1>1, <1>2, <1>8, <2>1, NoNewEntries DEF Begin, TypeInv, TypeOK
<1>9. ASSUME NEW w \in Writers, DiagnoseClean(w) \/ \E r \in Rows : VisitRow(w, r)
      PROVE  AuditInv'
  <2>1. /\ UNCHANGED <<gen, seen, old, audit, inflight>>
        /\ \A x \in Writers : pc'[x] = pc[x] \/ pc'[x] \in Statements \ {"old"}
    BY <1>9 DEF DiagnoseClean, VisitRow, TypeInv, TypeOK, Statements
  <2> QED
    BY <1>1, <1>2, <2>1, NoNewEntries
<1>10. ASSUME NEW w \in Writers, FailingStep(w)
       PROVE  AuditInv'
  <2>1. UNCHANGED <<gen, seen, audit, inflight>>
    BY <1>10, FailingOutcome
  <2>2. ASSUME NEW x \in Writers, NEW r \in Rows
        PROVE  old'[x][r] = NoImage \/
                 /\ old'[x][r] = old[x][r]
                 /\ pc'[x] \in Statements \ {"old"}
    <3>1. CASE \E outcome \in Results \ {"ok"} : Finish(w, outcome, {})
      <4>1. /\ old'[x][r] = IF x = w THEN NoImage ELSE old[x][r]
            /\ x # w => pc'[x] = pc[x]
        BY <3>1 DEF Finish, TypeInv, TypeOK
      <4> QED
        BY <1>2, <4>1
    <3>2. CASE /\ \E s \in Statements \ {"old"} : pc' = [pc EXCEPT ![w] = s]
               /\ UNCHANGED <<old, todo, hit, res>>
      <4>1. old'[x][r] = old[x][r] /\ (pc'[x] = pc[x] \/ pc'[x] \in Statements \ {"old"})
        BY <3>2 DEF TypeInv, TypeOK
      <4> QED
        BY <1>2, <4>1
    <3> QED
      BY <1>10, <3>1, <3>2, FailingOutcome
  <2> QED
    BY <1>1, <2>1, <2>2, NoNewEntries
<1>11. ASSUME NEW e \in inflight, AuditLands(e) \/ AuditFails(e) PROVE AuditInv'
  BY <1>1, <1>2, <1>11, NoNewEntries DEF AuditLands, AuditFails
<1>12. CASE UNCHANGED vars
  BY <1>1, <1>2, <1>12, NoNewEntries DEF vars
<1> QED
  BY <1>3, <1>4, <1>5, <1>6, <1>7, <1>8, <1>9, <1>10, <1>11, <1>12 DEF Next, FailingStep

(* The old image that an operation holds lies between what its caller read *)
(* and what is committed, and every entry, landed or on its way, carries   *)
(* the generation that its write made, which no other entry of the row has.*)
THEOREM AuditInvariant ==
  ASSUME Disciplined
  PROVE  Spec => []AuditInv
<1>1. Init => TypeInv /\ WriteInv /\ AuditInv
  BY TypeInit, WriteInit, AuditInit
<1>2. TypeInv /\ WriteInv /\ AuditInv /\ [Next]_vars => TypeInv' /\ WriteInv' /\ AuditInv'
  BY TypeStep, WriteStep, AuditStep
<1> QED
  BY <1>1, <1>2, PTL DEF Spec

(* An entry of the audit trail shows the image that its write replaced,    *)
(* although the code read it in an earlier statement and nothing kept the  *)
(* row from changing in between: a change in between makes the write miss. *)
THEOREM AuditFaithful ==
  ASSUME Disciplined
  PROVE  Spec => []AuditIsFaithful
<1>1. TypeInv /\ AuditInv => AuditIsFaithful
  BY DEF AuditInv, AuditIsFaithful
<1>2. Init => TypeInv
  BY TypeInit
<1>3. TypeInv /\ [Next]_vars => TypeInv'
  BY TypeStep
<1> QED
  BY <1>1, <1>2, <1>3, AuditInvariant, PTL DEF Spec
=============================================================================
