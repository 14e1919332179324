---------------------- MODULE PartitionRetentionProofs ----------------------
(***************************************************************************)
(* Proofs about PartitionRetention: any number of tables, rows, deliveries *)
(* of the job and failures, and any retentions.                            *)
(***************************************************************************)
EXTENDS PartitionRetention, TLAPS

(***************************************************************************)
(* The inductive invariant                                                 *)
(***************************************************************************)

Purging == {"lookup", "purge", "strays"}

(* What an executor applies to a table, once it has come to it, is the     *)
(* retention of the table.                                                 *)
AppliedInv(x) ==
  /\ pc[x] # "idle" => at[x] \in Table
  /\ pc[x] \in {"purge", "strays"} => applied[x][at[x]] = Retention(at[x]) /\ Retention(at[x]) # 0
  /\ \A t \in Table : applied[x][t] \in {0, Retention(t)}
  /\ \A t \in Table : pc[x] = "lookup" /\ t >= at[x] => applied[x][t] = 0
  /\ \A t \in Table : pc[x] \in {"purge", "strays"} /\ t > at[x] => applied[x][t] = 0

(* x has purged table t, in the loop under way. *)
HasPurged(x, t) ==
  /\ applied[x][t] # 0
  /\ \/ pc[x] \in Purging /\ t < at[x]
     \/ pc[x] = "strays" /\ t = at[x]
     \/ pc[x] = "maintain"

(* A row that has a child after the purge of its table was spared by it. *)
PurgedInv(x) ==
  \A t \in Table : HasPurged(x, t) => \A i \in In(t) : i \in children => i \in spared[x]

IInv == TypeOK /\ \A x \in Executors : AppliedInv(x) /\ PurgedInv(x)

(***************************************************************************)
(* Arithmetic, types                                                       *)
(***************************************************************************)

(* A partition that is expired as a whole has expired rows only. *)
LEMMA PartitionRowsExpired ==
  ASSUME NEW born \in Nat, NEW retention \in Nat, NEW time \in Nat,
         ((born \div Width) + 1) * Width + retention <= time
  PROVE  born + retention < time
<1>1. Width \in Nat /\ Width > 0
  BY RetentionAssumption
<1>2. born < ((born \div Width) + 1) * Width
  BY <1>1
<1>3. ((born \div Width) + 1) * Width \in Nat
  BY <1>1
<1> DEFINE end == ((born \div Width) + 1) * Width
<1> HIDE DEF end
<1>4. end \in Nat /\ born < end /\ end + retention <= time
  BY <1>2, <1>3 DEF end
<1> QED
  BY <1>4

RowType == [table : Table, born : 0 .. MaxNow, place : {"absent", "partition", "default", "gone"}]

LEMMA RowFields ==
  ASSUME TypeOK, NEW i \in Ids
  PROVE  row[i] \in RowType /\ row[i].table \in Table /\ row[i].born \in Nat
<1>1. row[i] \in RowType
  BY DEF TypeOK, RowType
<1> QED
  BY <1>1, RetentionAssumption DEF RowType

LEMMA RetentionType ==
  ASSUME NEW t \in Table
  PROVE  Retention(t) \in Nat /\ Conf[t] \in Nat /\ Meta[t] \in Nat
BY RetentionAssumption DEF Retention, Table

(* Rows that are removed are gone, and keep their table. *)
LEMMA Removed ==
  ASSUME TypeOK, NEW rows, Remove(rows)
  PROVE  /\ row' \in [Ids -> RowType]
         /\ \A i \in Ids : /\ row'[i].table = row[i].table /\ row'[i].born = row[i].born
                           /\ i \in rows => row'[i].place = "gone"
                           /\ i \notin rows => row'[i] = row[i]
<1>1. \A i \in Ids : [row[i] EXCEPT !.place = "gone"] \in RowType
  <2> SUFFICES ASSUME NEW i \in Ids PROVE [row[i] EXCEPT !.place = "gone"] \in RowType
    OBVIOUS
  <2>1. row[i] \in RowType
    BY RowFields
  <2> QED
    BY <2>1 DEF RowType
<1>2. \A i \in Ids : row[i] \in RowType
  BY RowFields
<1>3. \A i \in Ids : /\ [row[i] EXCEPT !.place = "gone"].table = row[i].table
                     /\ [row[i] EXCEPT !.place = "gone"].born = row[i].born
                     /\ [row[i] EXCEPT !.place = "gone"].place = "gone"
  BY <1>2 DEF RowType
<1> QED
  BY <1>1, <1>2, <1>3 DEF Remove

(* GoOn: the next step of an executor, and the table it is for. *)
LEMMA GoOnType ==
  ASSUME TypeOK, NEW x \in Executors, NEW step \in {"lookup", "maintain"}, GoOn(x, step)
  PROVE  /\ pc' \in [Executors -> {"idle", "lookup", "purge", "strays", "maintain"}]
         /\ at' \in [Executors -> 1 .. Tables + 1]
         /\ \A y \in Executors : y # x => pc'[y] = pc[y] /\ at'[y] = at[y]
         /\ \/ at[x] < Tables /\ pc'[x] = step /\ at'[x] = at[x] + 1
            \/ ~(at[x] < Tables) /\ step = "lookup" /\ pc'[x] = "maintain" /\ at'[x] = 1
            \/ ~(at[x] < Tables) /\ step = "maintain" /\ pc'[x] = "idle" /\ at'[x] = at[x]
<1>1. Tables \in Nat /\ at[x] \in 1 .. Tables + 1
  BY RetentionAssumption DEF TypeOK
<1>2. /\ pc \in [Executors -> {"idle", "lookup", "purge", "strays", "maintain"}]
      /\ at \in [Executors -> 1 .. Tables + 1]
  BY DEF TypeOK
<1>3. CASE at[x] < Tables
  <2>1. pc' = [pc EXCEPT ![x] = step] /\ at' = [at EXCEPT ![x] = at[x] + 1]
    BY <1>3 DEF GoOn
  <2>2. at[x] + 1 \in 1 .. Tables + 1
    BY <1>1, <1>3
  <2> QED
    BY <1>2, <1>3, <2>1, <2>2
<1>4. CASE ~(at[x] < Tables) /\ step = "lookup"
  <2>1. pc' = [pc EXCEPT ![x] = "maintain"] /\ at' = [at EXCEPT ![x] = 1]
    BY <1>4 DEF GoOn
  <2>2. 1 \in 1 .. Tables + 1
    BY <1>1
  <2> QED
    BY <1>2, <1>4, <2>1, <2>2
<1>5. CASE ~(at[x] < Tables) /\ step = "maintain"
  BY <1>2, <1>5 DEF GoOn
<1> QED
  BY <1>3, <1>4, <1>5

(***************************************************************************)
(* The invariant is kept                                                   *)
(***************************************************************************)

LEMMA IInvInit == Init => IInv
<1> SUFFICES ASSUME Init PROVE IInv
  OBVIOUS
<1>1. Tables \in Nat \ {0} /\ 1 \in Table /\ 1 \in 1 .. Tables + 1 /\ 0 \in 0 .. MaxNow
      /\ 1 \in 1 .. MaxNow /\ 0 \in 0 .. MaxFails
  BY RetentionAssumption DEF Table
<1>2. Absent \in RowType
  BY <1>1 DEF Absent, RowType
<1>3. TypeOK
  BY <1>1, <1>2 DEF Init, TypeOK, RowType
<1>4. \A x \in Executors : AppliedInv(x) /\ PurgedInv(x)
  BY <1>1 DEF Init, AppliedInv, PurgedInv, HasPurged, Purging
<1> QED
  BY <1>3, <1>4 DEF IInv

(* A step that leaves the executors alone: no row leaves or joins a table  *)
(* and no child comes unless every executor spares it.                     *)
LEMMA OthersStep ==
  ASSUME IInv, TypeOK', UNCHANGED <<pc, at, applied>>,
         \A x \in Executors : spared[x] \subseteq spared'[x],
         \A x \in Executors, i \in Ids :
           Present(i)' /\ i \in children' =>
             i \in spared'[x] \/ (Present(i) /\ i \in children /\ row'[i].table = row[i].table)
  PROVE  IInv'
<1>1. ASSUME NEW x \in Executors PROVE AppliedInv(x)' /\ PurgedInv(x)'
  <2>1. AppliedInv(x)'
    BY DEF IInv, AppliedInv
  <2>2. PurgedInv(x)'
    BY DEF IInv, PurgedInv, HasPurged, In
  <2> QED
    BY <2>1, <2>2
<1> QED
  BY <1>1 DEF IInv

LEMMA ApplicationStep ==
  ASSUME IInv,
         \/ Tick
         \/ \E i \in Ids :
              \/ InsertChild(i)
              \/ \E t \in Table, born \in 0 .. now, place \in {"partition", "default"} :
                   InsertRow(i, t, born, place)
  PROVE  IInv'
<1>1. CASE Tick
  <2>1. TypeOK'
    BY <1>1, RetentionAssumption DEF Tick, IInv, TypeOK
  <2> QED
    BY <1>1, <2>1, OthersStep DEF Tick, Present
<1>2. ASSUME NEW i \in Ids, InsertChild(i) PROVE IInv'
  <2>1. TypeOK' /\ \A x \in Executors : spared'[x] = spared[x] \cup {i}
    BY <1>2 DEF InsertChild, IInv, TypeOK
  <2> QED
    BY <1>2, <2>1, OthersStep DEF InsertChild, Present
<1>3. ASSUME NEW i \in Ids, NEW t \in Table, NEW born \in 0 .. now,
             NEW place \in {"partition", "default"}, InsertRow(i, t, born, place)
      PROVE  IInv'
  <2>1. now \in Nat /\ now <= MaxNow /\ born \in 0 .. MaxNow
    BY RetentionAssumption DEF IInv, TypeOK
  <2>2. [table |-> t, born |-> born, place |-> place] \in RowType
    BY <2>1 DEF RowType
  <2>3. row' \in [Ids -> RowType] /\ \A j \in Ids : j # i => row'[j] = row[j]
    BY <1>3, <2>2 DEF InsertRow, IInv, TypeOK, RowType
  <2>4. /\ spared' \in [Executors -> SUBSET Ids]
        /\ \A x \in Executors : spared'[x] = spared[x] \cup {i}
    BY <1>3 DEF InsertRow, IInv, TypeOK
  <2>5. TypeOK'
    BY <1>3, <2>3, <2>4 DEF InsertRow, IInv, TypeOK, RowType
  <2> QED
    BY <1>3, <2>3, <2>4, <2>5, OthersStep DEF InsertRow, Present
<1> QED
  BY <1>1, <1>2, <1>3

LEMMA StartStep ==
  ASSUME IInv, NEW x \in Executors, Start(x)
  PROVE  IInv'
<1> USE DEF IInv
<1>1. Tables \in Nat \ {0} /\ 1 \in Table /\ 1 \in 1 .. Tables + 1
  BY RetentionAssumption DEF Table
<1>2. TypeOK'
  BY <1>1 DEF Start, TypeOK
<1>3. /\ pc'[x] = "lookup" /\ at'[x] = 1 /\ (\A t \in Table : applied'[x][t] = 0)
      /\ \A y \in Executors : y # x => /\ pc'[y] = pc[y] /\ at'[y] = at[y]
                                       /\ applied'[y] = applied[y] /\ spared'[y] = spared[y]
      /\ UNCHANGED <<now, row, children, fails>>
  BY DEF Start, TypeOK
<1>4. ASSUME NEW y \in Executors PROVE AppliedInv(y)' /\ PurgedInv(y)'
  <2>1. CASE y = x
    BY <1>1, <1>3, <2>1 DEF AppliedInv, PurgedInv, HasPurged
  <2>2. CASE y # x
    BY <1>3, <2>2 DEF AppliedInv, PurgedInv, HasPurged, In, Present
  <2> QED
    BY <2>1, <2>2
<1> QED
  BY <1>2, <1>4

LEMMA LookupStep ==
  ASSUME IInv, NEW x \in Executors, Lookup(x)
  PROVE  IInv'
<1> USE DEF IInv
<1> DEFINE t == at[x]
<1>1. t \in Table /\ Tables \in Nat /\ Table = 1 .. Tables
  BY RetentionAssumption DEF Lookup, AppliedInv, Table
<1>2. Retention(t) \in Nat
  BY <1>1, RetentionType
<1>3. /\ pc[x] = "lookup" /\ UNCHANGED <<now, row, children, spared, fails>>
      /\ applied' \in [Executors -> [Table -> Nat]] /\ applied'[x][t] = Retention(t)
      /\ \A s \in Table : s # t => applied'[x][s] = applied[x][s]
      /\ \A y \in Executors : y # x => applied'[y] = applied[y]
  BY <1>1, <1>2 DEF Lookup, TypeOK
<1>4. /\ pc' \in [Executors -> {"idle", "lookup", "purge", "strays", "maintain"}]
      /\ at' \in [Executors -> 1 .. Tables + 1]
      /\ \A y \in Executors : y # x => pc'[y] = pc[y] /\ at'[y] = at[y]
      /\ \/ Retention(t) # 0 /\ pc'[x] = "purge" /\ at'[x] = t
         \/ Retention(t) = 0 /\ t < Tables /\ pc'[x] = "lookup" /\ at'[x] = t + 1
         \/ Retention(t) = 0 /\ ~(t < Tables) /\ pc'[x] = "maintain" /\ at'[x] = 1
  <2>1. CASE Retention(t) = 0
    BY <2>1, GoOnType DEF Lookup
  <2>2. CASE Retention(t) # 0
    BY <2>2 DEF Lookup, TypeOK
  <2> QED
    BY <2>1, <2>2
<1>0. /\ t = at[x] /\ \A s \in Table : s >= t => applied[x][s] = 0
      /\ \A s \in Table : applied[x][s] \in {0, Retention(s)}
  BY <1>3 DEF AppliedInv
<1> HIDE DEF t
<1>5. TypeOK'
  BY <1>3, <1>4 DEF TypeOK
<1>6. ASSUME NEW y \in Executors PROVE AppliedInv(y)' /\ PurgedInv(y)'
  <2>1. CASE y # x
    BY <1>3, <1>4, <2>1 DEF AppliedInv, PurgedInv, HasPurged, In, Present
  <2>2. AppliedInv(x)'
    <3>1. \A s \in Table : applied'[x][s] \in {0, Retention(s)}
      BY <1>0, <1>3
    <3>2. \A s \in Table : s > t => applied'[x][s] = 0
      <4>1. \A s \in Table : s > t => s >= t /\ s # t
        BY <1>1
      <4> QED
        BY <1>0, <1>3, <4>1
    <3>3. CASE Retention(t) # 0 /\ pc'[x] = "purge" /\ at'[x] = t
      BY <1>1, <1>3, <3>1, <3>2, <3>3 DEF AppliedInv
    <3>4. CASE Retention(t) = 0 /\ t < Tables /\ pc'[x] = "lookup" /\ at'[x] = t + 1
      BY <1>1, <1>3, <3>1, <3>2, <3>4 DEF AppliedInv
    <3>5. CASE Retention(t) = 0 /\ ~(t < Tables) /\ pc'[x] = "maintain" /\ at'[x] = 1
      BY <1>1, <1>3, <3>1, <3>5 DEF AppliedInv
    <3> QED
      BY <1>4, <3>3, <3>4, <3>5
  <2>3. ASSUME NEW s \in Table, HasPurged(x, s)' PROVE HasPurged(x, s)
    <3>1. applied'[x][s] # 0 /\ ((pc'[x] \in Purging /\ s < at'[x]) \/ pc'[x] = "maintain")
      BY <1>4, <2>3 DEF HasPurged
    <3>2. s # t => applied[x][s] # 0 /\ s < t
      BY <1>0, <1>1, <1>3, <3>1
    <3>3. s # t
      BY <1>1, <1>3, <1>4, <3>1
    <3> QED
      BY <1>0, <1>3, <3>2, <3>3 DEF HasPurged, Purging
  <2>4. PurgedInv(x)'
    BY <1>3, <2>3 DEF PurgedInv, In, Present
  <2> QED
    BY <2>1, <2>2, <2>4
<1> QED
  BY <1>5, <1>6

LEMMA PurgeStep ==
  ASSUME IInv, NEW x \in Executors, PurgeChildren(x)
  PROVE  IInv'
<1> USE DEF IInv
<1> DEFINE t == at[x]
<1>1. /\ t \in Table /\ Tables \in Nat /\ Table = 1 .. Tables /\ AppliedInv(x) /\ PurgedInv(x)
      /\ applied[x][t] = Retention(t) /\ Retention(t) # 0
  BY RetentionAssumption DEF PurgeChildren, AppliedInv, Table
<1> DEFINE kept == {i \in spared[x] : row[i].table # t}
                   \cup {i \in In(t) : ~Expired(i, applied[x][t])}
<1>2. /\ pc[x] = "purge" /\ UNCHANGED <<now, row, at, applied, fails>>
      /\ children' = children \ Purgeable(t, applied[x][t])
      /\ pc' = [pc EXCEPT ![x] = "strays"]
      /\ spared' = [spared EXCEPT ![x] = kept]
  BY DEF PurgeChildren
<1>3. kept \subseteq Ids
  BY DEF TypeOK, In
<1>4. TypeOK'
  <2> HIDE DEF kept
  <2> QED
    BY <1>2, <1>3 DEF TypeOK
<1>5. /\ pc'[x] = "strays" /\ spared'[x] = kept
      /\ \A y \in Executors : y # x => pc'[y] = pc[y] /\ spared'[y] = spared[y]
  <2> HIDE DEF kept
  <2> QED
    BY <1>2 DEF TypeOK
<1>7. children' \subseteq children /\ \A s : In(s)' = In(s)
  BY <1>2 DEF In, Present
<1>6. ASSUME NEW y \in Executors PROVE AppliedInv(y)' /\ PurgedInv(y)'
  <2>1. AppliedInv(y)'
    BY <1>1, <1>2, <1>5 DEF AppliedInv
  <2>2. CASE y # x
    <3>1. \A s \in Table : HasPurged(y, s)' <=> HasPurged(y, s)
      BY <1>2, <1>5, <2>2 DEF HasPurged
    <3> QED
      BY <2>1, <1>5, <1>7, <2>2, <3>1 DEF PurgedInv
  <2>3. CASE y = x
    <3> SUFFICES ASSUME NEW s \in Table, HasPurged(x, s)', NEW i \in In(s)', i \in children'
                 PROVE  i \in spared'[x]
      BY <2>1, <2>3 DEF PurgedInv
    <3>1. i \in In(s) /\ i \in children /\ row[i].table = s
      BY <1>2 DEF In, Present
    <3>2. CASE s = t
      BY <1>2, <1>5, <3>1, <3>2 DEF Purgeable
    <3>3. CASE s # t
      <4>1. HasPurged(x, s)
        BY <1>2, <1>5, <3>3 DEF HasPurged, Purging
      <4> QED
        BY <1>1, <1>5, <3>1, <3>3, <4>1 DEF PurgedInv
    <3> QED
      BY <3>2, <3>3
  <2> QED
    BY <2>1, <2>2, <2>3
<1> QED
  BY <1>4, <1>6

(* A step that removes rows and goes on to the next table, having purged   *)
(* no other table than those purged before.                                *)
LEMMA RemoveStep ==
  ASSUME IInv, NEW x \in Executors, NEW rows, Remove(rows) \/ UNCHANGED row,
         NEW step \in {"lookup", "maintain"}, GoOn(x, step),
         UNCHANGED <<now, children, applied, spared, fails>>,
         pc[x] = IF step = "lookup" THEN "strays" ELSE "maintain"
  PROVE  IInv'
<1> USE DEF IInv
<1> DEFINE t == at[x]
<1>1. t \in Table /\ Tables \in Nat /\ Table = 1 .. Tables /\ AppliedInv(x) /\ PurgedInv(x)
  BY RetentionAssumption DEF AppliedInv, Table
<1>2. /\ pc' \in [Executors -> {"idle", "lookup", "purge", "strays", "maintain"}]
      /\ at' \in [Executors -> 1 .. Tables + 1]
      /\ \A y \in Executors : y # x => pc'[y] = pc[y] /\ at'[y] = at[y]
      /\ \/ t < Tables /\ pc'[x] = step /\ at'[x] = t + 1
         \/ ~(t < Tables) /\ step = "lookup" /\ pc'[x] = "maintain" /\ at'[x] = 1
         \/ ~(t < Tables) /\ step = "maintain" /\ pc'[x] = "idle" /\ at'[x] = t
  BY GoOnType
<1>3. row' \in [Ids -> RowType]
      /\ \A i \in Ids : Present(i)' => Present(i) /\ row'[i].table = row[i].table
  <2>1. CASE Remove(rows)
    BY <2>1, Removed DEF Present
  <2>2. CASE UNCHANGED row
    BY <2>2 DEF Present, TypeOK, RowType
  <2> QED
    BY <2>1, <2>2
<1>4. TypeOK'
  BY <1>2, <1>3 DEF TypeOK, RowType
<1>5. AppliedInv(x)
  BY <1>1
<1> HIDE DEF t
<1>6. ASSUME NEW s \in Table, HasPurged(x, s)' PROVE HasPurged(x, s)
  BY <1>1, <1>2, <1>6 DEF HasPurged, Purging, AppliedInv, t
<1>7. AppliedInv(x)'
  BY <1>1, <1>2 DEF AppliedInv, t
<1>8. ASSUME NEW y \in Executors PROVE AppliedInv(y)' /\ PurgedInv(y)'
  <2>1. ASSUME NEW s \in Table, HasPurged(y, s)' PROVE HasPurged(y, s)
    BY <1>2, <1>6, <2>1 DEF HasPurged
  <2>2. PurgedInv(y)'
    BY <1>3, <2>1 DEF PurgedInv, In
  <2>3. AppliedInv(y)'
    BY <1>2, <1>7 DEF AppliedInv
  <2> QED
    BY <2>2, <2>3
<1> QED
  BY <1>4, <1>8

LEMMA FailStep ==
  ASSUME IInv, NEW x \in Executors, Fail(x)
  PROVE  IInv'
<1>1. TypeOK'
  BY RetentionAssumption DEF Fail, IInv, TypeOK
<1>2. /\ pc'[x] = "idle" /\ \A y \in Executors : y # x => pc'[y] = pc[y]
      /\ UNCHANGED <<now, row, children, at, applied, spared>>
  BY DEF Fail, IInv, TypeOK
<1>3. ASSUME NEW y \in Executors PROVE AppliedInv(y)' /\ PurgedInv(y)'
  BY <1>2 DEF IInv, AppliedInv, PurgedInv, HasPurged, Purging, In, Present
<1> QED
  BY <1>1, <1>3 DEF IInv

LEMMA IInvStep == IInv /\ [Next]_vars => IInv'
<1> SUFFICES ASSUME IInv, [Next]_vars PROVE IInv'
  OBVIOUS
<1>1. CASE UNCHANGED vars
  BY <1>1 DEF vars, IInv, TypeOK, AppliedInv, PurgedInv, HasPurged, In, Present
<1>2. ASSUME NEW x \in Executors, DeleteStrays(x) PROVE IInv'
  BY <1>2, RemoveStep DEF DeleteStrays
<1>3. ASSUME NEW x \in Executors, RunMaintenance(x) PROVE IInv'
  <2>1. (\E rows : Remove(rows)) \/ UNCHANGED row
    BY <1>3 DEF RunMaintenance
  <2> QED
    BY <1>3, <2>1, RemoveStep DEF RunMaintenance, GoesOnMaintaining
<1> QED
  BY <1>1, <1>2, <1>3, ApplicationStep, StartStep, LookupStep, PurgeStep, FailStep DEF Next, Step

LEMMA Invariance == Spec => []IInv
BY IInvInit, IInvStep, PTL DEF Spec

(***************************************************************************)
(* Theorems                                                                *)
(***************************************************************************)

(* Every variable keeps its type. *)
THEOREM TypeCorrect == Spec => []TypeOK
<1>1. IInv => TypeOK
  BY DEF IInv
<1> QED
  BY <1>1, Invariance, PTL

(* Who removes a row or a child. *)
LEMMA Removers ==
  ASSUME IInv, [Next]_vars, NEW i \in Ids, Goes(i) \/ (i \in children /\ i \notin children')
  PROVE  \E x \in Executors : PurgeChildren(x) \/ DeleteStrays(x) \/ RunMaintenance(x)
<1>1. ~UNCHANGED vars
  BY DEF vars, Goes, Present
<1>2. ~Tick /\ \A x \in Executors : ~Start(x) /\ ~Lookup(x) /\ ~Fail(x)
  BY DEF Tick, Start, Lookup, Fail, Goes, Present
<1>3. \A j \in Ids : ~InsertChild(j)
  BY DEF InsertChild, Goes, Present
<1>4. ASSUME NEW j \in Ids, NEW t \in Table, NEW born \in 0 .. now,
             NEW place \in {"partition", "default"}, InsertRow(j, t, born, place)
      PROVE  FALSE
  <2>1. row \in [Ids -> RowType] /\ row' = [row EXCEPT ![j] = [table |-> t, born |-> born, place |-> place]]
        /\ children' = children
    BY <1>4 DEF InsertRow, IInv, TypeOK, RowType
  <2>2. row'[j].place # "gone" /\ \A l \in Ids : l # j => row'[l] = row[l]
    BY <2>1
  <2> QED
    BY <2>1, <2>2 DEF Goes, Present
<1> QED
  BY <1>1, <1>2, <1>3, <1>4 DEF Next, Step

(* Rows and children go only from tables that pg_partman knows, when their *)
(* retention is over (partition-maintenance.ts).                           *)
THEOREM ExpiredOnly == Spec => OnlyExpiredGo
<1>1. ASSUME IInv, [Next]_vars, NEW i \in Ids, Goes(i) \/ (i \in children /\ i \notin children')
      PROVE  LET t == row[i].table
             IN  /\ t \in Registered
                 /\ Conf[t] # 0 => Expired(i, Conf[t])
                 /\ Conf[t] = 0 => Meta[t] # 0 /\ Expired(i, Meta[t])
  <2> DEFINE s == row[i].table
  <2>1. PICK x \in Executors : PurgeChildren(x) \/ DeleteStrays(x) \/ RunMaintenance(x)
    BY <1>1, Removers
  <2>2. AppliedInv(x) /\ s \in Table /\ row[i].born \in Nat /\ now \in Nat
    BY <1>1, RowFields, RetentionAssumption DEF IInv, TypeOK
  <2>3. CASE PurgeChildren(x)
    <3>1. row' = row /\ i \in Purgeable(at[x], Retention(at[x])) /\ Retention(at[x]) # 0
      BY <1>1, <2>2, <2>3 DEF PurgeChildren, Goes, Present, AppliedInv
    <3> QED
      BY <3>1 DEF Purgeable, In, Retention
  <2>4. CASE DeleteStrays(x)
    <3>1. i \in In(at[x]) /\ Expired(i, Retention(at[x])) /\ Retention(at[x]) # 0
      BY <1>1, <2>2, <2>4, Removed DEF IInv, DeleteStrays, Goes, Present, AppliedInv
    <3> QED
      BY <3>1 DEF In, Retention
  <2>5. CASE RunMaintenance(x)
    <3>1. /\ i \in In(at[x]) /\ applied[x][at[x]] # 0 /\ Conf[at[x]] # 0
          /\ PartitionExpired(i, Conf[at[x]])
      BY <1>1, <2>5, Removed DEF IInv, RunMaintenance, Goes, Present
    <3>2. s = at[x] /\ at[x] \in Registered
      BY <2>2, <3>1 DEF In, AppliedInv, Retention
    <3>3. Expired(i, Conf[s])
      BY <2>2, <3>1, <3>2, PartitionRowsExpired, RetentionType DEF PartitionExpired, Expired
    <3> QED
      BY <3>1, <3>2, <3>3
  <2> QED
    BY <2>1, <2>3, <2>4, <2>5
<1>2. IInv /\ [Next]_vars =>
        [\A i \in Ids :
           Goes(i) \/ (i \in children /\ i \notin children') =>
             LET t == row[i].table
             IN  /\ t \in Registered
                 /\ Conf[t] # 0 => Expired(i, Conf[t])
                 /\ Conf[t] = 0 => Meta[t] # 0 /\ Expired(i, Meta[t])]_vars
  BY <1>1
<1> QED
  BY <1>2, Invariance, PTL DEF Spec, OnlyExpiredGo

(* A row leaves a child behind only if the purge had spared it             *)
(* (partition-maintenance.ts:10-14).                                       *)
THEOREM LateOrphans == Spec => OrphansAreLate
<1>1. ASSUME IInv, [Next]_vars, NEW i \in Ids, Goes(i), i \in children'
      PROVE  \E x \in Executors : (pc'[x] # pc[x] \/ at'[x] # at[x]) /\ i \in spared[x]
  <2>1. PICK x \in Executors : PurgeChildren(x) \/ DeleteStrays(x) \/ RunMaintenance(x)
    BY <1>1, Removers
  <2>2. ~PurgeChildren(x)
    BY <1>1 DEF PurgeChildren, Goes, Present
  <2>3. AppliedInv(x) /\ PurgedInv(x) /\ TypeOK /\ Tables \in Nat \ {0} /\ at[x] \in Table
        /\ Table = 1 .. Tables
    BY <1>1, <2>1, RetentionAssumption DEF IInv, AppliedInv, DeleteStrays, RunMaintenance, PurgeChildren, Table
  <2>4. CASE DeleteStrays(x)
    <3>1. i \in In(at[x]) /\ HasPurged(x, at[x]) /\ i \in children
      BY <1>1, <2>3, <2>4, Removed DEF DeleteStrays, Goes, Present, AppliedInv, HasPurged
    <3>2. pc[x] = "strays" /\ pc'[x] # "strays"
      BY <2>3, <2>4, GoOnType DEF DeleteStrays
    <3> QED
      BY <2>3, <3>1, <3>2 DEF PurgedInv
  <2>5. CASE RunMaintenance(x)
    <3>1. i \in In(at[x]) /\ HasPurged(x, at[x]) /\ i \in children
      BY <1>1, <2>3, <2>5, Removed DEF RunMaintenance, Goes, Present, HasPurged
    <3>2. pc[x] = "maintain" /\ (pc'[x] = "idle" \/ at'[x] = at[x] + 1)
      BY <2>3, <2>5, GoOnType DEF RunMaintenance, GoesOnMaintaining
    <3>3. pc'[x] # pc[x] \/ at'[x] # at[x]
      BY <2>3, <3>2
    <3> QED
      BY <2>3, <3>1, <3>3 DEF PurgedInv
  <2> QED
    BY <2>1, <2>2, <2>4, <2>5
<1>2. IInv /\ [Next]_vars =>
        [\A i \in Ids : Goes(i) /\ i \in children' =>
           \E x \in Executors : (pc'[x] # pc[x] \/ at'[x] # at[x]) /\ i \in spared[x]]_vars
  BY <1>1
<1> QED
  BY <1>2, Invariance, PTL DEF Spec, OrphansAreLate
=============================================================================
