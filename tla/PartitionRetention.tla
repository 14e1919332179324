------------------------- MODULE PartitionRetention -------------------------
(***************************************************************************)
(* runPartitionMaintenance: retention of partitioned tables whose children *)
(* no foreign key can hold.                                                *)
(*                                                                         *)
(* The executor goes twice through the partitioned tables: first it purges *)
(* the children of expired rows and the expired rows of the default        *)
(* partition, then it has pg_partman drop the partitions that are expired  *)
(* as a whole.  Every statement commits by itself and has its own now();   *)
(* the job can fail at each, can be delivered twice, and is run again.     *)
(***************************************************************************)
EXTENDS Naturals

CONSTANTS
  Executors,  \* deliveries of the maintenance job
  Ids,        \* rows of partitioned tables, each with at most one child row
  Tables,     \* how many partitioned tables the registry has
  Registered, \* tables with a row in partman.part_config
  Conf, Meta, \* retention in part_config and in @PartitionField, 0 for none
  Width,      \* the time a partition covers
  MaxNow,     \* bound: the time at the end
  MaxFails    \* bound: failed jobs

ASSUME RetentionAssumption ==
  /\ Tables \in Nat \ {0} /\ Registered \subseteq 1 .. Tables
  /\ Conf \in [1 .. Tables -> Nat] /\ Meta \in [1 .. Tables -> Nat]
  /\ Width \in Nat \ {0} /\ MaxNow \in Nat \ {0} /\ MaxFails \in Nat

VARIABLES
  now,
  row,       \* row[i]: its table, the time it is filed under, and where it is
  children,  \* rows that have a child row, whether they still are there or not
  pc,        \* pc[x]: the next statement of x
  at,        \* at[x]: the table it is for
  applied,   \* applied[x][t]: the retention x applies to t, 0 for skipped
  spared,    \* spared[x]: rows that x's purge left alone, or that came after it
  fails

vars == <<now, row, children, pc, at, applied, spared, fails>>

Table == 1 .. Tables
Absent == [table |-> 1, born |-> 0, place |-> "absent"]

TypeOK ==
  /\ now \in 1 .. MaxNow
  /\ row \in [Ids -> [table : Table, born : 0 .. MaxNow,
                      place : {"absent", "partition", "default", "gone"}]]
  /\ children \subseteq Ids
  /\ pc \in [Executors -> {"idle", "lookup", "purge", "strays", "maintain"}]
  /\ at \in [Executors -> 1 .. Tables + 1]
  /\ applied \in [Executors -> [Table -> Nat]]
  /\ spared \in [Executors -> SUBSET Ids]
  /\ fails \in 0 .. MaxFails

Init ==
  /\ now = 1
  /\ row = [i \in Ids |-> Absent]
  /\ children = {}
  /\ pc = [x \in Executors |-> "idle"]
  /\ at = [x \in Executors |-> 1]
  /\ applied = [x \in Executors |-> [t \in Table |-> 0]]
  /\ spared = [x \in Executors |-> {}]
  /\ fails = 0

Present(i) == row[i].place \in {"partition", "default"}
In(t) == {i \in Ids : Present(i) /\ row[i].table = t}

(* now() - retention, row by row. *)
Expired(i, retention) == row[i].born + retention < now

(* The end of the row's partition is that old. *)
PartitionExpired(i, retention) == ((row[i].born \div Width) + 1) * Width + retention <= now

(* MUTANT of Retention: the decorator wins over part_config. *)
RetentionOfMeta(t) ==
  IF t \notin Registered THEN 0 ELSE IF Meta[t] # 0 THEN Meta[t] ELSE Conf[t]

(* part_config wins; 0 if the table is to be skipped. *)
Retention(t) ==
  IF t \notin Registered THEN 0 ELSE IF Conf[t] # 0 THEN Conf[t] ELSE Meta[t]

(***************************************************************************)
(* The application                                                         *)
(***************************************************************************)

Tick ==
  /\ now < MaxNow
  /\ now' = now + 1
  /\ UNCHANGED <<row, children, pc, at, applied, spared, fails>>

(* A row is filed under the present or the past, in the default partition  *)
(* if none covers its time.                                                *)
InsertRow(i, t, born, place) ==
  /\ row[i].place = "absent"
  /\ row' = [row EXCEPT ![i] = [table |-> t, born |-> born, place |-> place]]
  /\ spared' = [x \in Executors |-> spared[x] \cup {i}]
  /\ UNCHANGED <<now, children, pc, at, applied, fails>>

InsertChild(i) ==
  /\ Present(i) /\ i \notin children
  /\ children' = children \cup {i}
  /\ spared' = [x \in Executors |-> spared[x] \cup {i}]
  /\ UNCHANGED <<now, row, pc, at, applied, fails>>

(***************************************************************************)
(* The executor                                                            *)
(***************************************************************************)

Start(x) ==
  /\ pc[x] = "idle"
  /\ pc' = [pc EXCEPT ![x] = "lookup"]
  /\ at' = [at EXCEPT ![x] = 1]
  /\ applied' = [applied EXCEPT ![x] = [t \in Table |-> 0]]
  /\ spared' = [spared EXCEPT ![x] = {}]
  /\ UNCHANGED <<now, row, children, fails>>

(* On to the next table, or from the first loop to the second. *)
GoOn(x, step) ==
  IF at[x] < Tables THEN /\ pc' = [pc EXCEPT ![x] = step]
                         /\ at' = [at EXCEPT ![x] = @ + 1]
  ELSE IF step = "lookup" THEN /\ pc' = [pc EXCEPT ![x] = "maintain"]
                               /\ at' = [at EXCEPT ![x] = 1]
  ELSE /\ pc' = [pc EXCEPT ![x] = "idle"] /\ UNCHANGED at

(* SELECT retention FROM partman.part_config. *)
Lookup(x) ==
  /\ pc[x] = "lookup"
  /\ applied' = [applied EXCEPT ![x][at[x]] = Retention(at[x])]
  /\ IF Retention(at[x]) = 0 THEN GoOn(x, "lookup")
     ELSE pc' = [pc EXCEPT ![x] = "purge"] /\ UNCHANGED at
  /\ UNCHANGED <<now, row, children, spared, fails>>

(* MUTANT of Purgeable: ... FROM ONLY, which leaves the default partition out. *)
PurgeableInPartitions(t, retention) ==
  {i \in In(t) : row[i].place = "partition" /\ Expired(i, retention)}

(* The rows whose children go. *)
Purgeable(t, retention) == {i \in In(t) : Expired(i, retention)}

(* DELETE FROM child WHERE ref IN (SELECT ... expired). *)
PurgeChildren(x) ==
  LET t == at[x]
  IN  /\ pc[x] = "purge"
      /\ children' = children \ Purgeable(t, applied[x][t])
      /\ spared' = [spared EXCEPT ![x] = {i \in @ : row[i].table # t}
                                         \cup {i \in In(t) : ~Expired(i, applied[x][t])}]
      /\ pc' = [pc EXCEPT ![x] = "strays"]
      /\ UNCHANGED <<now, row, at, applied, fails>>

Remove(rows) ==
  row' = [i \in Ids |-> IF i \in rows THEN [row[i] EXCEPT !.place = "gone"] ELSE row[i]]

(* Expired rows of the default partition. *)
DeleteStrays(x) ==
  LET t == at[x]
  IN  /\ pc[x] = "strays"
      /\ Remove({i \in In(t) : row[i].place = "default" /\ Expired(i, applied[x][t])})
      /\ GoOn(x, "lookup")
      /\ UNCHANGED <<now, children, applied, spared, fails>>

(* MUTANT of GoesOnMaintaining: the loop ends after the first table. *)
GoesOnMaintainingOnce(x) == pc' = [pc EXCEPT ![x] = "idle"] /\ UNCHANGED at

GoesOnMaintaining(x) == GoOn(x, "maintain")

(* partman.run_maintenance(parent), for tables that were not skipped: it   *)
(* drops partitions by the retention of part_config, if that has one.      *)
RunMaintenance(x) ==
  LET t == at[x]
  IN  /\ pc[x] = "maintain"
      /\ IF applied[x][t] = 0 THEN UNCHANGED row
         ELSE Remove({i \in In(t) : /\ row[i].place = "partition"
                                    /\ Conf[t] # 0 /\ PartitionExpired(i, Conf[t])})
      /\ GoesOnMaintaining(x)
      /\ UNCHANGED <<now, children, applied, spared, fails>>

(* A statement fails, the connection breaks, the process dies: what the    *)
(* statements before have done is committed.                               *)
Fail(x) ==
  /\ pc[x] # "idle" /\ fails < MaxFails
  /\ fails' = fails + 1
  /\ pc' = [pc EXCEPT ![x] = "idle"]
  /\ UNCHANGED <<now, row, children, at, applied, spared>>

Step(x) ==
  Start(x) \/ Lookup(x) \/ PurgeChildren(x) \/ DeleteStrays(x) \/ RunMaintenance(x)

Next ==
  \/ Tick
  \/ \E i \in Ids :
       \/ InsertChild(i)
       \/ \E t \in Table, born \in 0 .. now, place \in {"partition", "default"} :
            InsertRow(i, t, born, place)
  \/ \E x \in Executors : Step(x) \/ Fail(x)

Spec == Init /\ [][Next]_vars

(* The job comes again and again, and its statements are answered. *)
FairSpec == Spec /\ \A x \in Executors : WF_vars(Step(x))

(***************************************************************************)
(* Properties                                                              *)
(***************************************************************************)

Goes(i) == Present(i) /\ row'[i].place = "gone"

(* Retention deletes what is expired and nothing else: rows and children   *)
(* go only from tables that pg_partman knows, and only when the retention  *)
(* of part_config, or of the decorator if that has none, is over.          *)
OnlyExpiredGo ==
  [][\A i \in Ids :
       Goes(i) \/ (i \in children /\ i \notin children') =>
         LET t == row[i].table
         IN  /\ t \in Registered
             /\ Conf[t] # 0 => Expired(i, Conf[t])
             /\ Conf[t] = 0 => Meta[t] # 0 /\ Expired(i, Meta[t])]_vars

(* partition-maintenance.ts:10-14: the purge runs before the drop, without *)
(* it children "would be orphaned".  A row leaves a child behind only if   *)
(* the executor that removes it had spared it: the row, its child or its   *)
(* expiry came after the purge of its table.  Nobody cleans up behind it.  *)
OrphansAreLate ==
  [][\A i \in Ids : Goes(i) /\ i \in children' =>
       \E x \in Executors : (pc'[x] # pc[x] \/ at'[x] # at[x]) /\ i \in spared[x]]_vars

(* What is expired goes in the end, whichever statements fail before: rows *)
(* of the default partition, and partitions that are expired as a whole.   *)
RetentionCatchesUp ==
  \A i \in Ids :
    /\ Present(i) /\ row[i].place = "default" /\ Retention(row[i].table) # 0
         /\ Expired(i, Retention(row[i].table)) ~> ~Present(i)
    /\ Present(i) /\ row[i].place = "partition" /\ row[i].table \in Registered
         /\ Conf[row[i].table] # 0 /\ PartitionExpired(i, Conf[row[i].table]) ~> ~Present(i)
=============================================================================
