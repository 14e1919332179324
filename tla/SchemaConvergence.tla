------------------------- MODULE SchemaConvergence -------------------------
(***************************************************************************)
(* How an edited entity becomes a schema: `primebrick-db compare` takes    *)
(* the difference between the entity and the database, writes it as a      *)
(* patch and commits a snapshot of the entity, the migration engine runs   *)
(* the patch, and two checks tell whether something is missing: the gate   *)
(* (`check --snapshot`) and the live drift check (`check --url`).          *)
(*                                                                         *)
(* One table; a column carries its own @Index, @Unique and @ForeignKey,    *)
(* named from the column as the decorators do.  The table holds no rows    *)
(* that a statement could stumble over, and its types have the operators   *)
(* that its indexes and foreign keys need; arrays, composite indexes,      *)
(* primary keys, audit tables and partition wiring are left out.           *)
(***************************************************************************)
EXTENDS Integers, Sequences, FiniteSets

CONSTANTS Names,        \* column names, numbered in the order of localeCompare
          Types,        \* types a column is declared with
          Casts,        \* pairs of types with an assignment cast, by their names
          Rules,        \* ON DELETE rules of @ForeignKey; "none": no foreign key
          Columns,      \* the column declarations the developer chooses from
          Born,         \* the entity when the project starts
          MaxEdits,     \* edits of the entity
          MaxColumns,   \* columns of an entity
          MaxPending    \* patches written and not yet applied

Indexing == {"none", "btree", "hash", "partial", "unique"}

ASSUME NamesAssumption == Names \subseteq Nat
(* A declared type is one word of SQL: numeric(12,4) is the type numeric   *)
(* with the modifier "12,4", text has the modifier "".                     *)
ASSUME TypesAssumption == Types \subseteq [base: STRING, typmod: STRING, at: {"typname"}]
ASSUME CastsAssumption == Casts \subseteq STRING \X STRING
ASSUME ColumnsAssumption ==
  Columns \subseteq [name: Names, type: Types, nullable: BOOLEAN, index: Indexing, rule: Rules]

(* A class cannot declare a property twice.                                *)
Distinct(columns) ==
  \A i, j \in DOMAIN columns : columns[i].name = columns[j].name => i = j

Entities == {e \in Seq(Columns) : Distinct(e)}

ASSUME BornAssumption == Born \in Entities
ASSUME BoundsAssumption == {MaxEdits, MaxColumns, MaxPending} \subseteq Nat

VARIABLES entity,     \* the @Entity class: its columns in declaration order
          database,   \* the table: columns by attnum, indexes, foreign keys
          snapshot,   \* db-meta/snapshot-entities.json
          patches,    \* patch files not yet applied, in order
          failed,     \* the statement the first of them failed at
          edits,
          skipped,    \* history: a patch was written over pending ones, or given up
          redefined   \* history: the last patch that ran redefined an index
vars == <<entity, database, snapshot, patches, failed, edits, skipped, redefined>>

None == [op |-> "none"]

(* An index and a foreign key as they are declared and as they are stored. *)
NamedFor(x) == x.unique <=> x.name[2] = "uq"
DeclaredIndex ==
  {x \in [name: Names \X {"idx", "uq"}, on: Names, using: {"btree", "hash"},
          where: {"", "predicate"}, unique: BOOLEAN] : NamedFor(x)}
DeclaredForeignKey == [name: Names \X {"fkey"}, on: Names, rule: Rules]
StoredType == [base: STRING, typmod: STRING, at: {"formatType"}]
StoredIndex ==
  {x \in [name: Names \X {"idx", "uq"}, on: Nat, using: {"btree", "hash"},
          where: {"", "(predicate)"}, unique: BOOLEAN] : NamedFor(x)}
StoredForeignKey == [name: Names \X {"fkey"}, on: Nat, rule: Rules]

NamesOf(columns) == {columns[i].name : i \in DOMAIN columns}
At(columns, n) == CHOOSE i \in DOMAIN columns : columns[i].name = n
Distance(i, j) == IF i < j THEN j - i ELSE i - j

(* What the decorators of a column declare.                                *)
IndexOf(c) ==
  [name |-> <<c.name, IF c.index = "unique" THEN "uq" ELSE "idx">>,
   on |-> c.name,
   using |-> IF c.index = "hash" THEN "hash" ELSE "btree",
   where |-> IF c.index = "partial" THEN "predicate" ELSE "",
   unique |-> c.index = "unique"]
ForeignKeyOf(c) == [name |-> <<c.name, "fkey">>, on |-> c.name, rule |-> c.rule]
EntityIndexes(e) == {IndexOf(e[i]) : i \in {i \in DOMAIN e : e[i].index # "none"}}
EntityForeignKeys(e) == {ForeignKeyOf(e[i]) : i \in {i \in DOMAIN e : e[i].rule # "none"}}

(* A table: columns by attnum, and indexes and foreign keys that know      *)
(* their column by its attnum and so follow it when it is renamed.         *)
NoTable == [exists |-> FALSE, columns |-> <<>>, indexes |-> {}, foreignKeys |-> {}]
CatalogIndexes(d) == {[x EXCEPT !.on = d.columns[x.on].name] : x \in d.indexes}

(* PostgreSQL prints the predicate of an index in parentheses, the entity  *)
(* states it without; the comparison of definitions strips them.           *)
Printed(where) == IF where = "predicate" THEN "(predicate)" ELSE where
Normal(where) == IF where = "(predicate)" THEN "predicate" ELSE where

(***************************************************************************)
(* Types.  An entity hands its hint over as the typname, the catalog has   *)
(* the modifiers in format_type only.  Those of a vector count wherever    *)
(* they are, those of a varchar nowhere, those of other types if they are  *)
(* in the typname: a numeric(12,4) of an entity never equals the catalog's.*)
(***************************************************************************)
Stored(t) == [t EXCEPT !.at = "formatType"]
Comparable(t) ==
  [base |-> t.base,
   typmod |-> IF t.base = "vector" \/ (t.base # "varchar" /\ t.at = "typname")
              THEN t.typmod ELSE ""]

(* What PostgreSQL converts by itself, without a USING.                    *)
Castable(t, u) == t.base = u.base \/ <<t.base, u.base>> \in Casts

(***************************************************************************)
(* The rename heuristic                                                    *)
(***************************************************************************)
EntityOnly(e, d) == NamesOf(e) \ NamesOf(d.columns)
DatabaseOnly(e, d) == NamesOf(d.columns) \ NamesOf(e)

Tier(e, d, n, o) == Distance(At(e, n), At(d.columns, o))
Nearby(e, d, n) == {o \in DatabaseOnly(e, d) : Tier(e, d, n, o) <= 2}
Compatible(e, d, n, o) ==
  Comparable(e[At(e, n)].type) = Comparable(d.columns[At(d.columns, o)].type)
Candidates(e, d) ==
  UNION {{[to |-> n, from |-> o, tier |-> Tier(e, d, n, o)] :
            o \in {o \in Nearby(e, d, n) : Compatible(e, d, n, o)}} : n \in EntityOnly(e, d)}

Clash(p, q) == p.to = q.to \/ p.from = q.from
UserReviewRequired(e, d) ==
  \E p, q \in Candidates(e, d) : p # q /\ p.tier = q.tier /\ Clash(p, q)

Earlier(p, q) ==
  \/ p.tier < q.tier
  \/ p.tier = q.tier /\ p.to < q.to
  \/ p.tier = q.tier /\ p.to = q.to /\ p.from <= q.from
(* Greedy: a candidate is taken unless one that was taken before it has one*)
(* of its columns.                                                         *)
LikelyRenames(e, d) ==
  CHOOSE taken \in SUBSET Candidates(e, d) :
    \A p \in Candidates(e, d) :
      p \in taken <=> ~ \E q \in taken : q # p /\ Earlier(q, p) /\ Clash(q, p)

(***************************************************************************)
(* compareSnapshots, isDriftClean and the test of `compare` for a patch    *)
(***************************************************************************)
(* Mutant: a plain index stands in for a unique one.                       *)
EquivalentIgnoringUnique(x, y) ==
  x.using = y.using /\ x.on = y.on /\ Normal(x.where) = Normal(y.where)

Equivalent(x, y) ==
  /\ x.unique = y.unique
  /\ x.using = y.using
  /\ x.on = y.on
  /\ Normal(x.where) = Normal(y.where)

Redefined(x, y) == x.using # y.using \/ x.on # y.on \/ x.where # y.where

NewIndexes(e, d) ==
  {x \in EntityIndexes(e) :
     \A y \in CatalogIndexes(d) : y.name # x.name /\ ~Equivalent(x, y)}
IndexMismatches(e, d) ==
  {x \in EntityIndexes(e) : \E y \in CatalogIndexes(d) : y.name = x.name /\ Redefined(x, y)}
Retyped(e, d) ==
  {e[i].name : i \in {i \in DOMAIN e : \E j \in DOMAIN d.columns :
     /\ e[i].name = d.columns[j].name
     /\ Comparable(e[i].type) # Comparable(d.columns[j].type)}}
NullabilityMismatches(e, d) ==
  {e[i].name : i \in {i \in DOMAIN e : \E j \in DOMAIN d.columns :
     e[i].name = d.columns[j].name /\ e[i].nullable # d.columns[j].nullable}}

Renamed(e, d) ==
  IF UserReviewRequired(e, d) THEN {} ELSE {p.to : p \in LikelyRenames(e, d)}

Diff(e, d) ==
  [newTable |-> ~d.exists,
   review |-> d.exists /\ UserReviewRequired(e, d),
   newColumns |-> IF d.exists THEN EntityOnly(e, d) \ Renamed(e, d) ELSE {},
   renames |-> IF d.exists THEN LikelyRenames(e, d) ELSE {},
   retyped |-> Retyped(e, d),
   nullability |-> NullabilityMismatches(e, d),
   newIndexes |-> IF d.exists THEN NewIndexes(e, d) ELSE {},
   indexMismatches |-> IndexMismatches(e, d),
   newForeignKeys |->
     IF d.exists
     THEN {f \in EntityForeignKeys(e) : \A g \in d.foreignKeys : g.name # f.name}
     ELSE {},
   foreignKeyMismatches |->
     {f \in EntityForeignKeys(e) :
        \E g \in d.foreignKeys : g.name = f.name /\ g.rule # f.rule}]

(* Mutant: indexes are forgotten altogether.                               *)
NoopOfColumns(diff) ==
  /\ ~diff.newTable
  /\ diff.newColumns = {} /\ diff.renames = {}
  /\ diff.retyped = {} /\ diff.nullability = {}
  /\ diff.newForeignKeys = {}

(* What `compare` takes for no drift: it does not look at redefinitions.   *)
Noop(diff) ==
  /\ ~diff.newTable
  /\ diff.newColumns = {} /\ diff.renames = {}
  /\ diff.retyped = {} /\ diff.nullability = {}
  /\ diff.newIndexes = {} /\ diff.newForeignKeys = {}

IsDriftClean(diff) ==
  Noop(diff) /\ diff.indexMismatches = {} /\ diff.foreignKeyMismatches = {}

(***************************************************************************)
(* buildSqlPatchFromMetaDiff: statements in three sections                 *)
(***************************************************************************)
CreateTable(e) == [op |-> "createTable", columns |-> e]
AddColumn(c) == [op |-> "addColumn", column |-> c]
CreateIndex(x) == [op |-> "createIndex", index |-> x]
DropIndex(x) == [op |-> "dropIndex", name |-> x.name]
RenameColumn(p) == [op |-> "rename", from |-> p.from, to |-> p.to]
AlterType(c) == [op |-> "alterType", name |-> c.name, type |-> c.type]
AlterNullability(c) == [op |-> "alterNullability", name |-> c.name, nullable |-> c.nullable]
AddForeignKey(f) == [op |-> "addForeignKey", foreignKey |-> f]

(* The elements of a set, each once. *)
Listed(S) ==
  CHOOSE s \in [1 .. Cardinality(S) -> S] :
    /\ \A x \in S : \E i \in DOMAIN s : s[i] = x
    /\ \A i, j \in DOMAIN s : s[i] = s[j] => i = j
Each(Statement(_), S) == LET s == Listed(S) IN [i \in 1 .. Cardinality(S) |-> Statement(s[i])]
Declared(e, names) == {e[At(e, n)] : n \in names}
RedefineIndexes(X) ==
  LET s == Listed(X)
  IN [i \in 1 .. 2 * Cardinality(X) |->
        IF i % 2 = 1 THEN DropIndex(s[(i + 1) \div 2]) ELSE CreateIndex(s[i \div 2])]

NewTable(e) == <<CreateTable(e)>> \o Each(CreateIndex, EntityIndexes(e))

Patch(e, diff, over) ==
  [safe |-> (IF diff.newTable THEN NewTable(e) ELSE <<>>)
            \o Each(AddColumn, Declared(e, diff.newColumns)),
   notx |-> Each(CreateIndex, diff.newIndexes),
   renames |-> Each(RenameColumn, diff.renames),
   commented |-> diff.review,
   review |-> Each(AlterType, Declared(e, diff.retyped))
              \o Each(AlterNullability, Declared(e, diff.nullability))
              \o RedefineIndexes(diff.indexMismatches)
              \o Each(AddForeignKey, diff.newForeignKeys),
   stale |-> over]

(***************************************************************************)
(* PostgreSQL and the engine: one statement, a transaction, a patch        *)
(***************************************************************************)
Table(columns, indexes, foreignKeys) ==
  [exists |-> TRUE, columns |-> columns, indexes |-> indexes, foreignKeys |-> foreignKeys]
Column(name, type, nullable) == [name |-> name, type |-> type, nullable |-> nullable]
PlaceIndex(columns, x, where) ==
  [name |-> x.name, on |-> At(columns, x.on), using |-> x.using, where |-> where,
   unique |-> x.unique]
PlaceForeignKey(columns, f) == [name |-> f.name, on |-> At(columns, f.on), rule |-> f.rule]

Created(e) ==
  Table([i \in DOMAIN e |-> Column(e[i].name, Stored(e[i].type), e[i].nullable)], {},
        {PlaceForeignKey(e, f) : f \in EntityForeignKeys(e)})

Accepts(d, s) ==
  LET there == NamesOf(d.columns)
  IN CASE s.op = "createTable" -> TRUE
       [] s.op = "addColumn" -> d.exists
       [] s.op = "createIndex" -> s.index.on \in there
       [] s.op = "dropIndex" -> TRUE
       [] s.op = "rename" -> s.from \in there /\ s.to \notin there
       [] s.op = "alterType" ->
            \E j \in DOMAIN d.columns :
              d.columns[j].name = s.name /\ Castable(d.columns[j].type, s.type)
       [] s.op = "alterNullability" -> s.name \in there
       [] s.op = "addForeignKey" -> /\ s.foreignKey.on \in there
                                    /\ \A f \in d.foreignKeys : f.name # s.foreignKey.name

(* A column is redefined: indexes and foreign keys know it by its attnum.  *)
WithColumn(d, n, column) ==
  Table([d.columns EXCEPT ![At(d.columns, n)] = column], d.indexes, d.foreignKeys)

Effect(d, s) ==
  LET old(n) == d.columns[At(d.columns, n)]
  IN CASE s.op = "createTable" -> IF d.exists THEN d ELSE Created(s.columns)
       [] s.op = "addColumn" ->
            IF s.column.name \in NamesOf(d.columns) THEN d
            ELSE Table(Append(d.columns,
                              Column(s.column.name, Stored(s.column.type), s.column.nullable)),
                       d.indexes, d.foreignKeys)
       [] s.op = "createIndex" ->
            IF \E x \in d.indexes : x.name = s.index.name THEN d
            ELSE Table(d.columns,
                       d.indexes \cup {PlaceIndex(d.columns, s.index, Printed(s.index.where))},
                       d.foreignKeys)
       [] s.op = "dropIndex" ->
            [d EXCEPT !.indexes = {x \in d.indexes : x.name # s.name}]
       [] s.op = "rename" ->
            WithColumn(d, s.from, Column(s.to, old(s.from).type, old(s.from).nullable))
       [] s.op = "alterType" ->
            WithColumn(d, s.name, Column(s.name, Stored(s.type), old(s.name).nullable))
       [] s.op = "alterNullability" ->
            WithColumn(d, s.name, Column(s.name, old(s.name).type, s.nullable))
       [] s.op = "addForeignKey" ->
            Table(d.columns, d.indexes,
                  d.foreignKeys \cup {PlaceForeignKey(d.columns, s.foreignKey)})

(* The first error ends a run.                                             *)
Run(d, statement) == [database |-> d, failed |-> statement]
Execute(run, s) ==
  CASE run.failed # None -> run
    [] run.failed = None /\ Accepts(run.database, s) -> Run(Effect(run.database, s), None)
    [] OTHER -> Run(run.database, s)

RunEach(run, statements) ==
  LET after[n \in 0 .. Len(statements)] ==
        IF n = 0 THEN run ELSE Execute(after[n - 1], statements[n])
  IN after[Len(statements)]

(* Mutant: the statements of a transactional section run in autocommit.    *)
RunTransactionUnwrapped(run, statements) == RunEach(run, statements)

RunTransaction(run, statements) ==
  LET done == RunEach(run, statements)
  IN IF done.failed = None THEN done ELSE Run(run.database, done.failed)

(* Mutant: the review section renames last.                                *)
RunPatchRenamingLast(d, p, uncommented) ==
  LET review == p.review \o (IF p.commented /\ ~uncommented THEN <<>> ELSE p.renames)
      start == Run(d, None)
  IN IF p.notx = <<>> THEN RunTransaction(start, p.safe \o review)
     ELSE RunTransaction(RunEach(RunTransaction(start, p.safe), p.notx), review)

(* A file without a no-transaction section is one transaction.  Renames in *)
(* comments run only if the reviewer uncommented them.                     *)
RunPatch(d, p, uncommented) ==
  LET review == (IF p.commented /\ ~uncommented THEN <<>> ELSE p.renames) \o p.review
      start == Run(d, None)
  IN IF p.notx = <<>> THEN RunTransaction(start, p.safe \o review)
     ELSE RunTransaction(RunEach(RunTransaction(start, p.safe), p.notx), review)

(***************************************************************************)
(* The steps                                                               *)
(***************************************************************************)
Init ==
  /\ entity = Born
  /\ database = NoTable
  /\ snapshot = <<>>
  /\ patches = <<>>
  /\ failed = None
  /\ edits = 0
  /\ skipped = FALSE
  /\ redefined = FALSE

(* A property is changed in any way, renamed, added anywhere or removed:   *)
(* one of them, or none, gives way to a new one, or to none.               *)
Edited(e, i, gone, new) == SubSeq(e, 1, i - 1) \o new \o SubSeq(e, i + gone, Len(e))

Edit ==
  /\ edits < MaxEdits
  /\ \E i \in 1 .. Len(entity) + 1, gone \in {0, 1}, new \in {<<>>} \cup {<<c>> : c \in Columns} :
       /\ entity' = Edited(entity, i, gone, new)
       /\ entity' # entity /\ Len(entity') \in 1 .. MaxColumns
       /\ Distinct(entity')
  /\ edits' = edits + 1
  /\ UNCHANGED <<database, snapshot, patches, failed, skipped, redefined>>

Compare ==
  /\ Len(patches) < MaxPending
  /\ LET diff == Diff(entity, database)
     IN patches' = IF Noop(diff) THEN patches
                   ELSE Append(patches, Patch(entity, diff, patches # <<>>))
  /\ snapshot' = entity
  /\ skipped' = (patches # <<>>)
  /\ UNCHANGED <<entity, database, failed, edits, redefined>>

(* A boot runs the first patch that is not applied, one that has failed as *)
(* well: that is retried on what its first run has left.                   *)
Apply ==
  /\ patches # <<>>
  /\ \E uncommented \in BOOLEAN :
       LET run == RunPatch(database, Head(patches), uncommented)
       IN /\ database' = run.database
          /\ failed' = run.failed
          /\ patches' = IF run.failed = None THEN Tail(patches) ELSE patches
  /\ redefined' = \E i \in DOMAIN Head(patches).review : Head(patches).review[i].op = "dropIndex"
  /\ UNCHANGED <<entity, snapshot, edits, skipped>>

(* The operator resolves the failed patch by hand, and does nothing else.  *)
GiveUp ==
  /\ failed # None
  /\ patches' = Tail(patches)
  /\ failed' = None
  /\ skipped' = TRUE
  /\ UNCHANGED <<entity, database, snapshot, edits, redefined>>

Next == Edit \/ Compare \/ Apply \/ GiveUp
Spec == Init /\ [][Next]_vars

(* `check --snapshot`: the entity against the committed snapshot, taken    *)
(* for a database that has exactly what the entity then declared.          *)
Committed ==
  Table([i \in DOMAIN snapshot |->
           Column(snapshot[i].name, snapshot[i].type, snapshot[i].nullable)],
        {PlaceIndex(snapshot, x, x.where) : x \in EntityIndexes(snapshot)},
        Created(snapshot).foreignKeys)
GateIsClean ==
  /\ snapshot # <<>>
  /\ LET diff == Diff(entity, Committed) IN IsDriftClean(diff) /\ ~diff.review

(***************************************************************************)
(* Properties                                                              *)
(***************************************************************************)

Statement ==
  [op: {"createTable"}, columns: Entities]
    \cup [op: {"addColumn"}, column: Columns]
    \cup [op: {"createIndex"}, index: DeclaredIndex]
    \cup [op: {"dropIndex"}, name: Names \X {"idx", "uq"}]
    \cup [op: {"rename"}, from: Names, to: Names]
    \cup [op: {"alterType"}, name: Names, type: Types]
    \cup [op: {"alterNullability"}, name: Names, nullable: BOOLEAN]
    \cup [op: {"addForeignKey"}, foreignKey: DeclaredForeignKey]

(* A table that PostgreSQL can hold: columns have different names, indexes *)
(* and foreign keys are on columns of the table.                           *)
WellFormed(d) ==
  /\ d \in [exists: BOOLEAN, columns: Seq([name: Names, type: StoredType, nullable: BOOLEAN]),
             indexes: SUBSET StoredIndex, foreignKeys: SUBSET StoredForeignKey]
  /\ Distinct(d.columns)
  /\ \A x \in d.indexes : x.on \in DOMAIN d.columns
  /\ \A f \in d.foreignKeys : f.on \in DOMAIN d.columns
  /\ ~d.exists => d = NoTable

(* The shapes of the state.                                                *)
TypeOK ==
  /\ entity \in Entities /\ snapshot \in Entities
  /\ WellFormed(database)
  /\ patches \in Seq([safe: Seq(Statement), notx: Seq(Statement), renames: Seq(Statement),
                      commented: BOOLEAN, review: Seq(Statement), stale: BOOLEAN])
  /\ Len(patches) <= MaxPending
  /\ failed \in Statement \cup {None}
  /\ failed # None => patches # <<>>
  /\ edits \in 0 .. MaxEdits
  /\ {skipped, redefined} \subseteq BOOLEAN

(* A live check without drift tells the truth, as far as it goes: every    *)
(* declared column is in the table with its type and nullability, but for  *)
(* the length of a varchar, every declared index is there on its column,   *)
(* with its method, predicate and uniqueness under whatever name, and every*)
(* declared foreign key with its rule.  It is never clean for a column that*)
(* is declared with modifiers other than those two types have.             *)
CleanMeansIntended ==
  IsDriftClean(Diff(entity, database)) =>
    /\ \A i \in DOMAIN entity : \E j \in DOMAIN database.columns :
         LET declared == IndexOf(entity[i])
             hint == entity[i].type
             type == database.columns[j].type
         IN /\ database.columns[j].name = entity[i].name
            /\ type.base = hint.base
            /\ hint.base = "vector" => type.typmod = hint.typmod
            /\ hint.typmod # "" => hint.base \in {"varchar", "vector"}
            /\ database.columns[j].nullable = entity[i].nullable
            /\ entity[i].index # "none" =>
                 \E x \in database.indexes :
                   /\ x.on = j /\ x.using = declared.using /\ x.unique = declared.unique
                   /\ x.where = Printed(declared.where)
    /\ \A f \in EntityForeignKeys(entity) :
         \E g \in database.foreignKeys : g.name = f.name /\ g.rule = f.rule

(* The columns that differ from the entity have the type it declares: the  *)
(* catalog shows it otherwise.                                             *)
AsDeclared(e, d, names) ==
  \A i \in DOMAIN e, j \in DOMAIN d.columns :
    d.columns[j].name = e[i].name /\ e[i].name \in names => d.columns[j].type = Stored(e[i].type)

(* What the gate promises: once the snapshot gate is clean and every patch *)
(* ran, none given up and none written over a pending one, the database    *)
(* lacks nothing that was added to the entity, and has its types, those    *)
(* included that the live check calls a drift for ever.  What one round of *)
(* compare may leave behind are the length of a varchar, redefinitions of  *)
(* an index or a foreign key, the nullability of a column the patch        *)
(* renamed, and an index for which another one stood in until the patch    *)
(* redefined that.                                                         *)
ShippedEntitiesArrive ==
  GateIsClean /\ patches = <<>> /\ ~skipped =>
    LET diff == Diff(entity, database)
    IN /\ ~diff.newTable
       /\ diff.newColumns = {} /\ diff.renames = {}
       /\ AsDeclared(entity, database, diff.retyped)
       /\ diff.newIndexes # {} => redefined
       /\ diff.newForeignKeys = {}

(* A patch that was compared with the database it runs on, be it for the   *)
(* first time or once more after it failed, fails at three statements only:*)
(* an index on a column which the same patch renames further down, a rename*)
(* the reviewer uncommented, whose column the safe section has just added, *)
(* and a new type to which the column's is not cast without a USING.       *)
FailuresHaveReasons ==
  failed # None /\ ~Head(patches).stale =>
    LET renames == {Head(patches).renames[i] : i \in DOMAIN Head(patches).renames}
    IN \/ failed.op = "createIndex" /\ \E r \in renames : r.to = failed.index.on
       \/ failed \in renames /\ Head(patches).commented
       \/ /\ failed.op = "alterType"
          /\ \E j \in DOMAIN database.columns :
               /\ database.columns[j].name = failed.name
               /\ ~Castable(database.columns[j].type, failed.type)

(* Whatever patch runs, in whatever order, and wherever it fails: no       *)
(* column, index or foreign key of the database is gone after it.          *)
NothingIsDropped ==
  [][/\ DOMAIN database.columns \subseteq DOMAIN database'.columns
     /\ \A x \in database.indexes : \E y \in database'.indexes : y.name = x.name
     /\ database.foreignKeys \subseteq database'.foreignKeys]_vars
=============================================================================
