# Verification of @primebrick/dal-pg

TLA+ models of the data-access layer in `src/`, model-checked with TLC, and
theorems about them checked by TLAPS. Paths below are relative to the
repository, the ones of the implementation to its `src/`.

## 1. The system

A service creates a `Dal`, which owns a `pg.Pool` and a `Repository`. Requests
run concurrently in one Node process (and in several processes of the same
service), interleaved at every `await`; PostgreSQL runs their statements at READ
COMMITTED. Nothing in the library locks: what keeps concurrent requests apart is
the version column, the row locks of PostgreSQL, and one advisory lock for
migrations.

| Part | State | Operations | What is hard | What makes it correct |
|---|---|---|---|---|
| Repository, writes (`repository/repository.ts`) | the table, its version column, `{table}_audit`; per call: old image, temporary tables | add, update, delete, restore, hardDelete, their `*Many` forms, clone | several statements per operation, other writers between any two; locks taken row by row; unique indexes that know more than the statement's snapshot; answers lost; audit rows not awaited | no lost update; bulk writes are all or nothing; errors and successes are true; the audit trail tells what happened |
| Repository, finders and streams (`query/*`) | none, or a connection until the consumer stops | findById, find, findAll, findByPage, vectorSearch | the lifetime of a streamed connection | connections come back |
| Dal, pool (`dal/dal.ts`) | pooled sessions: owner, open transaction, timeout | transaction, withClient, beginTransaction, bulk writes, close | a failure at every statement, including the ones that clean up; a pool at its limit | sessions are clean; nothing leaks; promises tell the truth; calls end |
| Dal, singleton (`dal/dal.ts`, `meta/schema-domain.ts`) | `defaultDal`, the schema domain of the process | getDal, resetDal, new Dal, close | two resets around a getDal; a close with calls under way; two Dals in one process | every Dal is closed; closed means drained; SQL names declared schemas and shared tables |
| DeferredTransaction (`dal/deferred-transaction.ts`) | buffer of operations, open/committed/discarded | add ... find, commit, discard | one statement, one snapshot for all operations, branches in any order | equals the sequential execution, or fails; handles settle and tell the truth |
| EntityService, DomainService (`entity/*`) | none | CRUD with hooks, events and an audit port; bulk forms; duplicate | the audit port and the transaction are different connections; hooks before a rollback | hooks and the trail tell of committed writes; nothing waits for itself |
| Audit trail (`audit/*`) | `{table}_audit` | writeAudit, audit page | as for the writes | as for the writes |
| Migration engine (`migrations/*`) | `primebrick_database_patches`, advisory lock | runMigrations, retry, approve, resolve | processes that boot together, crashes within a patch, administrators acting meanwhile, releases that differ | each patch once, in order, registered as what ran |
| Partition maintenance (`dal/partition-maintenance.ts`) | partitions of a table, rows of its children | runPartitionMaintenance | a sequence without a transaction, every statement with its own clock, jobs delivered twice | only what is expired goes; no child outlives its parent unless it came late; what is expired goes in the end |
| Schema diff, drift, CLI (`schema-diff/*`, `cli/*`) | the snapshot file, the patch files, the database | compare, apply, check | patches that pile up, renames that are guesses, indexes that stand in for others | a clean check is true; what passes the gate arrives; nothing is dropped |
| Query builder, SQL splitter | none | pure functions | corner cases of text | |
| Entity metadata, types, base entities | static tables | decorators | none | constants of the models |

They interact by calls: EntityService and DeferredTransaction call Repository;
Repository and Dal take clients from the pool; the migration engine takes one
client of the pool it is given, and runs the patches that the schema diff wrote.
They share the database.

## 2. The modules

| Module | Models | State and actions |
|---|---|---|
| `VersionedStore` | abstract: a multi-row compare-and-set register | `Read`, `Insert`, `Change` |
| `RepositoryWrites` | single-row and bulk writes of one table | one action per statement: `ReadOld` (old image), `GuardedWrite`/`WriteMisses`, `DisambiguateZeroRows` (the probe of the whole identity), `IdentityFound`/`IdentityMissing` (that of each field of it); `DiagnoseClean`/`DiagnoseStale`, `VisitRow` (one row of the set-based write and its lock), `RaceGuard`, `CommitMany` |
| `UniqueInserts` | add (raise and ignore mode), addMany and update against unique constraints | `Start` (the snapshot of the statement), `AddInserts`/`AddRaises`/`AddCollides`, `DetectClean`/`DetectRaises`, `LoadItem`/`LoadFails` (the batch row by row, against the index), `CommitMany`, `UpdateWrites`/`UpdateRaises`/`UpdateCollides`/`UpdateMisses`, `ProbeFinds`/`ProbeMisses` (the probe of the whole identity), `FieldFound`/`FieldMissing`/`Vanished` (that of each of its columns), `BreakDeadlock` |
| `PatchLedger` | abstract: a ledger of patches kept by one run after the other | `Begin`, `Apply`, `Advance`, `Register`, `Stop`, `End`, `Resolve` |
| `MigrationEngine` | `runMigrations` and the helpers of `status.ts` | `AcquireAdvisoryLock` ... `Unlock`, one action per committed effect; `RetryFailedPatches`, `ApprovePendingReview`, `ResolveManually`; `LoseConnection`, `SessionEnds` |
| `Connections` | what every kind of call does to its pooled session | `Connect`, `Begin`, `SetLocal`, `TxWork`, `Commit`, `Rollback`, `SetTimeout`, `Reset`, each with the way it rejects; `Escape` is an error thrown past `release()` |
| `DalLifecycle` | the Dals of one process | `GetDalCreates`/`GetDalReturns`, `NewDal`, `Close`, `CloseReturns`, `CloseGivesUp`, `ResetDal`, `ResetClears`, `PoolEnds`, `PoolEndedByTool`, calls that start, wait and end |
| `DeferredCommit` | one deferred transaction among other writers | `Register`, `Commit`, `Merge`, `Start` (the snapshot), `RunGuarded`/`RunAdd`/`RunFind` (one branch), `StatementFails`, `Answer`, `AnswerLost`, `Discard`; `OtherWrite` |
| `ServiceWrites` | the operations of an EntityService with their audit rows and hooks | `Request`, `WriteHits`/`WriteMisses`/`TimesOut`, `HookReturns`/`HookThrows`, `BulkHits`, `CloneOne`/`CloneMisses`/`CloneEnds`, `BeginTx`/`CommitTx`/`RollbackTx`, `AuditLands`/`AuditLost` |
| `PartitionRetention` | `runPartitionMaintenance` among inserts and other deliveries of the job | `Lookup`, `PurgeChildren`, `DeleteStrays`, `RunMaintenance`, `Fail`; `InsertRow`, `InsertChild`, `Tick` |
| `SchemaConvergence` | an entity that is edited, and the schema that follows | `Edit`, `Compare`, `Apply`, `GiveUp`; the difference, the patch, its sections and PostgreSQL's DDL are operators |
| `...Proofs` | theorems about the module of that name, `DalProofs` about both of `dal.ts` | |
| `MC*` | instances for TLC | |

**Composition.** `RepositoryWrites` implements `VersionedStore` (an `INSTANCE`
with a refinement mapping), `MigrationEngine` implements `PatchLedger` (the
settled rows of the registry are its entries, the run past its prefetch is its
run; lock, prefetched copies, positions and lost sessions are hidden).
`ServiceWrites` takes a single-row write as the one
guarded step that `RepositoryWrites` shows it to be, and `SchemaConvergence` the
run of a patch as the one step (or, with its segments, the sequence) that
`MigrationEngine` shows it to be.

**Abstractions of RepositoryWrites.** The contents of a row are a generation
`gen`: the number of changes committed to it, which no code reads. A row is its
version column and whether it is there (a soft delete and a restore are changes
of content). A version held by a caller comes with the generation it read, so
that "the guard passed" and "nothing has changed" are different statements. A
bulk transaction shows nothing before its COMMIT except its row locks (`hit`),
so its changes are applied there; a row that matches and is locked is waited
for, and matched again afterwards, which is what READ COMMITTED does. The
identity of a row (uuid or another `@Unique` selector) is resolved before the
first statement and is a model value. The payloads of the writers in `Paired`
carry the serial id besides, as those of an entity that was read do: then both
are ANDed, and after a miss both are probed, the selector first. A payload that
names one row by its uuid and another by its id is left out, and so is the other
order of the two probes (`matchBy: id` with a uuid in the payload).

**Abstractions of UniqueInserts.** A row is the values of its unique columns,
its version and its soft deletion. A statement keeps of its snapshot the rows
that its search can find; the index decides on what is committed, and makes an
insert wait for the uncommitted rows of others. `Bindable` are the columns whose
attempted value the statement can name (those without a default of the database).
An update identifies its row by values of unique columns that the row had when
it was read and that it does not set (`matchBy`); the columns of the identity
are probed in any order. `overtaken` is a history variable: the writers whose
row was changed or deleted since they read it.

**Abstractions of MigrationEngine.** A patch is its place in the order of file
names, a content is its sha256, a release is a function from patches to
contents. The history variables `ran` and `commits` say which SQL was committed.
Mode and provenance gate are read once per run and are choices of that step. A
lost connection leaves a session that holds the lock until the server ends it.

**Abstractions of Connections.** A session is its owner, its transaction, its
timeout and whether its connection is up; rows are left out. `Dies` stands for
connections that break in a process that survives it: node-postgres emits
`error` on a client that is checked out, and the library installs no listener,
so that takes a consumer that handles uncaught exceptions.

**Abstractions of DalLifecycle.** A step is what runs between two awaits. A pool
is open, ending or ended, and has clients out; of a configuration remain its
url, its schemas and its shared tables. An entity is its table and the schema it
names, or none: then the one of the domain's primary. Tables that the platform
or the configuration of the domain shares are permitted in every schema. The
history variables `gaveUp` and `overlapped` record deadlines and overlapping
resets.

**Abstractions of DeferredCommit.** A row has an id drawn from a sequence, so
that a later row with the same key is another row, and a `link` that a `ref()`
fills. The branches of the statement run one by one, in any order that respects
the references between them, while `OtherWrite` changes rows they have not
written. `Exact` (2^53 in the code) is the limit up to which JSON keeps integers.

**Abstractions of ServiceWrites.** Writes are numbered as they are made, and
audit rows and hooks are the numbers of the writes they tell of, so that the
properties can ask what became of the write. A transaction's rows are kept in
`over` until its COMMIT and lock the row for everybody else.

**Abstractions of PartitionRetention.** A row has a table, a time and a place
(a partition, the default partition, gone); a child is a mark on its row. `spared`
is a history variable: the rows that an executor's purge left alone, and those
that came after it.

**Abstractions of SchemaConvergence.** One table without rows; a column carries
its own `@Index`, `@Unique` and `@ForeignKey`; column names are numbers in the
order of `localeCompare`. A type is a base with a modifier (`numeric` with
`12,4`) and the place it is read from: an entity hands its hint over as the
typname, the catalog has the modifiers in `format_type` only. `Comparable` is what
`comparablePgType` makes of either; the synonyms it folds (`integer` and `int4`)
are one base. Left out are arrays and spatial types, aliases that it does not
fold and the catalog never uses (`decimal`, `int`: they drift like a numeric with
modifiers), columns without a hint, and defaults. `Casts` are the assignment
casts of PostgreSQL; that the types have the operator classes their indexes need,
and that a foreign key's column has the type of its target, is assumed. The
reviewer of a patch may uncomment its renames, and an operator may have a failed
patch tried again or give it up.

## 3. The runs

| Run | Checks | Bounds | Shows |
|---|---|---|---|
| `writes` | `WriteInv`, `ErrorsAreDeserved`, `SuccessIsComplete`, `ImplementsStore`, `NoLostUpdate` | 2 rows (one may be inserted again and changes 4 times, the other 2 times), 2 writers (one gives the id as well), update and hardDelete, answers lost | the version column, the guards and the locks make the table a compare-and-set register, bulk writes included, and where the versions of an identity start again they promise exactly so much less |
| `audit` | `AuditInv`, `AuditIsFaithful` | 1 row that changes 3 times, 2 auditing writers, all kinds | old images read in an earlier statement are the ones replaced |
| `live` | `OperationsEnd` | 2 rows that change 2 times, 2 writers (one gives the id as well), update and hardDelete, repeated rows in a batch | bulk writes that deadlock, miss or repeat rows all end |
| `inserts` | `ConflictsAreDeserved`, `RawErrorsHaveAReason`, `MissesAreDeserved` | 2 writers, 2 unique columns (one of them with a default of the database), 3 rows to write, batches that cross and one that repeats a value, soft and hard deletes in between | what the loser of a race for a unique value is told is deserved, PostgreSQL's own error has a reason that the statement could not see, and an update that misses its row was overtaken, although snapshot, lock and probes are of different moments |
| `connections` | `SessionsAreClean`, `OutcomesAreTrue`, `TransactionsNeverLeak`, `CallsEnd` | 2 callers, 2 connections, all kinds of calls, every fault | the pool gets clean sessions back, outcomes are true, calls end |
| `connections_leak` | `NoConnectionIsLost` (violated) | 2 callers, 2 connections that break at any step, rejected budgets | the finding |
| `lifecycle` | `DalsAreAccountedFor`, `ClosedIsDrained`, `OperationsStayInDomain`, `ResetsEnd` | 3 users, 2 databases, 2 Dals of one connection, entities with and without a schema of their own, a platform table and one that a configuration shares | a Dal is lost only to overlapping resets, closed means drained unless the deadline passed, SQL names what its own Dal or a younger one declares or shares, resets end |
| `deferred` | `HandlesSettle`, `HandlesTellTheTruth`, `AbortsAreDeserved`, `CommitIsSerial` | 2 keys, buffers of 2 operations of every kind, another writer at any moment, every fault, ids beyond the mantissa | one statement with one snapshot is as good as the operations in sequence, or fails, and its handles say what happened |
| `service` | `HooksFollowCommits`, `HistoriesAreUnbroken`, `DuplicatesAreCounted`, `NoCallIsStuck` | 2 callers, 2 rows, every operation, 2 writes, lost audit rows and throwing hooks | hooks hear of committed writes only, the writes that are not undone are an unbroken history of each row, duplicate accounts for each uuid, a call that waits for its own transaction can end |
| `engine` | `RegistryTellsTruth`, `CompleteMeansSettled`, `ImplementsLedger`, `OrderIsKept`, `SettledStays`, `RunsEnd` | 2 runners, 3 patches (one mixed of two segments, one to review, one whose review the caller clears), 3 releases, administrators at any time | one boot at a time, each patch once, registered as what ran, in order, as a ledger kept by one run after the other; the lock is freed |
| `retention` | `OnlyExpiredGo`, `OrphansAreLate`, `RetentionCatchesUp` | 4 tables (one per way the retention is found), 1 row with a child, 2 deliveries, 1 failure, time to 5 | nothing goes that is not expired, a child is orphaned only if something came after the purge, what is expired goes in the end |
| `schema` | `CleanMeansIntended`, `ShippedEntitiesArrive`, `FailuresHaveReasons`, `NothingIsDropped` | a table of 2 columns, up to 3, 10 declarations with 5 types, three of them with modifiers, where nothing is cast to int4 but numeric, 3 edits, 2 patches waiting | a clean check is true but for the length of a varchar, what passed the gate arrives, a patch fails for three reasons only, nothing is dropped for good |

**Why the bounds are enough.** A lost update, a torn bulk write or a false error
takes two writers and, for the torn write, two rows; four changes of a row let it
be inserted, removed, inserted again and changed up to the version of before. A
deadlock takes two bulk writes and two rows. A race for a unique value takes two
writers; two columns let a batch cross another one and the search look at one
and miss the other. Racing boots take two runners; three patches give a
predecessor that fails and a successor that must wait, one of each form; two
contents of a patch give a corrected one. Two connections can both be held by
transactions that wait for a third. Overlapping resets with a getDal in between
take three users and two Dals. Two buffered operations are enough to write one
key twice, to refer to each other, and to run in either order; the proof is for
buffers of any length. Four tables are the four ways to find a retention. A
rename, a redefinition and an addition are three edits of two columns.

The bounds themselves, all in guards: `MaxGen` (changes of each row; `Often` and
`Bound` of the instance give its values), `MaxVer`
(versions), `MaxOps`, `MaxId`, `MaxDals`, `MaxWrites`, `MaxNow`, `MaxFails`,
`MaxEdits`, `MaxColumns`, `MaxPending`. Nothing else is cut off.

**Deadlock** is checked in the runs where somebody can always go on (it says
little there, and blocking is checked as liveness). It is not checked in
`lifecycle`, `deferred`, `service` and `schema`: a bound, a closed process or a
settled transaction ends these.

**Fairness.** `RepositoryWrites`: statements that were sent are answered (weak
fairness of each), a waiter for a row gets it in its turn (strong fairness of
`GuardedWrite` and `VisitRow`, PostgreSQL queues lock waiters), deadlocks are
detected. `MigrationEngine`: statements end (the engine sets
`statement_timeout` and `lock_timeout`), lost sessions are noticed; nobody has
to start a run, and the lock is granted in no order. `Connections`: statements
end, and callbacks and consumers of streams return whatever they do before
(strong fairness of `TxWork`); no queue order of the pool is assumed, so it is
`connectionTimeoutMillis` that ends a wait. `DalLifecycle`: the timer of
`close()` fires and continuations run; nothing says that a call ends.
`PartitionRetention`: the job is delivered again and again and its statements
are answered (weak fairness of `Step`), but the bounded number of failures may
fall anywhere. `NoCallIsStuck` needs no fairness: it says that a step is enabled.

## 4. What is proved

Eight modules of proofs, each for every value of the constants under the named
assumption of its module; what is assumed beyond that is in the statement.

| Module | Theorems | Assumed |
|---|---|---|
| `RepositoryWritesProofs` | `TypeCorrect`, `WriteInvariant`, `NoUpdateIsLost`, `StoreImplemented` (the refinement of `VersionedStore`), `SuccessComplete`, `ErrorsDeserved`, `AuditInvariant`, `AuditFaithful` | `ConstantsOK`; except for `TypeCorrect`, `Disciplined`: a versioned entity, every update with an actor; for `ErrorsDeserved`, no batch lists a row twice |
| `DalProofs` | of `Connections`: `TypeCorrect`, `CleanSessions`, `NoTransactionLeaks`, `TrueOutcomes`, `OnlyBrokenAreLost`, `NothingElseLoses`; of `DalLifecycle`: `DalTypeCorrect`, `SingletonsAccountedFor`, `ClosedDrained`, `DomainKept` | for `TrueOutcomes`, no callback swallows an error; for `OnlyBrokenAreLost`, the server takes every `timeoutMs`; for `NothingElseLoses`, no connection breaks either |
| `MigrationEngineProofs` | `TypeCorrect`, `RegistryTrue`, `CompleteSettled`, `OrderKept`, `SettledKept`, `LedgerImplemented` (the refinement of `PatchLedger`) | |
| `DeferredCommitProofs` | `TypeCorrect`, `AllSettle`, `AbortsDeserved`, `SerialCommits`, `TruthfulHandles` | |
| `ServiceWritesProofs` | `TypeCorrect`, `HooksFollow`, `HistoriesUnbroken`, `DuplicatesCounted`, `CallsKeepShape`, `CallsHaveAWayOn` | finitely many rows |
| `PartitionRetentionProofs` | `TypeCorrect`, `ExpiredOnly`, `LateOrphans` | |
| `UniqueInsertsProofs` | `TypeCorrect`, `AllConflictsDeserved`, `AllRawErrorsReasoned`, `AllMissesDeserved` | each row has a value in some unique group |
| `SchemaConvergenceProofs` | `TypeCorrect`, `CleanIsIntended`, `WhatShipsArrives`, `FailuresAreExplained`, `NothingIsLost` | `NamesAssumption`, `TypesAssumption`, `CastsAssumption`, `ColumnsAssumption`, `BornAssumption`, `BoundsAssumption`: what the constants are |

**RepositoryWrites.** The invariant `WriteInv` has five parts. `IdsAreSerial`:
what a caller has read is either of this row, with its id, or of an earlier row
of that identity (`OfEarlierRow`). `VersionsCount`: the version of a row counts
its changes since its insert, so equal versions under one id are equal contents;
this is where the actor on every update is needed. Together they turn the guard
`ver = expected` into "unchanged since read", but for one case: the identity was
hard-deleted and inserted again, the versions of the new row, which start at 1
again, have come to the one of the old, and the payload has no id that would
tell the two rows apart (`Paired`). `NoLostUpdate`, `ErrorsAreDeserved` and
`VersionedStore` name that case, for the identities of `Reusable` only; with
`Reusable = {}`, which the random uuids of `add()` justify for entities
identified by uuid but not for other `@Unique` columns, it cannot arise.
`HeldRowsAreFresh`: the rows that an open bulk write holds are disjoint from
those of the others and still have the versions its caller read, because whoever
would change them waits; so at COMMIT the guard that was evaluated long before
still holds. `FailuresHaveReasons`: between the write that missed and the probes
that explain it, which are up to three statements, the reason cannot go away, as
generations only grow: who is at the probe of a field has lost the row (`Gone`),
and if one is found then it is another (`Replaced`). `OperationsAreFormed` says
what an operation under way looks like. Each action of `VersionedStore` is then
matched by exactly one action of `RepositoryWrites` (`Find`, `Add`,
`GuardedWrite`, `CommitMany`); all others stutter. For the audit trail,
`AuditInv` bounds an old image between what the caller read and what is there,
so a guarded write that passes leaves it no choice.

**Connections.** `IInv` adds to the types what a call of each kind can be doing
(`KindsInv`), who owns a session (`OwnersInv`: the owner is a caller that has it,
or it is lost), and what a session carries at each step of its owner
(`CleanInv`); cleanliness of the free sessions alone is not inductive, because a
session becomes free in whatever state its owner left it. `TrueOutcomes` needs
two more invariants, about what an open call has committed and about failed
transactions. Run `connections_leak` refutes `NoConnectionIsLost`; the last two
theorems say how far it is from true. With `LossInv` (a call has one connection
at a time, a lost one is broken, and none breaks unless they may) every error
that is thrown past a `release()` comes from a broken connection or from a budget
that the server rejects; without these two `NoConnectionIsLost` is a theorem.

**MigrationEngine.** At most the holder of the advisory lock is past
`AcquireAdvisoryLock` (`LockInv`), so only one run has invariants to keep. They
say what its copy of the registry still knows (`KnownAt`: it differs from the
registry only by what administrators did), what a failure leaves (`FailedAt`),
how much of a patch of several segments is committed (`SegmentsAt`), and that
everything before the cursor is settled (`PassedAt`).
`LedgerImplemented` adds `ShipInv` (what runs, fails or stands in the registry
was shipped by some release). Each step of the loop that writes is then the
`Apply`, `Advance`, `Register` or `Stop` of one patch whose turn it is in the
registry of that moment (`TurnShown`), although the run looks at a copy; a lost
answer ends the run of the ledger with that step, a lost connection between two
statements is its `End`, and all that happens outside the loop stutters, the
prefetch excepted, which is `Begin`.

**DalLifecycle.** `PoolInv` ties the state of a pool to the clients that are out
and to the close that awaits it; `ResetInv` says that, unless two resets overlap,
the Dal under reset is the singleton. `DomainInv`: the domain is that of the
youngest Dal.

**DeferredCommit.** `RunInv` holds while the statement runs: each branch is
still to run or has done, on the row of the snapshot, what its operation says
(`BranchInv`), and with no ignore-mode add beside another write of its key
(`Separate`) each key has at most one branch that wrote. At COMMIT these are the
operations one after the other. `TruthInv` adds that the handles stay pending
until `commit()` is over and that a finder that must find has found; rounding
changes only odd numbers beyond `Exact`, which is even.

**ServiceWrites.** A call keeps numbers of committed writes only; a duplicate
has handled, or has still to do, each uuid exactly once (`CallInv`, a sum of
cardinalities). For the histories, `Hist(k)` says that the writes of row `k` that
stand are numbered one after the other (`Chain`), that the last committed one left
the row as it is (`Top`), and that open ones belong to one transaction, come after
all committed ones and end with what it has in `over` (`Owned`); a rollback takes
the end of the chain away, a COMMIT makes it the row's. With two writes TLC does
not see a write between an undone one and a later one; the theorem covers any
number. `NoCallIsStuck` speaks of `ENABLED`, which the prover does not know;
`CallsHaveAWayOn` says the same by naming a successor: `GoesOn(c)` is the value of
all variables after the next step of `c`, and going there is a `Step(c)` in every
state of the invariant. It needs `ShapeInv` (a single-row operation keeps its row
until its hook runs, a bulk operation has no hook), which `CallsKeepShape` proves.

**PartitionRetention.** A retention that an executor applies is the one of its
table (`AppliedInv`); a row that has a child after the purge of its table was
spared by it (`PurgedInv`). That a partition expired as a whole holds expired
rows only is arithmetic, for partitions of any width.

**UniqueInserts.** `OpInv` says what each statement knows of the operation it
belongs to, and that once the search of a batch was clean its snapshot holds no
row that it could name. `FreshInv`: the rows of an open transaction are those of
its first items. A new one is never among them, because it would have clashed
with itself, so their number is the position in the batch; a 23505 for a value
that the batch repeats then has two different items to blame. `LostInv` follows
the row that an update has read: it is in the table, and in the snapshot of the
statement, or its writer has been overtaken (`Notice`: no step takes it away
otherwise), so a statement that misses it in either place blames someone.

**SchemaConvergence.** A run is a fold over a sequence of statements. The
library's induction theorems cannot be applied here, so `NatSets` derives what
is needed from well-foundedness of `<`, in terms of sets: `Iterated` (a function
defined by such a fold exists), `Reach` and `Phase` (a family of sets, one for
each position, that every statement respects holds the result). `Listed` lists a
finite set, `EarlierOrder` and `GreedyExists` show that the greedy choice of
renames exists and is unique in effect, `PatchParts` says what a patch consists
of. On this rest the theorems: `FailuresAreExplained` follows a fresh patch
through its sections (`SafeStage`, `IndexStage`, `RenameStage`, `ReviewStage`):
each leaves the table in a state in which the next can only fail for a listed
reason; `CastStage` adds that a refused new type is one to which the type of the
compared table is not cast. `FreshPatches` says that only the first pending
patch can be fresh, and that the table is the one it was compared with, or what
a failed run of it left (`Before`). On that it does what it would have done the
first time (`FailedRun`): the sections that are kept only add (`PatchAdds`), and
what is added with IF NOT EXISTS is passed over when it comes again
(`AdditiveRun`, `DoneRun`). `NothingIsLost` holds for stale patches too, so it
uses only the shape of a patch: a `DROP INDEX` is followed by the `CREATE INDEX`
of that name, both in the review section, which is one transaction
(`ReplacesDrops`, `TransactionKeeps`). `WhatShipsArrives` needs `Delivered`:
with nothing pending the table has what the *snapshot* declares (`Has`), with
one patch pending that patch was made for exactly this. A patch that succeeds
brings the types (`Typing`: renames only join types that compare equal, what
differs otherwise is retyped; `Typed` is what this leaves true of a type: it
compares equal to the declared one, or it is that), the indexes unless it drops
one (`Keeping`) and the foreign keys (`Referring`); and a clean gate carries
`Has` over from the snapshot to the entity (`GateTransfers`), because on
declarations the two ways to match an index coincide.

**Only model-checked.** Liveness (`OperationsEnd`, `CallsEnd`, `RunsEnd`,
`ResetsEnd`, `RetentionCatchesUp`) is out of the prover's reach, and so is
`NoCallIsStuck` as it is stated, with `ENABLED`. They hold on the instances of
section 3 under the fairness stated there. Every other property that a passing
run checks is also a theorem; the runs check them all the same, on instances
where each can be seen to fail when the code is changed.

## 5. Findings

**`connections_leak`.** A bulk write whose `BEGIN` fails on a broken connection, or
whose `timeoutMs` the server rejects (above 2^31 - 1, or `Infinity`), never gives
its connection back: `bulkBegin` sends `BEGIN` and `SET LOCAL` before its callers'
`try` (`src/repository/repository.ts` 308-318), against the comment at line 327,
"release stays in the caller's finally". Ten such calls empty a pool of ten. The
other loss that the model has, the restore of the timeout in `withClient`'s finally
on a broken connection (`src/dal/dal.ts` 691), violates the same property; TLC stops
at the first. `NoTransactionLeaks` and `NothingElseLoses` prove that there is no
third.

**Seen while modelling, with no run of their own.** The models contain the
behaviour, or the README says that they leave it out.

*Writes.* An update of a versioned entity without `actor` keeps the version, and
a concurrent writer overwrites it unseen
(`docs/dev-guide/optimistic-lock.mdx:76`; constant `Unstamped` of
`RepositoryWrites`). Without a version column a bulk write succeeds with
`affected < received` (`docs/ai/dal-conventions.md:37-38`; `Versioned`). A batch
that lists a row twice is refused with ERR01 although nobody else wrote. A
hardDelete and a new add of the same identity start its versions at 1 again
(`Reusable`), unless the payload carries the id as well (`Paired`).
`disambiguateZeroRows` probes the fields of an identity that has only one
(`repository.ts` 171-183, without the `conditions.length < 2` of
`assertNoPartialIdentity`, 1066): a row that is inserted between the two
statements makes it report an identity mismatch (ERR10) where the identity
cannot be incoherent, and its comment (151-153) knows ERR01 and ERR03 only.
PostgreSQL's 23505 reaches the caller of `addMany` and `update` for races and
for values repeated within a batch (`RawErrorsHaveAReason` lists the reasons).
`addMany` writes no audit rows and takes the columns of its INSERT from the
first row (`repository.ts:2337`). `clone` takes the first `@Unique` column to be
the uuid. The branch of `update` with unique columns never refers to its `guard`
(`repository.ts:1705-1737`). `src/errors/errors.ts:87-91` says that the library
does not throw `OptimisticLockError`, which the race guards do.

*Connections.* A `transaction` whose callback catches the error of a statement
resolves although everything was rolled back (`docs/dev-guide/connections.mdx:141-142`;
`Swallows`). The bulk writes of a tx-scoped repository connect again and always
fail, against the example at `docs/dev-guide/connections.mdx:185-188`
(`BulkInTransaction`). An example of the same page destructures the result of a
`commit()` that returns nothing.

*Dal.* Of two overlapping `resetDal` calls the later clears a Dal that it never
closed (the `overlapped` of `DalsAreAccountedFor`). `getDal` with the url of the
singleton and other schemas returns the singleton with its own schemas. A new
Dal replaces the schema domain of the process, and with it that of all others.
`DalConfig.repoDecorator` is not copied into the configuration
(`dal/dal.ts:177-188`), so it is never applied. A DomainService keeps the Dal it
was made with, closed or not (`entity/domain-service.ts:49`).

*DeferredTransaction.* Two operations on one row abort, since the second does
not see the first. An add in ignore mode that skips, beside another write of the
same key, is the one case in which a commit need not be any order of its
operations (`Separate`). A bigint beyond 2^53 comes back rounded. `find` returns
the first of several rows, where the repository's `find` throws.

*Migrations.* A run overwrites the decision that an administrator takes while it
is under way (`src/migrations/status.ts:5-7`; `SettledStays` names the case). A
patch approved with one content is applied with another
(`docs/dev-guide/migrations.mdx:29-30`). A patch with `requires-review` that
failed is parked again by the next run, although `retryFailedPatches` announces
a retry.

*Retention.* With a retention in the decorator and a null one in
`part_config`, children are purged and rows are never dropped. The purge works
row by row and the drop partition by partition. The header of
`dal/partition-maintenance.ts` speaks of one transactional unit; the statements
commit one by one. A table whose `run_maintenance` keeps failing starves the
tables after it.

*Schema.* The sections of a patch run in the order safe, concurrent indexes,
review, so an index on a column that the same patch renames fails
(`emit-sql-patch.ts` 236-254, 321), and an ambiguous rename that the reviewer
uncomments as told (line 246) fails because the safe section has added the
column, and so does a change of type that PostgreSQL does not make by itself
(text to int4, on an empty table as well): the ALTER has no USING
(`emit-sql-patch.ts` 256-261) (`FailuresHaveReasons`). The length of a varchar
is no part of the comparison (`schema-type-normalize.ts` 46-48), so a changed
one is seen by neither the gate nor the live check, which says that "no
unapplied entity intent remains" (`src/migrations/drift.ts:27-28`). The hints
`numeric(12,4)` and `char(2)` (`docs/dev-guide/column-types.mdx:38,160`,
`test/type-matrix.test.ts:72,90`) never compare equal to the catalog's `numeric`
and `bpchar` (44, 49, 71): the live check reports them for ever, every `compare`
writes the ALTER anew, and such a column is never taken for a renamed one
(`CleanMeansIntended` and `ShippedEntitiesArrive` say so). The test for "nothing
to do" of `compare` (`cli/primebrick-db.ts` 173-183) ignores redefined indexes
and foreign keys, so a change of these alone never gets a patch, while the gate
turns clean and the live check reports drift for ever. A differing foreign key
is drift, and no patch changes it; foreign keys are matched by name, without
their column. One ambiguity comments out the renames of all tables. An index
that stands in for a declared one can be redefined by the patch that relies on
it, and the nullability of a renamed column takes a second round. A predicate as
the documentation writes it (`where: "deleted_at IS NULL"`) is compared with
PostgreSQL's parenthesised form; operator classes are not printed alike either.
The comment at 254-270 says that nothing which is only in the snapshot may be
tolerated, and only tables are looked at. Adding `@AuditTrail` or
`@PartitionField` to an entity that exists is never noticed.

## 6. Plan

Done: all the modules of section 2 and the proofs of section 4. Left, in the
order of what it would add:

1. `SchemaConvergence` for several tables, with composite indexes, primary keys,
   audit tables and partition wiring.
2. Foreign-key violations (ERR06), unique constraints over several columns, and
   `truncate` in `UniqueInserts`.
3. The engine's own use of a pooled session (its `lock_timeout` and
   `idle_in_transaction_session_timeout` stay behind) as a kind of call of
   `Connections`.

**Not modelled, and why.** SQL text, the query builder and the DSL (wording);
the decorators apart from what they declare of indexes, keys and retention
(static tables); Ed25519 and canonical JSON (cryptography); the printing of the
CLI; type parsers, apart from the rounding of bigints (conversions of values
that no property looks at); pg_partman's background worker; the scanning of
quotes and comments in the SQL splitter (text).
