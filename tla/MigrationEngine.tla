--------------------------- MODULE MigrationEngine ---------------------------
(***************************************************************************)
(* runMigrations: processes that boot at the same time apply the patches   *)
(* of their own release to one schema, under a PostgreSQL advisory lock,   *)
(* while administrators move rows of the patch registry.                   *)
(*                                                                         *)
(* A patch is a number, its place in the order of file names.  A release   *)
(* says which content of each patch it ships (0: no such file); a content  *)
(* stands for its sha256.  Running the SQL of a patch is recorded in the   *)
(* history variables `ran` and `commits`, which no code can read.          *)
(***************************************************************************)
EXTENDS Naturals, FiniteSets

CONSTANTS
  Runners,     \* processes that call runMigrations
  NoRunner,    \* nobody holds the advisory lock
  N,           \* patches 1 .. N, in the order of their file names
  Releases,    \* what a release ships: functions from patches to contents, 0 if none
  Review,      \* patches with the pragma requires-review
  Cleared,     \* patches that the callers name in opts.approvedReviews
  Mixed,       \* patches of several segments, which commit one after the other
  Segments,    \* segments of a mixed patch
  Racing       \* administrators act while a runner is under way

Patches == 1 .. N

ASSUME EngineAssumption ==
  /\ N \in Nat /\ Segments \in Nat \ {0}
  /\ NoRunner \notin Runners
  /\ Releases \subseteq [Patches -> Nat]
  /\ Review \subseteq Patches /\ Cleared \subseteq Patches /\ Mixed \subseteq Patches
  /\ Racing \in BOOLEAN

VARIABLES
  registry,  \* registry[p]: status and content_sha256 of the row of p
  lock,      \* the session that holds the advisory lock
  pc,        \* pc[r]: the next statement of r's run
  files,     \* files[r]: the release that r runs
  known,     \* known[r]: the registry as r prefetched it
  cur,       \* cur[r]: the patch that r is at
  seg,       \* seg[r]: segments of that patch r has run
  outcome,   \* outcome[r]: what r's last run returned or threw
  ran,       \* ran[p]: contents of p of which some SQL is committed (history)
  commits    \* commits[p]: times the SQL of p, not a mixed patch, was committed (history)

vars == <<registry, lock, pc, files, known, cur, seg, outcome, ran, commits>>

(***************************************************************************)
(* The registry                                                            *)
(***************************************************************************)

(* The statuses of a registry row, and "none" where there is no row. *)
Statuses == {"none", "pending", "pending_review", "approved", "failed", "applied",
             "resolved_manual"}

Row == [status : Statuses, sha : Nat]
NoRow == [status |-> "none", sha |-> 0]

Registry == [Patches -> Row]
EmptyRegistry == [p \in Patches |-> NoRow]
NoRelease == [p \in Patches |-> 0]

(* The engine has nothing more to do with a patch whose row is this. *)
Settled(row) == row.status \in {"applied", "resolved_manual"}

(* MUTANT of Upsert: the content of the first attempt stays in the row. *)
UpsertKeepsSha(r, p, status) ==
  registry' = [registry EXCEPT ![p] =
    [status |-> status, sha |-> IF @.status = "none" THEN files[r][p] ELSE @.sha]]

(* upsertStatus: the row of p takes this status and the content r runs. *)
Upsert(r, p, status) ==
  registry' = [registry EXCEPT ![p] = [status |-> status, sha |-> files[r][p]]]

TypeOK ==
  /\ registry \in Registry
  /\ lock \in Runners \cup {NoRunner}
  /\ pc \in [Runners -> {"idle", "lock", "mode", "prefetch", "loop", "failed", "unlock", "lost"}]
  /\ files \in [Runners -> Releases \cup {NoRelease}]
  /\ known \in [Runners -> Registry]
  /\ cur \in [Runners -> 1 .. N + 1]
  /\ seg \in [Runners -> 0 .. Segments]
  /\ outcome \in [Runners -> {"none", "complete", "degraded", "skipped", "refused", "error"}]
  /\ ran \in [Patches -> SUBSET Nat]
  /\ commits \in [Patches -> Nat]

Init ==
  /\ registry = EmptyRegistry
  /\ lock = NoRunner
  /\ pc = [r \in Runners |-> "idle"]
  /\ files = [r \in Runners |-> NoRelease]
  /\ known = [r \in Runners |-> EmptyRegistry]
  /\ cur = [r \in Runners |-> 1]
  /\ seg = [r \in Runners |-> 0]
  /\ outcome = [r \in Runners |-> "none"]
  /\ ran = [p \in Patches |-> {}]
  /\ commits = [p \in Patches |-> 0]

(***************************************************************************)
(* Steps of a run                                                          *)
(***************************************************************************)

(* r's next statement is `next`, unless the connection was lost with the   *)
(* answer of the last one: then the call rejects, and what is left of the  *)
(* run is its session in the server.                                       *)
Answered(r, ack, next, result) ==
  /\ pc' = [pc EXCEPT ![r] = IF ack THEN next ELSE "lost"]
  /\ outcome' = [outcome EXCEPT ![r] = IF ack THEN result ELSE "error"]

(* The run is over but for the unlock in its `finally`. *)
Return(r, result) ==
  /\ pc' = [pc EXCEPT ![r] = "unlock"]
  /\ outcome' = [outcome EXCEPT ![r] = result]

(* A process with release f calls runMigrations and connects. *)
Start(r, f) ==
  /\ pc[r] = "idle"
  /\ pc' = [pc EXCEPT ![r] = "lock"]
  /\ files' = [files EXCEPT ![r] = f]
  /\ outcome' = [outcome EXCEPT ![r] = "none"]
  /\ UNCHANGED <<registry, lock, known, cur, seg, ran, commits>>

(* MUTANT of AcquireAdvisoryLock: pg_try_advisory_lock's answer is ignored. *)
AcquireAdvisoryLockAlways(r) ==
  /\ pc[r] = "lock"
  /\ lock' = r
  /\ pc' = [pc EXCEPT ![r] = "mode"]
  /\ UNCHANGED <<registry, files, known, cur, seg, outcome, ran, commits>>

(* pg_try_advisory_lock succeeds. *)
AcquireAdvisoryLock(r) ==
  /\ pc[r] = "lock" /\ lock = NoRunner
  /\ lock' = r
  /\ pc' = [pc EXCEPT ![r] = "mode"]
  /\ UNCHANGED <<registry, files, known, cur, seg, outcome, ran, commits>>

(* The wait budget ends with the lock still held: an error, and the client *)
(* goes back to the pool without an unlock.                                *)
LockWaitEnds(r) ==
  /\ pc[r] = "lock" /\ lock # NoRunner
  /\ pc' = [pc EXCEPT ![r] = "idle"]
  /\ outcome' = [outcome EXCEPT ![r] = "error"]
  /\ files' = [files EXCEPT ![r] = NoRelease]
  /\ UNCHANGED <<registry, lock, known, cur, seg, ran, commits>>

(* The registry bootstraps itself and the mode is read: with mode off, or  *)
(* with no files, there is nothing to do.                                  *)
ReadMode(r) ==
  /\ pc[r] = "mode"
  /\ \/ Return(r, "skipped")
     \/ /\ files[r] # NoRelease
        /\ pc' = [pc EXCEPT ![r] = "prefetch"]
        /\ UNCHANGED outcome
  /\ UNCHANGED <<registry, lock, files, known, cur, seg, ran, commits>>

(* The manifest is missing, badly signed, or does not name a file of the   *)
(* release with its content.                                               *)
ProvenanceGateRefuses(r) ==
  /\ pc[r] = "prefetch"
  /\ Return(r, "refused")
  /\ UNCHANGED <<registry, lock, files, known, cur, seg, ran, commits>>

(* MUTANT of Immutable: the immutability check is gone. *)
ImmutableUnchecked(r) == TRUE

(* No settled patch has a content other than the one in its row. *)
Immutable(r) ==
  \A p \in Patches :
    files[r][p] # 0 /\ Settled(registry[p]) => registry[p].sha = files[r][p]

(* A settled patch whose content changed: everything is refused. *)
ImmutabilityRefuses(r) ==
  /\ pc[r] = "prefetch" /\ ~Immutable(r)
  /\ Return(r, "refused")
  /\ UNCHANGED <<registry, lock, files, known, cur, seg, ran, commits>>

(* The registry is read, once; mode check only reports. *)
Prefetch(r) ==
  /\ pc[r] = "prefetch" /\ Immutable(r)
  /\ \/ /\ Return(r, "skipped")
        /\ UNCHANGED known
     \/ /\ pc' = [pc EXCEPT ![r] = "loop"]
        /\ known' = [known EXCEPT ![r] = registry]
        /\ UNCHANGED outcome
  /\ UNCHANGED <<registry, lock, files, cur, seg, ran, commits>>

(* r has come to patch p. *)
At(r, p) == pc[r] = "loop" /\ cur[r] = p /\ p \in Patches

(* The engine passes over a patch that is settled or not in the release. *)
Skip(r) ==
  /\ \E p \in Patches : At(r, p) /\ (files[r][p] = 0 \/ Settled(known[r][p]))
  /\ cur' = [cur EXCEPT ![r] = @ + 1]
  /\ UNCHANGED <<registry, lock, pc, files, known, seg, outcome, ran, commits>>

(* The patch waits for an administrator, as far as r knows. *)
NeedsReview(r, p) == p \in Review \ Cleared /\ known[r][p].status # "approved"

(* r has come to patch p and may run it. *)
Runs(r, p) ==
  /\ At(r, p)
  /\ files[r][p] # 0 /\ ~Settled(known[r][p]) /\ ~NeedsReview(r, p)

(* The patch is parked, and the run ends there. *)
Park(r, ack) ==
  /\ \E p \in Patches :
       /\ At(r, p) /\ files[r][p] # 0 /\ ~Settled(known[r][p]) /\ NeedsReview(r, p)
       /\ Upsert(r, p, "pending_review")
  /\ Answered(r, ack, "unlock", "degraded")
  /\ UNCHANGED <<lock, files, known, cur, seg, ran, commits>>

(* One transaction runs the SQL of a patch and its registry row. *)
ApplyAtomic(r, ack) ==
  /\ \E p \in Patches \ Mixed :
       /\ Runs(r, p)
       /\ Upsert(r, p, "applied")
       /\ ran' = [ran EXCEPT ![p] = @ \cup {files[r][p]}]
       /\ commits' = [commits EXCEPT ![p] = @ + 1]
  /\ cur' = [cur EXCEPT ![r] = @ + 1]
  /\ Answered(r, ack, "loop", outcome[r])
  /\ UNCHANGED <<lock, files, known, seg>>

(* The next segment of a mixed patch commits. *)
RunSegment(r, ack) ==
  /\ seg[r] < Segments
  /\ \E p \in Mixed :
       /\ Runs(r, p)
       /\ ran' = [ran EXCEPT ![p] = @ \cup {files[r][p]}]
  /\ seg' = [seg EXCEPT ![r] = @ + 1]
  /\ Answered(r, ack, "loop", outcome[r])
  /\ UNCHANGED <<registry, lock, files, known, cur, commits>>

(* MUTANT of MarkMixed: the row is written before the segments have run. *)
MarkMixedEarly(r, ack) ==
  /\ \E p \in Mixed : Runs(r, p) /\ Upsert(r, p, "applied")
  /\ cur' = [cur EXCEPT ![r] = @ + 1]
  /\ seg' = [seg EXCEPT ![r] = 0]
  /\ Answered(r, ack, "loop", outcome[r])
  /\ UNCHANGED <<lock, files, known, ran, commits>>

(* After all its segments the mixed patch gets its row, in a transaction of*)
(* its own.                                                                *)
MarkMixed(r, ack) ==
  /\ seg[r] = Segments
  /\ \E p \in Mixed : Runs(r, p) /\ Upsert(r, p, "applied")
  /\ cur' = [cur EXCEPT ![r] = @ + 1]
  /\ seg' = [seg EXCEPT ![r] = 0]
  /\ Answered(r, ack, "loop", outcome[r])
  /\ UNCHANGED <<lock, files, known, ran, commits>>

(* A statement of the patch fails, and its transaction is rolled back. *)
StatementFails(r) ==
  /\ \E p \in Patches : Runs(r, p)
  /\ pc' = [pc EXCEPT ![r] = "failed"]
  /\ seg' = [seg EXCEPT ![r] = 0]
  /\ UNCHANGED <<registry, lock, files, known, cur, outcome, ran, commits>>

(* MUTANT of MarkFailed: the loop goes on with the next patch. *)
MarkFailedAndGoOn(r, ack) ==
  /\ pc[r] = "failed"
  /\ Upsert(r, cur[r], "failed")
  /\ cur' = [cur EXCEPT ![r] = @ + 1]
  /\ Answered(r, ack, "loop", outcome[r])
  /\ UNCHANGED <<lock, files, known, seg, ran, commits>>

(* The failure is recorded outside the patch's transaction; the loop ends. *)
MarkFailed(r, ack) ==
  /\ pc[r] = "failed"
  /\ Upsert(r, cur[r], "failed")
  /\ Answered(r, ack, "unlock", "degraded")
  /\ UNCHANGED <<lock, files, known, cur, seg, ran, commits>>

(* Every patch of the release has been passed. *)
EndLoop(r) ==
  /\ pc[r] = "loop" /\ cur[r] = N + 1
  /\ Return(r, "complete")
  /\ UNCHANGED <<registry, lock, files, known, cur, seg, ran, commits>>

(* r's locals are gone with its call. *)
Forget(r) ==
  /\ pc' = [pc EXCEPT ![r] = "idle"]
  /\ files' = [files EXCEPT ![r] = NoRelease]
  /\ known' = [known EXCEPT ![r] = EmptyRegistry]
  /\ cur' = [cur EXCEPT ![r] = 1]
  /\ seg' = [seg EXCEPT ![r] = 0]
  /\ lock' = IF lock = r THEN NoRunner ELSE lock
  /\ UNCHANGED <<registry, outcome, ran, commits>>

(* MUTANT of Unlock: an early return passes the unlock by. *)
UnlockUnlessSkipped(r) == pc[r] = "unlock" /\ outcome[r] # "skipped" /\ Forget(r)

(* The `finally` unlocks and gives the client back. *)
Unlock(r) == pc[r] = "unlock" /\ Forget(r)

(* The connection, or the process, is lost between two statements; an      *)
(* error of the unlock is swallowed.                                       *)
LoseConnection(r) ==
  /\ pc[r] \notin {"idle", "lost"}
  /\ pc' = [pc EXCEPT ![r] = "lost"]
  /\ outcome' = [outcome EXCEPT ![r] = IF pc[r] = "unlock" THEN @ ELSE "error"]
  /\ UNCHANGED <<registry, lock, files, known, cur, seg, ran, commits>>

(* The server ends the session of a lost connection, and with it the lock. *)
SessionEnds(r) == pc[r] = "lost" /\ Forget(r)

(***************************************************************************)
(* Administrators                                                          *)
(***************************************************************************)

(* Whether administrators act now. *)
AdminActs == Racing \/ \A r \in Runners : pc[r] = "idle"

(* retryFailedPatches: every failed patch is pending. *)
RetryFailedPatches ==
  /\ AdminActs
  /\ registry' = [p \in Patches |-> IF registry[p].status = "failed"
                                    THEN [registry[p] EXCEPT !.status = "pending"]
                                    ELSE registry[p]]
  /\ UNCHANGED <<lock, pc, files, known, cur, seg, outcome, ran, commits>>

(* approvePendingReview *)
ApprovePendingReview(p) ==
  /\ AdminActs
  /\ registry[p].status = "pending_review"
  /\ registry' = [registry EXCEPT ![p].status = "approved"]
  /\ UNCHANGED <<lock, pc, files, known, cur, seg, outcome, ran, commits>>

(* resolveManually *)
ResolveManually(p) ==
  /\ AdminActs
  /\ registry[p].status \in {"failed", "pending", "pending_review"}
  /\ registry' = [registry EXCEPT ![p].status = "resolved_manual"]
  /\ UNCHANGED <<lock, pc, files, known, cur, seg, outcome, ran, commits>>

Step(r) ==
  \/ AcquireAdvisoryLock(r) \/ LockWaitEnds(r)
  \/ ReadMode(r) \/ ProvenanceGateRefuses(r) \/ ImmutabilityRefuses(r) \/ Prefetch(r)
  \/ Skip(r) \/ StatementFails(r) \/ EndLoop(r) \/ Unlock(r)
  \/ \E ack \in BOOLEAN :
       Park(r, ack) \/ ApplyAtomic(r, ack) \/ RunSegment(r, ack) \/ MarkMixed(r, ack)
                    \/ MarkFailed(r, ack)

Next ==
  \/ \E r \in Runners :
       \/ \E f \in Releases : Start(r, f)
       \/ Step(r) \/ LoseConnection(r) \/ SessionEnds(r)
  \/ RetryFailedPatches
  \/ \E p \in Patches : ApprovePendingReview(p) \/ ResolveManually(p)

Spec == Init /\ [][Next]_vars

(* The server answers, a patch comes to an end, lost sessions are noticed. *)
(* Nobody has to start a run, and the lock is granted in no order.         *)
Fairness == \A r \in Runners : WF_vars(Step(r)) /\ WF_vars(SessionEnds(r))

FairSpec == Spec /\ Fairness

(***************************************************************************)
(* Properties                                                              *)
(***************************************************************************)

(* How a ledger shows the registry, and the run that is past its prefetch. *)
LedgerEntry(row) == IF Settled(row) THEN row ELSE [status |-> "open", sha |-> 0]
LedgerEntries == [p \in Patches |-> LedgerEntry(registry[p])]

LedgerRun ==
  IF lock # NoRunner /\ pc[lock] \in {"loop", "failed"}
  THEN [release |-> files[lock], todo |-> {p \in Patches : ~Settled(known[lock][p])}]
  ELSE [release |-> NoRelease, todo |-> {}]

Ledger == INSTANCE PatchLedger WITH entry <- LedgerEntries, run <- LedgerRun

(* However many processes boot and whatever is lost, they work as one run  *)
(* after the other would that saw the registry at every moment: in order,  *)
(* on patches that were open when it began, one transaction at a time (the *)
(* advisory lock, the prefetch and the loop, engine.ts 121-357).           *)
ImplementsLedger == Ledger!Spec

(* Whatever is lost or raced, the SQL of a patch of one transaction is      *)
(* committed with its registry row or not at all, and once; the row of an   *)
(* applied patch names the content that ran (DDL and upsertStatus in the    *)
(* same transaction, engine.ts 289-306; sha follows the file, 385-390).     *)
RegistryTellsTruth ==
  /\ \A p \in Patches \ Mixed :
       IF registry[p].status = "applied"
       THEN commits[p] = 1 /\ ran[p] = {registry[p].sha}
       ELSE commits[p] = 0 /\ ran[p] = {}
  /\ \A p \in Mixed :
       registry[p].status = "applied" => registry[p].sha \in ran[p]

(* The SQL of a patch runs only after every earlier patch of the same       *)
(* release is settled in the registry itself, not only in the prefetched    *)
(* copy (the loop breaks at the first failed or parked patch).              *)
OrderIsKept ==
  [][\A p \in Patches : ran'[p] # ran[p] =>
       \E r \in Runners :
         /\ cur[r] = p
         /\ \A q \in 1 .. p - 1 : files[r][q] # 0 => Settled(registry[q])]_vars

(* An applied patch is never touched again, and a manual resolution is      *)
(* undone only by a run that had already begun when it was made.            *)
SettledStays ==
  [][\A p \in Patches : Settled(registry[p]) =>
       \/ registry'[p] = registry[p]
       \/ /\ registry[p].status = "resolved_manual"
          /\ \E r \in Runners : lock = r /\ ~Settled(known[r][p])]_vars

(* When a run that is not degraded returns, every patch of its release is  *)
(* applied or resolved, and registered with the content that the release   *)
(* ships (runMigrations 245-350: degraded is set at every break).          *)
CompleteMeansSettled ==
  \A r \in Runners : pc[r] = "unlock" /\ outcome[r] = "complete" =>
    \A p \in Patches : files[r][p] # 0 =>
      Settled(registry[p]) /\ registry[p].sha = files[r][p]

(* Every run ends and frees the lock, whoever else is waiting for it (the   *)
(* wait budget, the `finally`, and the end of lost sessions).               *)
RunsEnd == \A r \in Runners : pc[r] # "idle" ~> pc[r] = "idle"
=============================================================================
