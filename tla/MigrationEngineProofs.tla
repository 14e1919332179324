----------------------- MODULE MigrationEngineProofs -----------------------
(***************************************************************************)
(* Proofs of the safety properties of MigrationEngine, for every number of *)
(* patches, runners and releases.                                          *)
(***************************************************************************)
EXTENDS MigrationEngine, TLAPS

(***************************************************************************)
(* The inductive invariant                                                 *)
(***************************************************************************)

(* Past its lock, a run holds it. *)
LockInv ==
  \A r \in Runners : pc[r] \in {"mode", "prefetch", "loop", "failed", "unlock"} => lock = r

(* What the prefetched copy says of the patches still to come: it calls all*)
(* that are applied settled, and one that it calls settled is so, with the *)
(* content that the release ships.                                         *)
Known(r, p) ==
  /\ registry[p].status = "applied" => Settled(known[r][p])
  /\ Settled(known[r][p]) =>
       /\ Settled(registry[p])
       /\ files[r][p] # 0 => registry[p].sha = files[r][p]

KnownAt(r) == pc[r] \in {"loop", "failed"} => \A p \in Patches : cur[r] <= p => Known(r, p)

(* A failure is that of a patch which the copy does not call settled. *)
FailedAt(r) == pc[r] = "failed" => cur[r] \in Patches /\ ~Settled(known[r][cur[r]])

(* The loop starts at the first patch, and segments that have run are those*)
(* of the mixed patch at hand.                                             *)
SegmentsAt(r) ==
  /\ pc[r] \in {"idle", "lock", "mode", "prefetch", "failed"} => seg[r] = 0
  /\ pc[r] \in {"idle", "lock", "mode", "prefetch"} => cur[r] = 1
  /\ pc[r] = "loop" /\ seg[r] > 0 =>
       /\ cur[r] \in Mixed /\ files[r][cur[r]] # 0
       /\ files[r][cur[r]] \in ran[cur[r]]
       /\ ~Settled(known[r][cur[r]]) /\ ~NeedsReview(r, cur[r])

(* The patches that a run has passed are settled with its contents. *)
Passed(r, p) == files[r][p] # 0 => Settled(registry[p]) /\ registry[p].sha = files[r][p]

PassedAt(r) ==
  /\ pc[r] \in {"loop", "failed"} => \A p \in Patches : p < cur[r] => Passed(r, p)
  /\ pc[r] = "unlock" /\ outcome[r] = "complete" => \A p \in Patches : Passed(r, p)

RunAt(r) == KnownAt(r) /\ FailedAt(r) /\ SegmentsAt(r) /\ PassedAt(r)

IInv == TypeOK /\ LockInv /\ (\A r \in Runners : RunAt(r)) /\ RegistryTellsTruth

(***************************************************************************)
(* The parts of the steps                                                  *)
(***************************************************************************)

(* Only the run that has the lock has invariants to keep in its steps: the *)
(* others are outside.                                                     *)
LEMMA HolderStep ==
  ASSUME IInv, NEW r \in Runners, lock = r, lock' = r, TypeOK', RunAt(r)', RegistryTellsTruth',
         \A x \in Runners : x # r => pc'[x] = pc[x] /\ seg'[x] = seg[x] /\ cur'[x] = cur[x]
  PROVE  IInv'
<1>1. \A x \in Runners :
        x # r => pc[x] \notin {"mode", "prefetch", "loop", "failed", "unlock"}
  BY DEF IInv, LockInv
<1>2. LockInv'
  BY <1>1 DEF LockInv
<1>3. ASSUME NEW x \in Runners, x # r PROVE RunAt(x)'
  <2>1. pc'[x] = pc[x] /\ pc[x] \notin {"mode", "prefetch", "loop", "failed", "unlock"}
    BY <1>1, <1>3
  <2>2. SegmentsAt(x)'
    BY <1>3, <2>1 DEF SegmentsAt, IInv, RunAt
  <2> QED
    BY <2>1, <2>2 DEF RunAt, KnownAt, FailedAt, PassedAt
<1> QED
  BY <1>2, <1>3 DEF IInv

LEMMA UpsertType ==
  ASSUME TypeOK, NEW r \in Runners, NEW p \in Patches, NEW status \in Statuses,
         files[r] \in [Patches -> Nat], Upsert(r, p, status)
  PROVE  /\ registry' \in Registry
         /\ registry'[p].status = status /\ registry'[p].sha = files[r][p]
         /\ \A q \in Patches : q # p => registry'[q] = registry[q]
<1>1. [status |-> status, sha |-> files[r][p]] \in Row
  BY DEF Row
<1> QED
  BY <1>1 DEF Upsert, TypeOK, Registry

LEMMA FilesType ==
  ASSUME TypeOK, NEW r \in Runners
  PROVE  files[r] \in [Patches -> Nat]
<1>1. Releases \subseteq [Patches -> Nat]
  BY EngineAssumption
<1> QED
  BY <1>1 DEF TypeOK, NoRelease

LEMMA EmptyType == EmptyRegistry \in Registry
<1>1. NoRow \in Row
  BY DEF NoRow, Row, Statuses
<1> QED
  BY <1>1 DEF EmptyRegistry, Registry

(* A patch that the copy does not call settled has not been applied.       *)
LEMMA NotYetApplied ==
  ASSUME IInv, NEW r \in Runners, pc[r] \in {"loop", "failed"}, cur[r] \in Patches,
         ~Settled(known[r][cur[r]])
  PROVE  registry[cur[r]].status # "applied"
BY DEF IInv, RunAt, KnownAt, Known, Patches

(* The row of a patch that has not been applied takes another status.      *)
LEMMA TruthKept ==
  ASSUME IInv, NEW p \in Patches, registry[p].status # "applied",
         registry'[p].status # "applied",
         \A q \in Patches : q # p => registry'[q] = registry[q],
         UNCHANGED <<ran, commits>>
  PROVE  RegistryTellsTruth'
BY EngineAssumption DEF IInv, RegistryTellsTruth

(***************************************************************************)
(* The invariant                                                           *)
(***************************************************************************)

LEMMA IInvInit == Init => IInv
<1> SUFFICES ASSUME Init PROVE IInv
  OBVIOUS
<1>1. TypeOK
  BY EngineAssumption, EmptyType DEF Init, TypeOK, NoRelease
<1>2. LockInv /\ \A r \in Runners : RunAt(r)
  BY DEF Init, LockInv, RunAt, KnownAt, FailedAt, SegmentsAt, PassedAt
<1>3. RegistryTellsTruth
  BY EngineAssumption DEF Init, RegistryTellsTruth, EmptyRegistry, NoRow
<1> QED
  BY <1>1, <1>2, <1>3 DEF IInv

(* Steps without the lock. *)
LEMMA OutsideStep ==
  ASSUME IInv, NEW r \in Runners,
         \/ \E f \in Releases : Start(r, f)
         \/ AcquireAdvisoryLock(r) \/ LockWaitEnds(r)
  PROVE  IInv'
<1>0. TypeOK /\ N \in Nat /\ Segments \in Nat \ {0} /\ NoRunner \notin Runners
      /\ Mixed \subseteq Patches
  BY EngineAssumption DEF IInv
<1>1. pc[r] \in {"idle", "lock"} /\ pc' = [pc EXCEPT ![r] = pc'[r]]
      /\ pc'[r] \in {"idle", "lock", "mode"}
      /\ UNCHANGED <<registry, known, cur, seg, ran, commits>>
  BY <1>0 DEF Start, AcquireAdvisoryLock, LockWaitEnds, TypeOK
<1>2. \A x \in Runners :
        x # r => pc'[x] = pc[x] /\ files'[x] = files[x] /\ outcome'[x] = outcome[x]
  BY <1>0 DEF Start, AcquireAdvisoryLock, LockWaitEnds, TypeOK
<1>3. TypeOK'
  BY <1>0 DEF Start, AcquireAdvisoryLock, LockWaitEnds, TypeOK
<1>4. LockInv'
  BY <1>0 DEF Start, AcquireAdvisoryLock, LockWaitEnds, TypeOK, IInv, LockInv
<1>5. RunAt(r)'
  BY <1>1, <1>0 DEF IInv, TypeOK, RunAt, KnownAt, FailedAt, SegmentsAt, PassedAt
<1>6. ASSUME NEW x \in Runners, x # r PROVE RunAt(x)'
  BY <1>1, <1>2, <1>6
     DEF IInv, RunAt, KnownAt, Known, FailedAt, SegmentsAt, NeedsReview, PassedAt, Passed,
         Settled
<1>7. RegistryTellsTruth'
  BY <1>1 DEF IInv, RegistryTellsTruth
<1> QED
  BY <1>3, <1>4, <1>5, <1>6, <1>7 DEF IInv

(* Steps that only move the run on: it ends, is lost, or goes to its loop. *)
LEMMA EarlyStep ==
  ASSUME IInv, NEW r \in Runners,
         ReadMode(r) \/ ProvenanceGateRefuses(r) \/ ImmutabilityRefuses(r) \/ Prefetch(r)
  PROVE  IInv'
<1>0. TypeOK /\ N \in Nat /\ Segments \in Nat \ {0} /\ NoRunner \notin Runners
      /\ Mixed \subseteq Patches
  BY EngineAssumption DEF IInv
<1>1. /\ pc[r] \in {"mode", "prefetch"} /\ lock = r /\ seg[r] = 0
      /\ UNCHANGED <<registry, lock, files, cur, seg, ran, commits>>
      /\ \A x \in Runners : x # r => pc'[x] = pc[x]
      /\ \/ pc'[r] = "unlock" /\ outcome'[r] # "complete"
         \/ pc'[r] = "prefetch"
         \/ pc'[r] = "loop" /\ known'[r] = registry /\ Immutable(r)
  BY <1>0 DEF ReadMode, ProvenanceGateRefuses, ImmutabilityRefuses, Prefetch, Return, TypeOK,
              IInv, LockInv, RunAt, SegmentsAt
<1>2. TypeOK'
  BY <1>0 DEF ReadMode, ProvenanceGateRefuses, ImmutabilityRefuses, Prefetch, Return, TypeOK
<1>3. cur[r] = 1
  BY <1>1 DEF IInv, RunAt, SegmentsAt
<1>4. SegmentsAt(r)' /\ FailedAt(r)'
  BY <1>1, <1>3 DEF SegmentsAt, FailedAt
<1>5. PassedAt(r)'
  BY <1>0, <1>1, <1>3 DEF PassedAt, Patches
<1>6. KnownAt(r)'
  BY <1>1 DEF KnownAt, Known, Immutable, Settled
<1>7. RegistryTellsTruth'
  BY <1>1 DEF IInv, RegistryTellsTruth
<1> QED
  BY <1>1, <1>2, <1>4, <1>5, <1>6, <1>7, HolderStep DEF RunAt

LEMMA SkipStep ==
  ASSUME IInv, NEW r \in Runners, Skip(r)
  PROVE  IInv'
<1>0. TypeOK /\ N \in Nat /\ Segments \in Nat \ {0} /\ NoRunner \notin Runners
      /\ Mixed \subseteq Patches
  BY EngineAssumption DEF IInv
<1>1. /\ pc[r] = "loop" /\ lock = r /\ cur[r] \in Patches
      /\ files[r][cur[r]] = 0 \/ Settled(known[r][cur[r]])
      /\ cur' = [cur EXCEPT ![r] = cur[r] + 1]
      /\ UNCHANGED <<registry, lock, pc, files, known, seg, outcome, ran, commits>>
  BY DEF Skip, At, IInv, LockInv
<1>2. /\ cur'[r] = cur[r] + 1 /\ cur[r] \in 1 .. N
      /\ \A x \in Runners : x # r => cur'[x] = cur[x]
  BY <1>0, <1>1 DEF TypeOK, Patches
<1>3. TypeOK'
  BY <1>0, <1>1, <1>2 DEF TypeOK
<1>4. seg[r] = 0 \/ ~(seg[r] > 0)
  BY <1>1 DEF IInv, RunAt, SegmentsAt
<1>5. SegmentsAt(r)' /\ FailedAt(r)'
  BY <1>1, <1>4, <1>0 DEF SegmentsAt, FailedAt, IInv, RunAt
<1>6. PassedAt(r)'
  <2>1. \A p \in Patches : p < cur[r] + 1 => p < cur[r] \/ p = cur[r]
    BY <1>2 DEF Patches
  <2>2. Passed(r, cur[r])
    BY <1>1, <1>2 DEF Passed, IInv, RunAt, KnownAt, Known
  <2> QED
    BY <1>1, <1>2, <2>1, <2>2 DEF IInv, RunAt, PassedAt, Passed
<1>7. KnownAt(r)'
  <2>1. \A p \in Patches : cur[r] + 1 <= p => cur[r] <= p
    BY <1>2 DEF Patches
  <2> QED
    BY <1>1, <1>2, <2>1 DEF IInv, RunAt, KnownAt, Known
<1>8. RegistryTellsTruth'
  BY <1>1 DEF IInv, RegistryTellsTruth
<1> QED
  BY <1>1, <1>2, <1>3, <1>5, <1>6, <1>7, <1>8, HolderStep DEF RunAt

LEMMA ParkStep ==
  ASSUME IInv, NEW r \in Runners, NEW ack \in BOOLEAN, Park(r, ack)
  PROVE  IInv'
<1>0. TypeOK /\ N \in Nat /\ Segments \in Nat \ {0} /\ NoRunner \notin Runners
      /\ Mixed \subseteq Patches
  BY EngineAssumption DEF IInv
<1>1. /\ pc[r] = "loop" /\ lock = r /\ cur[r] \in Patches /\ ~Settled(known[r][cur[r]])
      /\ Upsert(r, cur[r], "pending_review") /\ Answered(r, ack, "unlock", "degraded")
      /\ UNCHANGED <<lock, files, known, cur, seg, ran, commits>>
  BY DEF Park, At, IInv, LockInv
<1>2. /\ registry' \in Registry /\ registry'[cur[r]].status = "pending_review"
      /\ \A q \in Patches : q # cur[r] => registry'[q] = registry[q]
  BY <1>0, <1>1, UpsertType, FilesType DEF Statuses
<1>3. TypeOK'
  BY <1>0, <1>1, <1>2 DEF TypeOK, Answered
<1>4. /\ pc'[r] = "lost" \/ (pc'[r] = "unlock" /\ outcome'[r] # "complete")
      /\ \A x \in Runners : x # r => pc'[x] = pc[x]
  BY <1>0, <1>1 DEF TypeOK, Answered
<1>5. RunAt(r)'
  BY <1>4 DEF RunAt, KnownAt, FailedAt, SegmentsAt, PassedAt
<1>6. RegistryTellsTruth'
  BY <1>1, <1>2, NotYetApplied, TruthKept
<1> QED
  BY <1>1, <1>3, <1>4, <1>5, <1>6, HolderStep

LEMMA ApplyStep ==
  ASSUME IInv, NEW r \in Runners, NEW ack \in BOOLEAN, ApplyAtomic(r, ack)
  PROVE  IInv'
<1>0. TypeOK /\ N \in Nat /\ Segments \in Nat \ {0} /\ NoRunner \notin Runners
      /\ Mixed \subseteq Patches
  BY EngineAssumption DEF IInv
<1>1. /\ pc[r] = "loop" /\ lock = r /\ cur[r] \in Patches \ Mixed /\ ~Settled(known[r][cur[r]])
      /\ files[r][cur[r]] # 0 /\ ~NeedsReview(r, cur[r])
      /\ Upsert(r, cur[r], "applied") /\ Answered(r, ack, "loop", outcome[r])
      /\ ran' = [ran EXCEPT ![cur[r]] = @ \cup {files[r][cur[r]]}]
      /\ commits' = [commits EXCEPT ![cur[r]] = @ + 1]
      /\ cur' = [cur EXCEPT ![r] = cur[r] + 1]
      /\ UNCHANGED <<lock, files, known, seg>>
  BY DEF ApplyAtomic, Runs, At, IInv, LockInv
<1>2. /\ registry' \in Registry
      /\ registry'[cur[r]].status = "applied" /\ registry'[cur[r]].sha = files[r][cur[r]]
      /\ \A q \in Patches : q # cur[r] => registry'[q] = registry[q]
  BY <1>0, <1>1, UpsertType, FilesType DEF Statuses
<1>3. files[r][cur[r]] \in Nat
  BY <1>0, <1>1, FilesType
<1>4. TypeOK'
  <2>1. cur' \in [Runners -> 1 .. N + 1]
    BY <1>0, <1>1 DEF TypeOK, Patches
  <2>2. ran' \in [Patches -> SUBSET Nat] /\ commits' \in [Patches -> Nat]
    BY <1>0, <1>1, <1>3 DEF TypeOK
  <2> QED
    BY <1>0, <1>1, <1>2, <2>1, <2>2 DEF TypeOK, Answered
<1>5. /\ pc'[r] \in {"lost", "loop"} /\ cur'[r] = cur[r] + 1 /\ cur[r] \in 1 .. N
      /\ \A x \in Runners :
           x # r => pc'[x] = pc[x] /\ seg'[x] = seg[x] /\ cur'[x] = cur[x]
  BY <1>0, <1>1 DEF TypeOK, Answered, Patches
<1>6. SegmentsAt(r)' /\ FailedAt(r)'
  BY <1>0, <1>1, <1>5 DEF SegmentsAt, FailedAt, IInv, RunAt, TypeOK
<1>7. PassedAt(r)'
  <2>1. \A p \in Patches : p < cur[r] + 1 => p < cur[r] \/ p = cur[r]
    BY <1>5 DEF Patches
  <2>2. \A p \in Patches : p = cur[r] => Passed(r, p)'
    BY <1>1, <1>2 DEF Passed, Settled
  <2>3. \A p \in Patches : p < cur[r] => Passed(r, p)'
    BY <1>1, <1>2, <1>5 DEF IInv, RunAt, PassedAt, Passed
  <2>4. \A p \in Patches : p < cur[r] + 1 => Passed(r, p)'
    BY <1>1, <2>1, <2>2, <2>3
  <2> QED
    BY <1>5, <2>4 DEF PassedAt
<1>8. KnownAt(r)'
  <2>1. \A p \in Patches : cur[r] + 1 <= p => cur[r] <= p /\ p # cur[r]
    BY <1>5 DEF Patches
  <2> QED
    BY <1>1, <1>2, <1>5, <2>1 DEF IInv, RunAt, KnownAt, Known
<1>9. RegistryTellsTruth'
  <2>1. commits[cur[r]] = 0 /\ ran[cur[r]] = {}
    BY <1>1, NotYetApplied DEF IInv, RegistryTellsTruth
  <2>2. /\ commits'[cur[r]] = 1 /\ ran'[cur[r]] = {files[r][cur[r]]}
        /\ \A q \in Patches : q # cur[r] => commits'[q] = commits[q] /\ ran'[q] = ran[q]
    BY <1>0, <1>1, <2>1 DEF TypeOK
  <2>3. \A p \in Patches \ Mixed :
          IF registry'[p].status = "applied"
          THEN commits'[p] = 1 /\ ran'[p] = {registry'[p].sha}
          ELSE commits'[p] = 0 /\ ran'[p] = {}
    <3> SUFFICES ASSUME NEW p \in Patches \ Mixed
                 PROVE  IF registry'[p].status = "applied"
                        THEN commits'[p] = 1 /\ ran'[p] = {registry'[p].sha}
                        ELSE commits'[p] = 0 /\ ran'[p] = {}
      OBVIOUS
    <3>1. CASE p = cur[r]
      BY <1>2, <2>2, <3>1
    <3>2. CASE p # cur[r]
      <4>1. registry'[p] = registry[p] /\ commits'[p] = commits[p] /\ ran'[p] = ran[p]
        BY <1>2, <2>2, <3>2
      <4> QED
        BY <4>1 DEF IInv, RegistryTellsTruth
    <3> QED
      BY <3>1, <3>2
  <2>4. \A p \in Mixed : registry'[p].status = "applied" => registry'[p].sha \in ran'[p]
    BY <1>0, <1>1, <1>2, <2>2 DEF IInv, RegistryTellsTruth
  <2> QED
    BY <2>3, <2>4 DEF RegistryTellsTruth
<1> QED
  BY <1>1, <1>4, <1>5, <1>6, <1>7, <1>8, <1>9, HolderStep DEF RunAt

LEMMA SegmentStep ==
  ASSUME IInv, NEW r \in Runners, NEW ack \in BOOLEAN, RunSegment(r, ack)
  PROVE  IInv'
<1>0. TypeOK /\ N \in Nat /\ Segments \in Nat \ {0} /\ NoRunner \notin Runners
      /\ Mixed \subseteq Patches
  BY EngineAssumption DEF IInv
<1>1. /\ pc[r] = "loop" /\ lock = r /\ cur[r] \in Mixed /\ ~Settled(known[r][cur[r]])
      /\ files[r][cur[r]] # 0 /\ ~NeedsReview(r, cur[r]) /\ seg[r] < Segments
      /\ Answered(r, ack, "loop", outcome[r])
      /\ ran' = [ran EXCEPT ![cur[r]] = @ \cup {files[r][cur[r]]}]
      /\ seg' = [seg EXCEPT ![r] = @ + 1]
      /\ UNCHANGED <<registry, lock, files, known, cur, commits>>
  BY DEF RunSegment, Runs, At, IInv, LockInv
<1>2. files[r][cur[r]] \in Nat
  BY <1>0, <1>1, FilesType
<1>3. TypeOK'
  BY <1>0, <1>1, <1>2 DEF TypeOK, Answered
<1>4. /\ pc'[r] \in {"lost", "loop"}
      /\ \A x \in Runners : x # r => pc'[x] = pc[x] /\ seg'[x] = seg[x]
      /\ files[r][cur[r]] \in ran'[cur[r]] /\ \A q \in Patches : ran[q] \subseteq ran'[q]
      /\ \A q \in Patches : q # cur[r] => ran'[q] = ran[q]
  BY <1>0, <1>1 DEF TypeOK, Answered
<1>5. SegmentsAt(r)' /\ FailedAt(r)'
  BY <1>1, <1>4 DEF SegmentsAt, FailedAt, NeedsReview
<1>6. PassedAt(r)'
  BY <1>1, <1>4 DEF IInv, RunAt, PassedAt, Passed
<1>7. KnownAt(r)'
  BY <1>1, <1>4 DEF IInv, RunAt, KnownAt, Known
<1>8. RegistryTellsTruth'
  BY <1>0, <1>1, <1>4 DEF IInv, RegistryTellsTruth
<1> QED
  BY <1>1, <1>3, <1>4, <1>5, <1>6, <1>7, <1>8, HolderStep DEF RunAt

LEMMA MixedStep ==
  ASSUME IInv, NEW r \in Runners, NEW ack \in BOOLEAN, MarkMixed(r, ack)
  PROVE  IInv'
<1>0. TypeOK /\ N \in Nat /\ Segments \in Nat \ {0} /\ NoRunner \notin Runners
      /\ Mixed \subseteq Patches
  BY EngineAssumption DEF IInv
<1>1. /\ pc[r] = "loop" /\ lock = r /\ cur[r] \in Mixed /\ ~Settled(known[r][cur[r]])
      /\ files[r][cur[r]] # 0 /\ seg[r] = Segments
      /\ Upsert(r, cur[r], "applied") /\ Answered(r, ack, "loop", outcome[r])
      /\ cur' = [cur EXCEPT ![r] = cur[r] + 1] /\ seg' = [seg EXCEPT ![r] = 0]
      /\ UNCHANGED <<lock, files, known, ran, commits>>
  BY DEF MarkMixed, Runs, At, IInv, LockInv
<1>2. /\ registry' \in Registry
      /\ registry'[cur[r]].status = "applied" /\ registry'[cur[r]].sha = files[r][cur[r]]
      /\ \A q \in Patches : q # cur[r] => registry'[q] = registry[q]
  BY <1>0, <1>1, UpsertType, FilesType DEF Statuses
<1>3. files[r][cur[r]] \in ran[cur[r]]
  BY <1>0, <1>1 DEF IInv, RunAt, SegmentsAt
<1>4. TypeOK'
  BY <1>0, <1>1, <1>2 DEF TypeOK, Answered, Patches
<1>5. /\ pc'[r] \in {"lost", "loop"} /\ cur'[r] = cur[r] + 1 /\ cur[r] \in 1 .. N
      /\ \A x \in Runners :
           x # r => pc'[x] = pc[x] /\ seg'[x] = seg[x] /\ cur'[x] = cur[x]
  BY <1>0, <1>1 DEF TypeOK, Answered, Patches
<1>6. SegmentsAt(r)' /\ FailedAt(r)'
  BY <1>0, <1>1, <1>5 DEF SegmentsAt, FailedAt, IInv, RunAt, TypeOK
<1>7. PassedAt(r)'
  <2>1. \A p \in Patches : p < cur[r] + 1 => p < cur[r] \/ p = cur[r]
    BY <1>5 DEF Patches
  <2>2. \A p \in Patches : p = cur[r] => Passed(r, p)'
    BY <1>1, <1>2 DEF Passed, Settled
  <2>3. \A p \in Patches : p < cur[r] => Passed(r, p)'
    BY <1>1, <1>2, <1>5 DEF IInv, RunAt, PassedAt, Passed
  <2>4. \A p \in Patches : p < cur[r] + 1 => Passed(r, p)'
    BY <1>1, <2>1, <2>2, <2>3
  <2> QED
    BY <1>5, <2>4 DEF PassedAt
<1>8. KnownAt(r)'
  <2>1. \A p \in Patches : cur[r] + 1 <= p => cur[r] <= p /\ p # cur[r]
    BY <1>5 DEF Patches
  <2> QED
    BY <1>1, <1>2, <1>5, <2>1 DEF IInv, RunAt, KnownAt, Known
<1>9. RegistryTellsTruth'
  BY <1>0, <1>1, <1>2, <1>3 DEF IInv, RegistryTellsTruth
<1> QED
  BY <1>1, <1>4, <1>5, <1>6, <1>7, <1>8, <1>9, HolderStep DEF RunAt

LEMMA FailStep ==
  ASSUME IInv, NEW r \in Runners, StatementFails(r)
  PROVE  IInv'
<1>0. TypeOK /\ N \in Nat /\ Segments \in Nat \ {0} /\ NoRunner \notin Runners
      /\ Mixed \subseteq Patches
  BY EngineAssumption DEF IInv
<1>1. /\ pc[r] = "loop" /\ lock = r /\ cur[r] \in Patches /\ ~Settled(known[r][cur[r]])
      /\ pc' = [pc EXCEPT ![r] = "failed"] /\ seg' = [seg EXCEPT ![r] = 0]
      /\ UNCHANGED <<registry, lock, files, known, cur, outcome, ran, commits>>
  BY DEF StatementFails, Runs, At, IInv, LockInv
<1>2. TypeOK'
  BY <1>0, <1>1 DEF TypeOK
<1>3. /\ pc'[r] = "failed" /\ seg'[r] = 0
      /\ \A x \in Runners : x # r => pc'[x] = pc[x] /\ seg'[x] = seg[x]
  BY <1>0, <1>1 DEF TypeOK
<1>4. RunAt(r)'
  BY <1>1, <1>3 DEF IInv, RunAt, KnownAt, Known, FailedAt, SegmentsAt, PassedAt, Passed
<1>5. RegistryTellsTruth'
  BY <1>1 DEF IInv, RegistryTellsTruth
<1> QED
  BY <1>1, <1>2, <1>3, <1>4, <1>5, HolderStep

LEMMA MarkFailedStep ==
  ASSUME IInv, NEW r \in Runners, NEW ack \in BOOLEAN, MarkFailed(r, ack)
  PROVE  IInv'
<1>0. TypeOK /\ N \in Nat /\ Segments \in Nat \ {0} /\ NoRunner \notin Runners
      /\ Mixed \subseteq Patches
  BY EngineAssumption DEF IInv
<1>1. /\ pc[r] = "failed" /\ lock = r /\ cur[r] \in Patches /\ ~Settled(known[r][cur[r]])
      /\ Upsert(r, cur[r], "failed") /\ Answered(r, ack, "unlock", "degraded")
      /\ UNCHANGED <<lock, files, known, cur, seg, ran, commits>>
  BY DEF MarkFailed, IInv, LockInv, RunAt, FailedAt
<1>2. /\ registry' \in Registry /\ registry'[cur[r]].status = "failed"
      /\ \A q \in Patches : q # cur[r] => registry'[q] = registry[q]
  BY <1>0, <1>1, UpsertType, FilesType DEF Statuses
<1>3. TypeOK'
  BY <1>0, <1>1, <1>2 DEF TypeOK, Answered
<1>4. /\ pc'[r] = "lost" \/ (pc'[r] = "unlock" /\ outcome'[r] # "complete")
      /\ \A x \in Runners : x # r => pc'[x] = pc[x]
  BY <1>0, <1>1 DEF TypeOK, Answered
<1>5. RunAt(r)'
  BY <1>4 DEF RunAt, KnownAt, FailedAt, SegmentsAt, PassedAt
<1>6. RegistryTellsTruth'
  BY <1>1, <1>2, NotYetApplied, TruthKept
<1> QED
  BY <1>1, <1>3, <1>4, <1>5, <1>6, HolderStep

LEMMA EndLoopStep ==
  ASSUME IInv, NEW r \in Runners, EndLoop(r)
  PROVE  IInv'
<1>0. TypeOK /\ N \in Nat /\ Segments \in Nat \ {0} /\ NoRunner \notin Runners
      /\ Mixed \subseteq Patches
  BY EngineAssumption DEF IInv
<1>1. /\ pc[r] = "loop" /\ lock = r /\ cur[r] = N + 1
      /\ Return(r, "complete")
      /\ UNCHANGED <<registry, lock, files, known, cur, seg, ran, commits>>
  BY DEF EndLoop, IInv, LockInv
<1>2. TypeOK'
  BY <1>0, <1>1 DEF TypeOK, Return
<1>3. pc'[r] = "unlock" /\ \A x \in Runners : x # r => pc'[x] = pc[x]
  BY <1>0, <1>1 DEF TypeOK, Return
<1>4. \A p \in Patches : p < N + 1
  BY <1>0 DEF Patches
<1>5. RunAt(r)'
  BY <1>1, <1>3, <1>4
     DEF IInv, RunAt, KnownAt, FailedAt, SegmentsAt, PassedAt, Passed
<1>6. RegistryTellsTruth'
  BY <1>1 DEF IInv, RegistryTellsTruth
<1> QED
  BY <1>1, <1>2, <1>3, <1>5, <1>6, HolderStep

(* The run is over, or its connection is lost.  *)
LEMMA LeaveStep ==
  ASSUME IInv, NEW r \in Runners, Unlock(r) \/ SessionEnds(r) \/ LoseConnection(r)
  PROVE  IInv'
<1>0. TypeOK /\ N \in Nat /\ Segments \in Nat \ {0} /\ NoRunner \notin Runners
      /\ Mixed \subseteq Patches
  BY EngineAssumption DEF IInv
<1>1. /\ pc'[r] \in {"idle", "lost"} /\ (pc'[r] = "idle" => seg'[r] = 0 /\ cur'[r] = 1)
      /\ lock' = lock \/ (lock = r /\ lock' = NoRunner)
      /\ UNCHANGED <<registry, ran, commits>>
      /\ \A x \in Runners : x # r => /\ pc'[x] = pc[x] /\ files'[x] = files[x]
                                     /\ known'[x] = known[x] /\ cur'[x] = cur[x]
                                     /\ seg'[x] = seg[x] /\ outcome'[x] = outcome[x]
  BY <1>0 DEF Unlock, SessionEnds, LoseConnection, Forget, TypeOK
<1>2. TypeOK'
  BY <1>0, EmptyType DEF Unlock, SessionEnds, LoseConnection, Forget, TypeOK
<1>3. LockInv'
  BY <1>1 DEF IInv, LockInv
<1>4. RunAt(r)'
  BY <1>1 DEF RunAt, KnownAt, FailedAt, SegmentsAt, PassedAt
<1>5. ASSUME NEW x \in Runners, x # r PROVE RunAt(x)'
  BY <1>1, <1>5
     DEF IInv, RunAt, KnownAt, Known, FailedAt, SegmentsAt, NeedsReview, PassedAt, Passed
<1>6. RegistryTellsTruth'
  BY <1>1 DEF IInv, RegistryTellsTruth
<1> QED
  BY <1>2, <1>3, <1>4, <1>5, <1>6 DEF IInv

(* An administrator moves rows that are not settled, and none to applied.  *)
LEMMA AdminStep ==
  ASSUME IInv, 
         RetryFailedPatches \/ \E p \in Patches : ApprovePendingReview(p) \/ ResolveManually(p)
  PROVE  IInv'
<1>0. TypeOK /\ N \in Nat /\ Segments \in Nat \ {0} /\ NoRunner \notin Runners
      /\ Mixed \subseteq Patches
  BY EngineAssumption DEF IInv
<1>1. /\ registry' \in Registry
      /\ \A p \in Patches :
           \/ registry'[p] = registry[p]
           \/ ~Settled(registry[p]) /\ registry'[p].status # "applied"
      /\ UNCHANGED <<lock, pc, files, known, cur, seg, outcome, ran, commits>>
  <2>0. registry \in [Patches -> Row]
    BY <1>0 DEF TypeOK, Registry
  <2>1. \A p \in Patches : /\ [registry[p] EXCEPT !.status = "pending"] \in Row
                           /\ [registry[p] EXCEPT !.status = "approved"] \in Row
                           /\ [registry[p] EXCEPT !.status = "resolved_manual"] \in Row
    BY <2>0 DEF Row, Statuses
  <2>2. CASE RetryFailedPatches
    BY <2>0, <2>1, <2>2 DEF RetryFailedPatches, Registry, Row, Settled
  <2>3. ASSUME NEW p \in Patches, ApprovePendingReview(p)
            PROVE  /\ registry' \in Registry
                   /\ \A q \in Patches :
                        \/ registry'[q] = registry[q]
                        \/ ~Settled(registry[q]) /\ registry'[q].status # "applied"
                   /\ UNCHANGED <<lock, pc, files, known, cur, seg, outcome, ran, commits>>
    BY <2>0, <2>1, <2>3 DEF ApprovePendingReview, Registry, Row, Settled
  <2>4. ASSUME NEW p \in Patches, ResolveManually(p)
            PROVE  /\ registry' \in Registry
                   /\ \A q \in Patches :
                        \/ registry'[q] = registry[q]
                        \/ ~Settled(registry[q]) /\ registry'[q].status # "applied"
                   /\ UNCHANGED <<lock, pc, files, known, cur, seg, outcome, ran, commits>>
    BY <2>0, <2>1, <2>4 DEF ResolveManually, Registry, Row, Settled
  <2> QED
    BY <2>2, <2>3, <2>4
<1>2. TypeOK'
  BY <1>0, <1>1 DEF TypeOK
<1>3. LockInv'
  BY <1>1 DEF IInv, LockInv
<1>4. ASSUME NEW r \in Runners PROVE RunAt(r)'
  BY <1>1
     DEF IInv, RunAt, KnownAt, Known, FailedAt, SegmentsAt, NeedsReview, PassedAt, Passed,
         Settled
<1>5. RegistryTellsTruth'
  BY <1>0, <1>1 DEF IInv, RegistryTellsTruth, Settled
<1> QED
  BY <1>2, <1>3, <1>4, <1>5 DEF IInv

LEMMA IInvStep == IInv /\ [Next]_vars => IInv'
<1> SUFFICES ASSUME IInv, [Next]_vars PROVE IInv'
  OBVIOUS
<1>1. ASSUME NEW r \in Runners, (\E f \in Releases : Start(r, f)) \/ Step(r) PROVE IInv'
  BY <1>1, OutsideStep, EarlyStep, SkipStep, ParkStep, ApplyStep, SegmentStep, MixedStep,
     FailStep, MarkFailedStep, EndLoopStep, LeaveStep DEF Step
<1>2. ASSUME NEW r \in Runners, LoseConnection(r) \/ SessionEnds(r) PROVE IInv'
  BY <1>2, LeaveStep
<1>3. CASE \/ RetryFailedPatches
           \/ \E p \in Patches : ApprovePendingReview(p) \/ ResolveManually(p)
  BY <1>3, AdminStep
<1>4. CASE UNCHANGED vars
  BY <1>4
     DEF vars, IInv, TypeOK, LockInv, RunAt, KnownAt, Known, FailedAt, SegmentsAt, NeedsReview,
         PassedAt, Passed, RegistryTellsTruth
<1> QED
  BY <1>1, <1>2, <1>3, <1>4 DEF Next

(***************************************************************************)
(* Theorems                                                                *)
(***************************************************************************)

LEMMA Invariance == Spec => []IInv
BY IInvInit, IInvStep, PTL DEF Spec

(* Every variable keeps its type, whoever boots, fails or interferes.      *)
THEOREM TypeCorrect == Spec => []TypeOK
<1>1. IInv => TypeOK
  BY DEF IInv
<1> QED
  BY <1>1, Invariance, PTL

(* The row of a patch tells which of its SQL the database has, whatever is *)
(* lost and whoever boots with which release (engine.ts 289-306, 385-390). *)
THEOREM RegistryTrue == Spec => []RegistryTellsTruth
<1>1. IInv => RegistryTellsTruth
  BY DEF IInv
<1> QED
  BY <1>1, Invariance, PTL

(* A run that reports success leaves all patches of its release settled    *)
(* with the contents it ships (engine.ts 245-350).                         *)
THEOREM CompleteSettled == Spec => []CompleteMeansSettled
<1>1. IInv => CompleteMeansSettled
  BY DEF IInv, RunAt, PassedAt, Passed, CompleteMeansSettled
<1> QED
  BY <1>1, Invariance, PTL

(* SQL runs in the order of the patches (the loop of engine.ts 245-350).   *)
THEOREM OrderKept == Spec => OrderIsKept
<1>1. ASSUME IInv, [Next]_vars, NEW p \in Patches, ran'[p] # ran[p]
      PROVE  \E r \in Runners :
               /\ cur[r] = p
               /\ \A q \in 1 .. p - 1 : files[r][q] # 0 => Settled(registry[q])
  <2>1. PICK r \in Runners : At(r, p)
    BY <1>1 DEF Next, vars, Start, Step, AcquireAdvisoryLock, LockWaitEnds, ReadMode,
       ProvenanceGateRefuses, ImmutabilityRefuses, Prefetch, Skip, StatementFails, EndLoop,
       Unlock, Forget, Park, ApplyAtomic, RunSegment, MarkMixed, MarkFailed, LoseConnection,
       SessionEnds, RetryFailedPatches, ApprovePendingReview, ResolveManually, Runs, At,
       IInv, TypeOK
  <2>2. \A q \in 1 .. p - 1 : q \in Patches /\ q < p
    BY EngineAssumption DEF Patches
  <2>3. \A q \in Patches : q < p => Passed(r, q)
    BY <1>1, <2>1 DEF At, IInv, RunAt, PassedAt
  <2> QED
    BY <2>1, <2>2, <2>3 DEF At, Passed
<1>2. IInv /\ [Next]_vars =>
        [\A p \in Patches : ran'[p] # ran[p] =>
           \E r \in Runners :
             /\ cur[r] = p
             /\ \A q \in 1 .. p - 1 : files[r][q] # 0 => Settled(registry[q])]_vars
  BY <1>1
<1> QED
  BY <1>2, Invariance, PTL DEF Spec, OrderIsKept

(* A settled row is undone only by the run under way, which read it before *)
(* an administrator resolved it (engine.ts 224; status.ts resolveManually).*)
THEOREM SettledKept == Spec => SettledStays
<1>1. ASSUME IInv, [Next]_vars, NEW p \in Patches, Settled(registry[p])
      PROVE  \/ registry'[p] = registry[p]
             \/ /\ registry[p].status = "resolved_manual"
                /\ \E r \in Runners : lock = r /\ ~Settled(known[r][p])
  <2> SUFFICES ASSUME registry'[p] # registry[p]
               PROVE  /\ registry[p].status = "resolved_manual"
                      /\ \E r \in Runners : lock = r /\ ~Settled(known[r][p])
    OBVIOUS
  <2>1. /\ ~RetryFailedPatches
        /\ \A q \in Patches : ~ApprovePendingReview(q) /\ ~ResolveManually(q)
    BY <1>1
       DEF RetryFailedPatches, ApprovePendingReview, ResolveManually, Settled, IInv, TypeOK,
           Registry
  <2>2. PICK r \in Runners : /\ pc[r] \in {"loop", "failed"} /\ cur[r] = p
                             /\ ~Settled(known[r][p])
    <3>1. PICK r \in Runners, status \in Statuses :
            /\ pc[r] \in {"loop", "failed"} /\ cur[r] \in Patches
            /\ ~Settled(known[r][cur[r]]) /\ Upsert(r, cur[r], status)
      BY <1>1, <2>1 DEF Next, vars, Start, Step, AcquireAdvisoryLock, LockWaitEnds, ReadMode,
         ProvenanceGateRefuses, ImmutabilityRefuses, Prefetch, Skip, StatementFails, EndLoop,
         Unlock, Forget, Park, ApplyAtomic, RunSegment, MarkMixed, MarkFailed, LoseConnection,
         SessionEnds, Runs, At, IInv, RunAt, FailedAt, Statuses
    <3>2. cur[r] = p
      BY <3>1, <1>1 DEF Upsert, IInv, TypeOK, Registry
    <3> QED
      BY <3>1, <3>2
  <2>3. lock = r /\ registry[p].status # "applied"
    BY <1>1, <2>2, NotYetApplied DEF IInv, LockInv
  <2> QED
    BY <1>1, <2>2, <2>3 DEF Settled
<1>2. IInv /\ [Next]_vars =>
        [\A p \in Patches : Settled(registry[p]) =>
           \/ registry'[p] = registry[p]
           \/ /\ registry[p].status = "resolved_manual"
              /\ \E r \in Runners : lock = r /\ ~Settled(known[r][p])]_vars
  BY <1>1
<1> QED
  BY <1>2, Invariance, PTL DEF Spec, SettledStays

(***************************************************************************)
(* The ledger                                                              *)
(***************************************************************************)

(* What runs, fails or is registered was shipped by some release.          *)
ShipInv ==
  /\ \A r \in Runners : pc[r] \in {"prefetch", "loop", "failed"} => files[r] \in Releases
  /\ \A r \in Runners : pc[r] = "failed" => files[r][cur[r]] # 0
  /\ \A p \in Patches : registry[p].status # "none" =>
       \E f \in Releases : f[p] # 0 /\ registry[p].sha = f[p]

LEMMA ShipInit == Init => ShipInv
BY DEF Init, ShipInv, EmptyRegistry, NoRow

(* A row that is written names what the run ships. *)
LEMMA ShipUpsert ==
  ASSUME IInv, ShipInv, NEW r \in Runners, NEW p \in Patches, NEW status \in Statuses,
         Upsert(r, p, status), files[r] \in Releases, files[r][p] # 0,
         files' = files, pc'[r] # "failed",
         \A x \in Runners : x # r => pc'[x] = pc[x] /\ cur'[x] = cur[x]
  PROVE  ShipInv'
<1>1. /\ registry'[p].sha = files[r][p]
      /\ \A q \in Patches : q # p => registry'[q] = registry[q]
  BY UpsertType, FilesType DEF IInv
<1> QED
  BY <1>1 DEF ShipInv

LEMMA ShipStep == IInv /\ ShipInv /\ [Next]_vars => ShipInv'
<1> SUFFICES ASSUME IInv, ShipInv, [Next]_vars PROVE ShipInv'
  OBVIOUS
<1>0. TypeOK
  BY DEF IInv
<1>1. ASSUME NEW r \in Runners,
             \/ \E f \in Releases : Start(r, f)
             \/ LockWaitEnds(r) \/ Unlock(r) \/ SessionEnds(r)
      PROVE  ShipInv'
  <2>1. /\ registry' = registry /\ pc'[r] \in {"lock", "idle"}
        /\ \A x \in Runners :
             x # r => pc'[x] = pc[x] /\ files'[x] = files[x] /\ cur'[x] = cur[x]
    BY <1>0, <1>1 DEF Start, LockWaitEnds, Unlock, SessionEnds, Forget, TypeOK
  <2> QED
    BY <2>1 DEF ShipInv
<1>2. ASSUME NEW r \in Runners,
             \/ AcquireAdvisoryLock(r) \/ ReadMode(r) \/ ProvenanceGateRefuses(r)
             \/ ImmutabilityRefuses(r) \/ Prefetch(r) \/ Skip(r) \/ StatementFails(r)
             \/ EndLoop(r) \/ LoseConnection(r) \/ \E ack \in BOOLEAN : RunSegment(r, ack)
      PROVE  ShipInv'
  <2>1. /\ UNCHANGED <<registry, files>>
        /\ \A x \in Runners : x # r => pc'[x] = pc[x] /\ cur'[x] = cur[x]
    BY <1>0, <1>2 DEF AcquireAdvisoryLock, ReadMode, ProvenanceGateRefuses,
       ImmutabilityRefuses, Prefetch, Skip, StatementFails, EndLoop, LoseConnection, RunSegment,
       Return, Answered, TypeOK
  <2>2. pc'[r] \in {"prefetch", "loop", "failed"} => files[r] \in Releases
    BY <1>0, <1>2 DEF AcquireAdvisoryLock, ReadMode, ProvenanceGateRefuses,
       ImmutabilityRefuses, Prefetch, Skip, StatementFails, EndLoop, LoseConnection, RunSegment,
       Return, Answered, TypeOK, ShipInv, Runs, At
  <2>3. pc'[r] = "failed" => StatementFails(r)
    BY <1>0, <1>2 DEF AcquireAdvisoryLock, ReadMode, ProvenanceGateRefuses,
       ImmutabilityRefuses, Prefetch, Skip, EndLoop, LoseConnection, RunSegment,
       Return, Answered, TypeOK, Runs, At
  <2>4. StatementFails(r) => cur' = cur /\ files[r][cur[r]] # 0
    BY DEF StatementFails, Runs, At
  <2> QED
    BY <2>1, <2>2, <2>3, <2>4 DEF ShipInv
<1>3. ASSUME NEW r \in Runners, NEW ack \in BOOLEAN,
             Park(r, ack) \/ ApplyAtomic(r, ack) \/ MarkMixed(r, ack) \/ MarkFailed(r, ack)
      PROVE  ShipInv'
  <2>1. PICK p \in Patches, status \in {"pending_review", "applied", "failed"} :
          /\ pc[r] \in {"loop", "failed"} /\ cur[r] = p /\ files[r][p] # 0
          /\ Upsert(r, p, status)
    BY <1>3 DEF Park, ApplyAtomic, MarkMixed, MarkFailed, Runs, At, ShipInv, IInv, RunAt,
                FailedAt
  <2>2. /\ files' = files /\ pc'[r] # "failed"
        /\ \A x \in Runners : x # r => pc'[x] = pc[x] /\ cur'[x] = cur[x]
    BY <1>0, <1>3 DEF Park, ApplyAtomic, MarkMixed, MarkFailed, Answered, TypeOK
  <2>3. status \in Statuses /\ files[r] \in Releases
    BY <2>1 DEF Statuses, ShipInv
  <2> QED
    BY <2>1, <2>2, <2>3, ShipUpsert
<1>4. CASE \/ RetryFailedPatches
           \/ \E p \in Patches : ApprovePendingReview(p) \/ ResolveManually(p)
  <2>1. /\ UNCHANGED <<pc, files, cur>>
        /\ \A p \in Patches : registry'[p].sha = registry[p].sha
        /\ \A p \in Patches : registry'[p].status # "none" => registry[p].status # "none"
    <3>0. registry \in [Patches -> Row]
      BY <1>0 DEF TypeOK, Registry
    <3>1. CASE RetryFailedPatches
      BY <3>0, <3>1 DEF RetryFailedPatches, Row
    <3>2. ASSUME NEW p \in Patches, NEW status \in Statuses, registry[p].status # "none",
                 registry' = [registry EXCEPT ![p].status = status]
          PROVE  /\ \A q \in Patches : registry'[q].sha = registry[q].sha
                 /\ \A q \in Patches : registry'[q].status # "none" => registry[q].status # "none"
      BY <3>0, <3>2 DEF Row
    <3>3. CASE \E p \in Patches : ApprovePendingReview(p) \/ ResolveManually(p)
      BY <3>2, <3>3 DEF ApprovePendingReview, ResolveManually, Statuses
    <3>4. UNCHANGED <<pc, files, cur>>
      BY <1>4 DEF RetryFailedPatches, ApprovePendingReview, ResolveManually
    <3> QED
      BY <1>4, <3>1, <3>3, <3>4
  <2> QED
    BY <2>1 DEF ShipInv
<1>5. CASE UNCHANGED vars
  BY <1>5 DEF vars, ShipInv
<1> QED
  BY <1>1, <1>2, <1>3, <1>4, <1>5 DEF Next, Step

(* The ledger of a state: the run past its prefetch, and no other. *)
LEMMA RunShown ==
  ASSUME IInv, NEW r \in Runners, pc[r] \in {"loop", "failed"}
  PROVE  /\ lock = r /\ r # NoRunner
         /\ LedgerRun = [release |-> files[r],
                         todo |-> {p \in Patches : ~Settled(known[r][p])}]
BY EngineAssumption DEF IInv, LockInv, LedgerRun

(* Steps of a run that is not past its prefetch, before and after, do not  *)
(* show.                                                                   *)
LEMMA QuietRun ==
  ASSUME TypeOK, NEW r \in Runners,
         pc[r] \notin {"loop", "failed"}, pc'[r] \notin {"loop", "failed"},
         \A x \in Runners :
           x # r => pc'[x] = pc[x] /\ files'[x] = files[x] /\ known'[x] = known[x],
         lock' = lock \/ {lock, lock'} \subseteq {r, NoRunner}
  PROVE  LedgerRun' = LedgerRun
<1>1. lock \in Runners \cup {NoRunner}
  BY DEF TypeOK
<1>2. CASE lock' = lock /\ lock \notin {r, NoRunner}
  BY <1>1, <1>2 DEF LedgerRun
<1>3. CASE {lock, lock'} \subseteq {r, NoRunner}
  BY <1>3 DEF LedgerRun
<1> QED
  BY <1>1, <1>2, <1>3

(* The steps of the run past its prefetch: it goes on as it was, or is over.*)
LEMMA RunGoesOn ==
  ASSUME IInv, NEW r \in Runners, pc[r] \in {"loop", "failed"},
         UNCHANGED <<lock, files, known>>
  PROVE  /\ pc'[r] \in {"loop", "failed"} => LedgerRun' = LedgerRun
         /\ pc'[r] \notin {"loop", "failed"} => LedgerRun' = Ledger!NoRun
BY RunShown DEF LedgerRun, Ledger!NoRun, NoRelease, Ledger!Patches, Patches

(* A row that is written, in the ledger. *)
LEMMA UpsertShown ==
  ASSUME TypeOK, NEW r \in Runners, NEW p \in Patches, NEW status, Upsert(r, p, status)
  PROVE  /\ status = "applied" =>
              LedgerEntries' =
                [LedgerEntries EXCEPT ![p] = [status |-> "applied", sha |-> files[r][p]]]
         /\ ~Settled([status |-> status, sha |-> files[r][p]]) =>
              LedgerEntries' = [LedgerEntries EXCEPT ![p] = Ledger!Open]
<1>1. registry' = [registry EXCEPT ![p] = [status |-> status, sha |-> files[r][p]]]
  BY DEF Upsert
<1>2. \A q \in Patches :
        registry'[q] = IF q = p THEN [status |-> status, sha |-> files[r][p]] ELSE registry[q]
  BY <1>1 DEF TypeOK, Registry
<1>3. status = "applied" => Settled([status |-> status, sha |-> files[r][p]])
  BY DEF Settled
<1> QED
  BY <1>2, <1>3 DEF LedgerEntries, LedgerEntry, Ledger!Open

(* A patch that a run may work on is one it found open, and its turn.      *)
LEMMA TurnShown ==
  ASSUME IInv, NEW r \in Runners, NEW p \in Patches,
         pc[r] \in {"loop", "failed"}, cur[r] = p, files[r][p] # 0, ~Settled(known[r][p])
  PROVE  /\ p \in LedgerRun.todo /\ LedgerRun.release = files[r]
         /\ Ledger!Turn(p)
         /\ registry[p].status # "applied"
<1>1. p \in LedgerRun.todo /\ LedgerRun.release = files[r]
  BY RunShown
<1>2. registry[p].status # "applied"
  BY NotYetApplied
<1>3. LedgerEntries[p].status # "applied"
  BY <1>2 DEF LedgerEntries, LedgerEntry
<1>4. ASSUME NEW q \in 1 .. p - 1, files[r][q] # 0
      PROVE  Ledger!Stands(files[r], q)
  <2>1. q \in Patches /\ q < p
    BY EngineAssumption DEF Patches
  <2>2. Settled(registry[q]) /\ registry[q].sha = files[r][q]
    BY <1>4, <2>1 DEF IInv, RunAt, PassedAt, Passed
  <2>3. LedgerEntries[q] = registry[q] /\ registry[q].status # "open"
    BY <2>1, <2>2 DEF LedgerEntries, LedgerEntry, Settled
  <2> QED
    BY <2>2, <2>3 DEF Ledger!Stands, Ledger!Open
<1> QED
  BY <1>1, <1>2, <1>3, <1>4 DEF Ledger!Turn

LEMMA LedgerInit == Init => Ledger!Init
BY DEF Init, LedgerEntries, LedgerEntry, LedgerRun, EmptyRegistry, NoRow, Settled, NoRelease,
       Ledger!Init, Ledger!Open, Ledger!NoRun, Ledger!Patches, Patches

(* Steps before the loop and after it do not show, but for the prefetch.   *)
LEMMA LedgerQuiet ==
  ASSUME IInv, NEW r \in Runners,
         \/ \E f \in Releases : Start(r, f)
         \/ AcquireAdvisoryLock(r) \/ LockWaitEnds(r) \/ ReadMode(r)
         \/ ProvenanceGateRefuses(r) \/ ImmutabilityRefuses(r)
         \/ (Prefetch(r) /\ pc'[r] # "loop")
         \/ Unlock(r) \/ SessionEnds(r)
         \/ (LoseConnection(r) /\ pc[r] \notin {"loop", "failed"})
  PROVE  UNCHANGED Ledger!vars
<1>0. TypeOK
  BY DEF IInv
<1>1. /\ UNCHANGED <<registry, ran>>
      /\ pc[r] \notin {"loop", "failed"} /\ pc'[r] \notin {"loop", "failed"}
      /\ \A x \in Runners : x # r => pc'[x] = pc[x] /\ files'[x] = files[x] /\ known'[x] = known[x]
  BY <1>0 DEF Start, AcquireAdvisoryLock, LockWaitEnds, ReadMode, ProvenanceGateRefuses,
     ImmutabilityRefuses, Prefetch, Unlock, SessionEnds, LoseConnection, Forget, Return, TypeOK
<1>2. lock' = lock \/ {lock, lock'} \subseteq {r, NoRunner}
  BY DEF Start, AcquireAdvisoryLock, LockWaitEnds, ReadMode, ProvenanceGateRefuses,
     ImmutabilityRefuses, Prefetch, Unlock, SessionEnds, LoseConnection, Forget, Return
<1>3. LedgerRun' = LedgerRun
  BY <1>0, <1>1, <1>2, QuietRun
<1> QED
  BY <1>1, <1>3 DEF Ledger!vars, LedgerEntries

(* The prefetch begins a run of the ledger. *)
LEMMA LedgerBegins ==
  ASSUME IInv, ShipInv, NEW r \in Runners, Prefetch(r), pc'[r] = "loop"
  PROVE  Ledger!Next
<1>0. TypeOK
  BY DEF IInv
<1>1. /\ pc[r] = "prefetch" /\ lock = r /\ Immutable(r) /\ known'[r] = registry
      /\ UNCHANGED <<registry, lock, files, ran>>
  BY <1>0 DEF Prefetch, Return, IInv, LockInv, TypeOK
<1>2. files[r] \in Releases
  BY <1>1 DEF ShipInv
<1>3. LedgerRun = Ledger!NoRun
  BY <1>1 DEF LedgerRun, Ledger!NoRun, NoRelease, Ledger!Patches, Patches
<1>4. LedgerRun' = [release |-> files[r], todo |-> {p \in Patches : ~Settled(registry[p])}]
  BY <1>1, EngineAssumption DEF LedgerRun
<1>5. \A p \in Patches : /\ LedgerEntries[p] = Ledger!Open <=> ~Settled(registry[p])
                         /\ Settled(registry[p]) => LedgerEntries[p].sha = registry[p].sha
  BY DEF LedgerEntries, LedgerEntry, Ledger!Open, Settled
<1>6. {p \in Patches : ~Settled(registry[p])} = {p \in Ledger!Patches : LedgerEntries[p] = Ledger!Open}
  BY <1>5 DEF Ledger!Patches, Patches
<1>7. \A p \in Ledger!Patches :
        files[r][p] # 0 /\ LedgerEntries[p] # Ledger!Open => Ledger!Stands(files[r], p)
  BY <1>1, <1>5 DEF Immutable, Ledger!Stands, Ledger!Patches, Patches
<1>8. UNCHANGED <<LedgerEntries, ran>>
  BY <1>1 DEF LedgerEntries
<1>9. Ledger!Begin(files[r])
  BY <1>3, <1>4, <1>6, <1>7, <1>8 DEF Ledger!Begin
<1> QED
  BY <1>2, <1>9 DEF Ledger!Next

(* The loop works as the ledger does. *)
LEMMA LedgerWorks ==
  ASSUME IInv, ShipInv, NEW r \in Runners, NEW ack \in BOOLEAN,
         \/ Park(r, ack) \/ ApplyAtomic(r, ack) \/ RunSegment(r, ack) \/ MarkMixed(r, ack)
         \/ MarkFailed(r, ack)
  PROVE  Ledger!Work
<1>0. TypeOK
  BY DEF IInv
<1>1. UNCHANGED <<lock, files, known>>
  BY DEF Park, ApplyAtomic, RunSegment, MarkMixed, MarkFailed
<1>2. PICK p \in Patches :
        /\ pc[r] \in {"loop", "failed"} /\ cur[r] = p
        /\ files[r][p] # 0 /\ ~Settled(known[r][p])
  BY DEF Park, ApplyAtomic, RunSegment, MarkMixed, MarkFailed, Runs, At, ShipInv, IInv, RunAt,
         FailedAt
<1>3. /\ p \in LedgerRun.todo /\ LedgerRun.release = files[r] /\ Ledger!Turn(p)
      /\ registry[p].status # "applied"
  BY <1>2, TurnShown
<1>4. /\ pc'[r] \in {"loop", "failed"} => LedgerRun' = LedgerRun
      /\ pc'[r] \notin {"loop", "failed"} => LedgerRun' = Ledger!NoRun
  BY <1>1, <1>2, RunGoesOn
<1>5. CASE Park(r, ack) \/ MarkFailed(r, ack)
  <2>1. Upsert(r, p, "pending_review") \/ Upsert(r, p, "failed")
    BY <1>2, <1>5 DEF Park, MarkFailed, At
  <2>2. LedgerEntries' = [LedgerEntries EXCEPT ![p] = Ledger!Open]
    BY <1>0, <2>1, UpsertShown DEF Settled
  <2>3. pc'[r] \in {"lost", "unlock"} /\ ran' = ran
    BY <1>0, <1>5 DEF Park, MarkFailed, Answered, TypeOK
  <2>4. Ledger!Stop(p)
    BY <1>4, <2>2, <2>3 DEF Ledger!Stop
  <2> QED
    BY <1>3, <2>4 DEF Ledger!Work
<1>6. CASE ApplyAtomic(r, ack)
  <2>1. /\ p \notin Mixed /\ Upsert(r, p, "applied")
        /\ ran' = [ran EXCEPT ![p] = @ \cup {files[r][p]}]
    BY <1>2, <1>6 DEF ApplyAtomic, Runs, At
  <2>2. ran[p] = {}
    BY <1>3, <2>1 DEF IInv, RegistryTellsTruth
  <2>3. LedgerEntries' = [LedgerEntries EXCEPT ![p] = [status |-> "applied", sha |-> files[r][p]]]
    BY <1>0, <2>1, UpsertShown
  <2>4. Ledger!Execute(p) /\ Ledger!Enter(p)
    BY <1>3, <1>4, <2>1, <2>3 DEF Ledger!Execute, Ledger!Enter
  <2>5. Ledger!Apply(p)
    BY <2>1, <2>2, <2>4 DEF Ledger!Apply
  <2> QED
    BY <1>3, <2>5 DEF Ledger!Work
<1>7. CASE RunSegment(r, ack)
  <2>1. /\ p \in Mixed /\ registry' = registry
        /\ ran' = [ran EXCEPT ![p] = @ \cup {files[r][p]}]
    BY <1>2, <1>7 DEF RunSegment, Runs, At
  <2>2. LedgerEntries' = LedgerEntries
    BY <2>1 DEF LedgerEntries
  <2>3. Ledger!Execute(p)
    BY <1>3, <2>1 DEF Ledger!Execute
  <2>4. Ledger!Advance(p)
    BY <1>4, <2>1, <2>2, <2>3 DEF Ledger!Advance
  <2> QED
    BY <1>3, <2>4 DEF Ledger!Work
<1>8. CASE MarkMixed(r, ack)
  <2>1. /\ p \in Mixed /\ Upsert(r, p, "applied") /\ ran' = ran
        /\ pc[r] = "loop" /\ seg[r] = Segments
    BY <1>2, <1>8 DEF MarkMixed, Runs, At
  <2>2. files[r][p] \in ran[p]
    BY <1>2, <2>1, EngineAssumption DEF IInv, RunAt, SegmentsAt
  <2>3. LedgerEntries' = [LedgerEntries EXCEPT ![p] = [status |-> "applied", sha |-> files[r][p]]]
    BY <1>0, <2>1, UpsertShown
  <2>4. Ledger!Enter(p)
    BY <1>3, <1>4, <2>3 DEF Ledger!Enter
  <2>5. Ledger!Register(p)
    BY <1>3, <2>1, <2>2, <2>4 DEF Ledger!Register
  <2> QED
    BY <1>3, <2>5 DEF Ledger!Work
<1> QED
  BY <1>5, <1>6, <1>7, <1>8

(* The loop moves on, or ends, without a word to the database. *)
LEMMA LedgerEnds ==
  ASSUME IInv, NEW r \in Runners,
         \/ Skip(r) \/ StatementFails(r) \/ EndLoop(r)
         \/ (LoseConnection(r) /\ pc[r] \in {"loop", "failed"})
  PROVE  Ledger!End \/ UNCHANGED Ledger!vars
<1>0. TypeOK
  BY DEF IInv
<1>1. pc[r] \in {"loop", "failed"} /\ UNCHANGED <<registry, lock, files, known, ran>>
  BY DEF Skip, At, StatementFails, Runs, EndLoop, LoseConnection
<1>2. LedgerRun' = LedgerRun \/ LedgerRun' = Ledger!NoRun
  BY <1>1, RunGoesOn
<1> QED
  BY <1>1, <1>2 DEF Ledger!End, Ledger!vars, LedgerEntries

(* Administrators settle by hand what is open, and nothing else shows. *)
LEMMA LedgerAdmin ==
  ASSUME IInv, ShipInv,
         RetryFailedPatches \/ \E p \in Patches : ApprovePendingReview(p) \/ ResolveManually(p)
  PROVE  (\E p \in Ledger!Patches : Ledger!Resolve(p)) \/ UNCHANGED Ledger!vars
<1>0. registry \in [Patches -> Row]
  BY DEF IInv, TypeOK, Registry
<1>1. UNCHANGED <<lock, pc, files, known, ran>>
  BY DEF RetryFailedPatches, ApprovePendingReview, ResolveManually
<1>2. LedgerRun' = LedgerRun
  BY <1>1 DEF LedgerRun
<1>3. CASE RetryFailedPatches \/ \E p \in Patches : ApprovePendingReview(p)
  <2>1. \A q \in Patches :
          \/ registry'[q] = registry[q]
          \/ ~Settled(registry[q]) /\ ~Settled(registry'[q])
    <3>1. CASE RetryFailedPatches
      BY <1>0, <3>1 DEF RetryFailedPatches, Row, Settled
    <3>2. CASE \E p \in Patches : ApprovePendingReview(p)
      BY <1>0, <3>2 DEF ApprovePendingReview, Row, Settled
    <3> QED
      BY <1>3, <3>1, <3>2
  <2>2. LedgerEntries' = LedgerEntries
    BY <2>1 DEF LedgerEntries, LedgerEntry
  <2> QED
    BY <1>1, <1>2, <2>2 DEF Ledger!vars
<1>4. ASSUME NEW p \in Patches, ResolveManually(p) PROVE Ledger!Resolve(p)
  <2>1. PICK f \in Releases : f[p] # 0 /\ registry[p].sha = f[p]
    BY <1>4 DEF ResolveManually, ShipInv
  <2>2. registry' = [registry EXCEPT ![p].status = "resolved_manual"]
    BY <1>4 DEF ResolveManually
  <2>3. registry'[p] = [status |-> "resolved_manual", sha |-> f[p]]
    BY <1>0, <2>1, <2>2 DEF Row
  <2>4. \A q \in Patches : q # p => registry'[q] = registry[q]
    BY <1>0, <2>2
  <2>5. ~Settled(registry[p]) /\ Settled(registry'[p])
    BY <1>4, <2>3 DEF ResolveManually, Settled
  <2>6. LedgerEntries[p] = Ledger!Open
    BY <2>5 DEF LedgerEntries, LedgerEntry, Ledger!Open
  <2>7. LedgerEntries' =
          [LedgerEntries EXCEPT ![p] = [status |-> "resolved_manual", sha |-> f[p]]]
    BY <2>3, <2>4, <2>5 DEF LedgerEntries, LedgerEntry
  <2> QED
    BY <1>1, <1>2, <2>1, <2>6, <2>7 DEF Ledger!Resolve
<1> QED
  BY <1>3, <1>4 DEF Ledger!Patches, Patches

LEMMA LedgerStep == IInv /\ ShipInv /\ [Next]_vars => [Ledger!Next]_(Ledger!vars)
<1> SUFFICES ASSUME IInv, ShipInv, [Next]_vars PROVE Ledger!Next \/ UNCHANGED Ledger!vars
  OBVIOUS
<1>1. ASSUME NEW r \in Runners,
             (\E f \in Releases : Start(r, f)) \/ LoseConnection(r) \/ SessionEnds(r)
      PROVE  Ledger!Next \/ UNCHANGED Ledger!vars
  BY <1>1, LedgerQuiet, LedgerEnds DEF Ledger!Next
<1>2. ASSUME NEW r \in Runners, Step(r) PROVE Ledger!Next \/ UNCHANGED Ledger!vars
  BY <1>2, LedgerQuiet, LedgerBegins, LedgerWorks, LedgerEnds DEF Step, Ledger!Next
<1>3. CASE \/ RetryFailedPatches
           \/ \E p \in Patches : ApprovePendingReview(p) \/ ResolveManually(p)
  BY <1>3, LedgerAdmin DEF Ledger!Next
<1>4. CASE UNCHANGED vars
  BY <1>4 DEF vars, Ledger!vars, LedgerEntries, LedgerRun
<1> QED
  BY <1>1, <1>2, <1>3, <1>4 DEF Next

(* Processes that boot together, with whatever releases, faults and        *)
(* administrators, keep the ledger of one run after the other: the engine  *)
(* (runMigrations, engine.ts 141-365) refines PatchLedger.                 *)
THEOREM LedgerImplemented == Spec => ImplementsLedger
<1>1. Init => IInv /\ ShipInv /\ Ledger!Init
  BY IInvInit, ShipInit, LedgerInit
<1>2. IInv /\ ShipInv /\ [Next]_vars => IInv' /\ ShipInv'
  BY IInvStep, ShipStep
<1> QED
  BY <1>1, <1>2, LedgerStep, PTL DEF Spec, ImplementsLedger, Ledger!Spec
=============================================================================
