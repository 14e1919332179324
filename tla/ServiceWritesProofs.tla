------------------------ MODULE ServiceWritesProofs ------------------------
(***************************************************************************)
(* Proofs about ServiceWrites: any number of callers, rows and writes.     *)
(***************************************************************************)
EXTENDS ServiceWrites, FiniteSetTheorems, TLAPS

(***************************************************************************)
(* The inductive invariant                                                 *)
(***************************************************************************)

Committed(i) == log[i].fate = "committed"

(* A call keeps numbers of committed writes; a duplicate has handled, or   *)
(* has still to do, each uuid once.                                        *)
CallInv(c) ==
  call[c] # NoCall =>
    /\ call[c].made \subseteq DOMAIN log
    /\ \A i \in call[c].made : Committed(i)
    /\ call[c].via => call[c].op \in {"create", "update"}
    /\ call[c].op = "duplicate" =>
         /\ \A i \in call[c].made : log[i].op = "duplicate"
         /\ call[c].bad \cap call[c].todo = {}
         /\ Cardinality(call[c].made) + Cardinality(call[c].bad) + Cardinality(call[c].todo)
              = call[c].asked
         /\ call[c].hook => call[c].todo = {}

IInv == TypeOK /\ HooksFollowCommits /\ \A c \in Callers : CallInv(c)

(***************************************************************************)
(* Types                                                                   *)
(***************************************************************************)

LEMMA RowTypes == NoRow \in Row /\ AsBefore \in Row /\ [ver |-> 1, deleted |-> FALSE] \in Row
BY DEF NoRow, AsBefore, Row

LEMMA LogFacts ==
  ASSUME TypeOK
  PROVE  /\ DOMAIN log = 1 .. Len(log) /\ Len(log) \in Nat /\ Next1 \notin DOMAIN log
         /\ \A i \in DOMAIN log : log[i] \in Write
<1>1. log \in Seq(Write)
  BY DEF TypeOK
<1> QED
  BY <1>1 DEF Next1

LEMMA AfterType ==
  ASSUME NEW op, NEW row \in Row
  PROVE  After(op, row) \in Row
BY RowTypes DEF After, Row

LEMMA CallFields ==
  ASSUME NEW k \in Call
  PROVE  /\ k.op \in Ops /\ k.todo \subseteq Keys /\ k.via \in BOOLEAN /\ k.made \subseteq Nat
         /\ k.bad \subseteq Keys /\ k.asked \in Nat /\ k.hook \in BOOLEAN /\ k # NoCall
<1>1. k.op \in Ops /\ k.todo \subseteq Keys /\ k.via \in BOOLEAN /\ k.made \subseteq Nat
      /\ k.bad \subseteq Keys /\ k.asked \in Nat /\ k.hook \in BOOLEAN
  BY DEF Call
<1>2. "none" \notin Ops /\ NoCall.op = "none"
  BY ServiceAssumption DEF NoCall
<1> QED
  BY <1>1, <1>2

LEMMA GoesType ==
  ASSUME NEW k \in Call, NEW todo \in SUBSET Keys, NEW made \in SUBSET Nat,
         NEW bad \in SUBSET Keys, NEW hook \in BOOLEAN
  PROVE  /\ Goes(k, todo, made, bad, hook) \in Call
         /\ Goes(k, todo, made, bad, hook).op = k.op
         /\ Goes(k, todo, made, bad, hook).via = k.via
         /\ Goes(k, todo, made, bad, hook).asked = k.asked
         /\ Goes(k, todo, made, bad, hook).todo = todo
         /\ Goes(k, todo, made, bad, hook).made = made
         /\ Goes(k, todo, made, bad, hook).bad = bad
         /\ Goes(k, todo, made, bad, hook).hook = hook
BY DEF Goes, Call

(* A write that is logged comes last, with the next number. *)
LEMMA LoggedType ==
  ASSUME TypeOK, NEW c \in Callers, call[c] \in Call, NEW k \in Keys, NEW ver \in Nat,
         NEW fate \in {"open", "committed"}, NEW op \in Ops, log' = Logged(c, op, k, ver, fate)
  PROVE  /\ log' \in Seq(Write) /\ DOMAIN log' = DOMAIN log \cup {Next1}
         /\ \A i \in DOMAIN log : log'[i] = log[i]
         /\ log'[Next1].op = op /\ log'[Next1].fate = fate /\ log'[Next1].via = call[c].via
         /\ log'[Next1].key = k /\ log'[Next1].ver = ver /\ log'[Next1].by = c
<1> DEFINE w == [op |-> op, key |-> k, ver |-> ver, by |-> c, via |-> call[c].via, fate |-> fate]
<1>1. w \in Write
  BY CallFields DEF Write
<1>2. /\ w.op = op /\ w.fate = fate /\ w.via = call[c].via
      /\ w.key = k /\ w.ver = ver /\ w.by = c
  OBVIOUS
<1>3. log \in Seq(Write) /\ log' = Append(log, w)
  BY DEF TypeOK, Logged
<1> HIDE DEF w
<1>4. /\ log' \in Seq(Write) /\ Len(log') = Len(log) + 1 /\ log'[Len(log) + 1] = w
      /\ \A i \in DOMAIN log : log'[i] = log[i]
  BY <1>1, <1>3
<1> QED
  BY <1>2, <1>3, <1>4 DEF Next1

(* The rows of a bulk operation in some order, each once. *)
LEMMA Ordered ==
  ASSUME NEW ks \in SUBSET Keys
  PROVE  /\ Cardinality(ks) \in Nat /\ InOrder(ks) \in [1 .. Cardinality(ks) -> ks]
         /\ \A k \in ks : \E i \in 1 .. Cardinality(ks) : InOrder(ks)[i] = k
         /\ \A i, j \in 1 .. Cardinality(ks) : InOrder(ks)[i] = InOrder(ks)[j] => i = j
<1>1. IsFiniteSet(ks)
  BY ServiceAssumption, FS_Subset
<1>2. Cardinality(ks) \in Nat /\ ExistsBijection(1 .. Cardinality(ks), ks)
  BY <1>1, FS_CardinalityType
<1>3. PICK s \in [1 .. Cardinality(ks) -> ks] : \A k \in ks : \E i \in 1 .. Cardinality(ks) : s[i] = k
  BY <1>2 DEF ExistsBijection, Bijection, Surjection, Injection
<1>4. {s[i] : i \in DOMAIN s} = ks
  BY <1>3
<1> DEFINE n == Cardinality(ks)
           o == InOrder(ks)
<1>5. o \in [1 .. n -> ks] /\ {o[i] : i \in DOMAIN o} = ks
  BY <1>2, <1>4 DEF InOrder
<1> HIDE DEF o
<1>6. \A k \in ks : \E i \in 1 .. n : o[i] = k
  BY <1>5
<1>7. IsFiniteSet(1 .. n) /\ Cardinality(1 .. n) = n
  BY <1>2, FS_Interval
<1>8. o \in Surjection(1 .. n, ks)
  BY <1>5, <1>6 DEF Surjection
<1>9. o \in Injection(1 .. n, ks)
  BY <1>1, <1>7, <1>8, FS_SurjSameCardinalityImpliesInj
<1>10. \A i, j \in 1 .. n : o[i] = o[j] => i = j
  BY <1>9 DEF Injection, IsInjective
<1> QED
  BY <1>2, <1>5, <1>6, <1>10 DEF o

BulkWrite(w, c) ==
  /\ w.fate = "committed" /\ w.op = call[c].op /\ w.key \in call[c].todo
  /\ w.ver = rows[w.key].ver + 1

LEMMA BulkedType ==
  ASSUME TypeOK, NEW c \in Callers, call[c] \in Call, log' = log \o Bulked(c)
  PROVE  /\ log' \in Seq(Write) /\ Len(log') \in Nat /\ Len(log) <= Len(log')
         /\ DOMAIN log' = DOMAIN log \cup (Next1 .. Len(log'))
         /\ \A i \in DOMAIN log : log'[i] = log[i]
         /\ \A i \in Next1 .. Len(log') : BulkWrite(log'[i], c)
         /\ \A i, j \in Next1 .. Len(log') : log'[i].key = log'[j].key => i = j
         /\ \A k \in call[c].todo : \E i \in Next1 .. Len(log') : log'[i].key = k
<1> DEFINE ks == call[c].todo
           n == Cardinality(ks)
           s == InOrder(ks)
<1>1. ks \subseteq Keys /\ call[c].op \in Ops
  BY CallFields
<1>2. /\ n \in Nat /\ s \in [1 .. n -> ks]
      /\ \A k \in ks : \E i \in 1 .. n : s[i] = k
      /\ \A i, j \in 1 .. n : s[i] = s[j] => i = j
  BY <1>1, Ordered
<1> HIDE DEF n, s, ks
<1>3. ASSUME NEW i \in 1 .. n
      PROVE  [op |-> call[c].op, key |-> s[i], ver |-> rows[s[i]].ver + 1,
              by |-> c, via |-> FALSE, fate |-> "committed"] \in Write
  <2>1. s[i] \in Keys
    BY <1>1, <1>2
  <2>2. rows[s[i]] \in Row
    BY <2>1 DEF TypeOK
  <2>3. rows[s[i]].ver + 1 \in Nat
    BY <2>2 DEF Row
  <2> QED
    BY <1>1, <2>1, <2>3 DEF Write
<1>4. Bulked(c) = [i \in 1 .. n |-> [op |-> call[c].op, key |-> s[i], ver |-> rows[s[i]].ver + 1,
                                     by |-> c, via |-> FALSE, fate |-> "committed"]]
  BY <1>2 DEF Bulked, s, ks
<1>5. Bulked(c) \in Seq(Write) /\ Len(Bulked(c)) = n
  BY <1>2, <1>3, <1>4
<1>6. /\ \A i \in 1 .. n : BulkWrite(Bulked(c)[i], c) /\ Bulked(c)[i].key = s[i]
  BY <1>2, <1>4 DEF BulkWrite, ks
<1>7. log \in Seq(Write)
  BY DEF TypeOK
<1> DEFINE b == Bulked(c)
<1>8. b \in Seq(Write) /\ Len(b) = n /\ log' = log \o b
      /\ \A i \in 1 .. n : BulkWrite(b[i], c) /\ b[i].key = s[i]
  BY <1>5, <1>6
<1> HIDE DEF b
<1>9. /\ log' \in Seq(Write) /\ Len(log') = Len(log) + n
      /\ \A i \in 1 .. Len(log) : log'[i] = log[i]
      /\ \A i \in Len(log) + 1 .. Len(log) + n : log'[i] = b[i - Len(log)]
  BY <1>2, <1>7, <1>8
<1>10. \A i \in Len(log) + 1 .. Len(log) + n : i - Len(log) \in 1 .. n
  BY <1>2, <1>7
<1>11. \A i \in Len(log) + 1 .. Len(log) + n :
         BulkWrite(log'[i], c) /\ log'[i].key = s[i - Len(log)]
  BY <1>8, <1>9, <1>10
<1>12. ASSUME NEW i \in Len(log) + 1 .. Len(log) + n, NEW j \in Len(log) + 1 .. Len(log) + n,
              log'[i].key = log'[j].key
       PROVE  i = j
  <2> DEFINE p == i - Len(log)
             q == j - Len(log)
  <2>1. p \in 1 .. n /\ q \in 1 .. n
    BY <1>10, <1>12
  <2>2. log'[i].key = s[p] /\ log'[j].key = s[q]
    BY <1>11, <1>12
  <2>3. Len(log) \in Nat /\ i \in Int /\ j \in Int
    BY <1>2, <1>7
  <2> HIDE DEF p, q
  <2>4. p = q
    BY <1>2, <1>12, <2>1, <2>2
  <2> QED
    BY <2>3, <2>4 DEF p, q
<1>13. ASSUME NEW k \in ks
       PROVE  \E i \in Len(log) + 1 .. Len(log) + n : log'[i].key = k
  <2>1. PICK i \in 1 .. n : s[i] = k
    BY <1>2
  <2>2. Len(log) + i \in Len(log) + 1 .. Len(log) + n /\ (Len(log) + i) - Len(log) = i
    BY <1>2, <1>7
  <2> QED
    BY <1>11, <2>1, <2>2
<1>14. Next1 = Len(log) + 1 /\ Len(log') = Len(log) + n
  BY <1>9 DEF Next1
<1>15. /\ log' \in Seq(Write) /\ Len(log') \in Nat /\ Len(log) <= Len(log')
       /\ DOMAIN log' = DOMAIN log \cup (Next1 .. Len(log'))
       /\ \A i \in DOMAIN log : log'[i] = log[i]
  BY <1>2, <1>7, <1>9, <1>14
<1>16. \A i \in Next1 .. Len(log') : BulkWrite(log'[i], c)
  BY <1>11, <1>14
<1>17. \A i, j \in Next1 .. Len(log') : log'[i].key = log'[j].key => i = j
  BY <1>12, <1>14
<1>18. \A k \in call[c].todo : \E i \in Next1 .. Len(log') : log'[i].key = k
  BY <1>13, <1>14 DEF ks
<1> QED
  BY <1>15, <1>16, <1>17, <1>18

(***************************************************************************)
(* What a step does to the log and to the calls                            *)
(***************************************************************************)

CallType == call \in [Callers -> Call \cup {NoCall}]
MarksType == flight \subseteq DOMAIN log /\ trail \subseteq DOMAIN log /\ fired \subseteq DOMAIN log

(* The writes of before are still there, and those committed remain so. *)
Continues ==
  /\ log' \in Seq(Write) /\ DOMAIN log \subseteq DOMAIN log'
  /\ \A i \in DOMAIN log : /\ log'[i].op = log[i].op /\ log'[i].via = log[i].via
                           /\ log[i].fate = "committed" => log'[i].fate = "committed"

(* The log and its marks are well. *)
Marks == MarksType /\ HooksFollowCommits

LEMMA Quiet ==
  ASSUME IInv, UNCHANGED <<log, flight, trail, fired>>
  PROVE  Continues /\ Marks'
BY DEF IInv, TypeOK, Continues, Marks, MarksType, HooksFollowCommits, Committed

LEMMA CallKept ==
  ASSUME Continues, NEW x \in Callers, CallInv(x), call'[x] = call[x]
  PROVE  CallInv(x)'
BY DEF Continues, CallInv, Committed

LEMMA CallsKept ==
  ASSUME IInv, Continues, UNCHANGED call
  PROVE  CallType' /\ \A x \in Callers : CallInv(x)'
BY CallKept DEF IInv, TypeOK, CallType

LEMMA CallEnds ==
  ASSUME IInv, Continues, NEW c \in Callers, NEW answer \in Answers, Ends(c, answer)
  PROVE  /\ CallType' /\ told' \in [Callers -> Answers]
         /\ \A x \in Callers : CallInv(x)'
<1>1. call \in [Callers -> Call \cup {NoCall}]
  BY DEF IInv, TypeOK
<1>2. call' = [call EXCEPT ![c] = NoCall] /\ told' = [NoNews EXCEPT ![c] = answer]
  BY DEF Ends
<1>3. CallType'
  BY <1>1, <1>2 DEF CallType
<1>4. told' \in [Callers -> Answers]
  BY <1>2 DEF NoNews, Answers
<1>5. ASSUME NEW x \in Callers PROVE CallInv(x)'
  <2>1. CASE x = c
    BY <2>1, <1>1, <1>2 DEF CallInv
  <2>2. CASE x # c
    BY <2>2, <1>1, <1>2, CallKept DEF IInv
  <2> QED
    BY <2>1, <2>2
<1> QED
  BY <1>3, <1>4, <1>5

LEMMA CallGoes ==
  ASSUME IInv, Continues, NEW c \in Callers, call[c] \in Call,
         NEW todo \in SUBSET Keys, NEW made \in SUBSET DOMAIN log', NEW bad \in SUBSET Keys,
         NEW hook \in BOOLEAN, call' = [call EXCEPT ![c] = Goes(call[c], todo, made, bad, hook)],
         \A i \in made : log'[i].fate = "committed",
         call[c].op = "duplicate" =>
           /\ \A i \in made : log'[i].op = "duplicate"
           /\ bad \cap todo = {}
           /\ Cardinality(made) + Cardinality(bad) + Cardinality(todo) = call[c].asked
           /\ hook => todo = {}
  PROVE  CallType' /\ \A x \in Callers : CallInv(x)'
<1> DEFINE k == Goes(call[c], todo, made, bad, hook)
<1>1. call \in [Callers -> Call \cup {NoCall}]
  BY DEF IInv, TypeOK
<1>2. made \subseteq Nat
  BY DEF Continues
<1>3. /\ k \in Call /\ k.op = call[c].op /\ k.asked = call[c].asked /\ k.via = call[c].via
      /\ k.todo = todo /\ k.made = made /\ k.bad = bad /\ k.hook = hook
  BY <1>2, GoesType
<1> HIDE DEF k
<1>4. call' = [call EXCEPT ![c] = k]
  BY DEF k
<1>5. CallType'
  BY <1>1, <1>3, <1>4 DEF CallType
<1>6. ASSUME NEW x \in Callers PROVE CallInv(x)'
  <2>1. CASE x = c
    <3>1. call'[x] = k
      BY <2>1, <1>1, <1>4
    <3>2. call[c].via => call[c].op \in {"create", "update"}
      BY CallFields DEF IInv, CallInv
    <3> QED
      BY <3>1, <3>2, <1>3 DEF CallInv, Committed
  <2>2. CASE x # c
    BY <2>2, <1>1, <1>4, CallKept DEF IInv
  <2> QED
    BY <2>1, <2>2
<1> QED
  BY <1>5, <1>6

LEMMA NoNewsType == NoNews \in [Callers -> Answers]
BY DEF NoNews, Answers

(* The rest of the state has its types. *)
StoreType ==
  /\ rows \in [Keys -> Row]
  /\ tx \in [Callers -> {"none", "open", "failed"}]
  /\ over \in [Callers -> [Keys -> Row]]
  /\ told \in [Callers -> Answers]

LEMMA Together ==
  ASSUME StoreType', CallType', Continues, Marks', \A x \in Callers : CallInv(x)'
  PROVE  IInv'
BY DEF StoreType, CallType, Continues, Marks, MarksType, IInv, TypeOK

(* A single write that is committed, or made in a transaction. *)
LEMMA LogGrows ==
  ASSUME IInv, NEW c \in Callers, call[c] \in Call, NEW k \in Keys, NEW ver \in Nat,
         NEW fate \in {"open", "committed"}, NEW op \in Ops,
         log' = Logged(c, op, k, ver, fate), flight' = flight \cup {Next1},
         UNCHANGED <<trail, fired>>
  PROVE  /\ Continues /\ Marks' /\ DOMAIN log' = DOMAIN log \cup {Next1}
         /\ log'[Next1].op = op /\ log'[Next1].fate = fate
<1>1. /\ log' \in Seq(Write) /\ DOMAIN log' = DOMAIN log \cup {Next1}
      /\ \A i \in DOMAIN log : log'[i] = log[i]
      /\ log'[Next1].op = op /\ log'[Next1].fate = fate /\ log'[Next1].via = call[c].via
  BY LoggedType DEF IInv
<1>2. Continues
  BY <1>1 DEF Continues
<1>3. Marks'
  BY <1>1 DEF Marks, MarksType, IInv, TypeOK, HooksFollowCommits, Committed
<1> QED
  BY <1>1, <1>2, <1>3

(***************************************************************************)
(* Init and the steps                                                      *)
(***************************************************************************)

LEMMA IInvInit == Init => IInv
<1> SUFFICES ASSUME Init PROVE IInv
  OBVIOUS
<1>1. DOMAIN log = {} /\ log \in Seq(Write)
  BY DEF Init
<1>2. NothingOver \in [Keys -> Row]
  BY RowTypes DEF NothingOver
<1>3. rows \in [Keys -> Row]
  BY RowTypes DEF Init
<1>4. TypeOK
  BY <1>1, <1>2, <1>3, NoNewsType DEF Init, TypeOK
<1> QED
  BY <1>1, <1>4 DEF Init, IInv, CallInv, HooksFollowCommits

(* A call that is under way. *)
LEMMA UnderWay ==
  ASSUME IInv, NEW c \in Callers, call[c] # NoCall
  PROVE  /\ call[c] \in Call /\ CallInv(c)
         /\ call[c].op \in Ops /\ call[c].todo \subseteq Keys /\ call[c].via \in BOOLEAN
         /\ call[c].made \subseteq DOMAIN log /\ call[c].bad \subseteq Keys
         /\ call[c].hook \in BOOLEAN
<1>1. call[c] \in Call /\ CallInv(c)
  BY DEF IInv, TypeOK
<1> QED
  BY <1>1, CallFields DEF CallInv

LEMMA SeenType ==
  ASSUME IInv, NEW c \in Callers, NEW k \in Keys
  PROVE  Seen(c, k) \in Row /\ rows[k] \in Row
BY DEF IInv, TypeOK, Seen

LEMMA BeginTxStep ==
  ASSUME IInv, NEW c \in Callers, BeginTx(c)
  PROVE  IInv'
<1>1. Continues /\ Marks'
  BY Quiet DEF BeginTx
<1>2. CallType' /\ \A x \in Callers : CallInv(x)'
  BY <1>1, CallsKept DEF BeginTx
<1>3. StoreType'
  BY NoNewsType DEF BeginTx, IInv, TypeOK, StoreType
<1> QED
  BY <1>1, <1>2, <1>3, Together

LEMMA RequestStep ==
  ASSUME IInv, NEW c \in Callers, NEW op \in Ops, NEW via \in BOOLEAN, NEW todo \in SUBSET Keys,
         NEW vers \in [todo -> Versions(op)], Request(c, op, vers, via)
  PROVE  IInv'
<1> DEFINE k == [op |-> op, vers |-> vers, todo |-> todo, via |-> via, made |-> {}, bad |-> {},
                 asked |-> Cardinality(todo), hook |-> FALSE]
<1>1. Continues /\ Marks'
  BY Quiet DEF Request
<1>2. call' = [call EXCEPT ![c] = k]
  BY DEF Request
<1>3. Cardinality(todo) \in Nat /\ Cardinality({}) = 0
  BY Ordered, FS_EmptySet
<1>4. vers \in [todo -> 0 .. MaxVer]
  BY ServiceAssumption DEF Versions
<1>5. vers \in UNION {[ks -> 0 .. MaxVer] : ks \in SUBSET Keys}
  BY <1>4
<1>6. k \in Call
  BY <1>3, <1>5 DEF Call
<1>7. /\ k.made = {} /\ k.bad = {} /\ k.hook = FALSE /\ k.todo = todo
      /\ k.asked = Cardinality(todo) /\ k.via = via /\ k.op = op
      /\ via => op \in {"create", "update"}
  BY DEF Request
<1> HIDE DEF k
<1>8. call \in [Callers -> Call \cup {NoCall}]
  BY DEF IInv, TypeOK
<1>9. CallType'
  BY <1>2, <1>6, <1>8 DEF CallType
<1>10. ASSUME NEW x \in Callers PROVE CallInv(x)'
  <2>1. CASE x = c
    <3>1. call'[x] = k
      BY <2>1, <1>2, <1>8
    <3> QED
      BY <3>1, <1>3, <1>7 DEF CallInv
  <2>2. CASE x # c
    BY <2>2, <1>1, <1>2, <1>8, CallKept DEF IInv
  <2> QED
    BY <2>1, <2>2
<1>11. StoreType'
  BY NoNewsType DEF Request, IInv, TypeOK, StoreType
<1> QED
  BY <1>1, <1>9, <1>10, <1>11, Together

LEMMA WriteHitsStep ==
  ASSUME IInv, NEW c \in Callers, call[c] # NoCall, NEW k \in Keys, WriteHits(c, k)
  PROVE  IInv'
<1> DEFINE op == call[c].op
           row == After(op, Seen(c, k))
           fate == IF Via(c) THEN "open" ELSE "committed"
<1>1. call[c] \in Call /\ op \in Ops /\ op \in Single /\ call[c].bad \subseteq Keys
      /\ call[c].todo \subseteq Keys /\ call[c].via \in BOOLEAN
  BY UnderWay DEF WriteHits
<1>2. row \in Row /\ row.ver \in Nat
  BY SeenType, AfterType DEF Row
<1>3. /\ log' = Logged(c, op, k, row.ver, fate) /\ flight' = flight \cup {Next1}
      /\ UNCHANGED <<trail, fired, tx>> /\ Returns(c)
      /\ IF Via(c) THEN over' = [over EXCEPT ![c][k] = row] /\ UNCHANGED rows
                   ELSE rows' = [rows EXCEPT ![k] = row] /\ UNCHANGED over
  BY DEF WriteHits
<1>4. op \in Ops /\ op # "duplicate"
  BY <1>1 DEF Single
<1>5. fate \in {"open", "committed"}
  OBVIOUS
<1> HIDE DEF row, op
<1>6. /\ Continues /\ Marks' /\ DOMAIN log' = DOMAIN log \cup {Next1}
      /\ log'[Next1].fate = fate
  BY <1>1, <1>2, <1>3, <1>4, <1>5, LogGrows
<1>7. /\ rows' \in [Keys -> Row] /\ over' \in [Callers -> [Keys -> Row]]
      /\ tx' \in [Callers -> {"none", "open", "failed"}]
  <2>1. /\ rows \in [Keys -> Row] /\ over \in [Callers -> [Keys -> Row]]
        /\ tx \in [Callers -> {"none", "open", "failed"}]
    BY DEF IInv, TypeOK
  <2>2. CASE Via(c)
    <3>1. over' = [over EXCEPT ![c] = [over[c] EXCEPT ![k] = row]]
      BY <1>3, <2>2
    <3>2. [over[c] EXCEPT ![k] = row] \in [Keys -> Row]
      BY <1>2, <2>1
    <3> QED
      BY <1>3, <2>1, <2>2, <3>1, <3>2
  <2>3. CASE ~Via(c)
    <3>1. rows' = [rows EXCEPT ![k] = row] /\ over' = over /\ tx' = tx
      BY <1>3, <2>3
    <3> QED
      BY <1>2, <2>1, <3>1
  <2> QED
    BY <2>2, <2>3
<1>8. CASE call[c].via
  <2>1. Ends(c, "ok")
    BY <1>3, <1>8 DEF Returns
  <2>2. CallType' /\ told' \in [Callers -> Answers] /\ \A x \in Callers : CallInv(x)'
    BY <2>1, <1>6, CallEnds DEF Answers
  <2> QED
    BY <2>2, <1>6, <1>7, Together DEF StoreType
<1>9. CASE ~call[c].via
  <2>1. fate = "committed"
    BY <1>9 DEF Via
  <2>2. call' = [call EXCEPT ![c] = Goes(call[c], call[c].todo, {Next1}, call[c].bad, TRUE)]
        /\ told' = NoNews
    BY <1>3, <1>9 DEF Returns
  <2>3. /\ {Next1} \in SUBSET DOMAIN log' /\ \A i \in {Next1} : log'[i].fate = "committed"
        /\ call[c].op # "duplicate"
    BY <2>1, <1>4, <1>6 DEF op
  <2>4. CallType' /\ \A x \in Callers : CallInv(x)'
    BY <2>2, <2>3, <1>1, <1>6, CallGoes
  <2> QED
    BY <2>2, <2>4, <1>6, <1>7, NoNewsType, Together DEF StoreType
<1> QED
  BY <1>8, <1>9

(* The steps that end a call and leave the log as it is. *)
LEMMA AnswerStep ==
  ASSUME IInv, NEW c \in Callers, NEW answer \in Answers, Ends(c, answer),
         tx' \in [Callers -> {"none", "open", "failed"}],
         UNCHANGED <<rows, over, log, flight, trail, fired>>
  PROVE  IInv'
<1>1. Continues /\ Marks'
  BY Quiet
<1>2. CallType' /\ told' \in [Callers -> Answers] /\ \A x \in Callers : CallInv(x)'
  BY <1>1, CallEnds
<1>3. StoreType'
  BY <1>2 DEF IInv, TypeOK, StoreType
<1> QED
  BY <1>1, <1>2, <1>3, Together

LEMMA MissesStep ==
  ASSUME IInv, NEW c \in Callers, NEW k \in Keys,
         WriteMisses(c, k) \/ TimesOut(c, k) \/ BulkMisses(c)
  PROVE  IInv'
<1>1. tx \in [Callers -> {"none", "open", "failed"}]
  BY DEF IInv, TypeOK
<1>2. "error" \in Answers
  BY DEF Answers
<1>3. CASE WriteMisses(c, k)
  <2>1. tx' \in [Callers -> {"none", "open", "failed"}]
    BY <1>1, <1>3 DEF WriteMisses
  <2> QED
    BY <2>1, <1>2, <1>3, AnswerStep DEF WriteMisses
<1>4. CASE TimesOut(c, k)
  <2>1. tx' \in [Callers -> {"none", "open", "failed"}]
    BY <1>1, <1>4 DEF TimesOut
  <2> QED
    BY <2>1, <1>2, <1>4, AnswerStep DEF TimesOut
<1>5. CASE BulkMisses(c)
  BY <1>1, <1>2, <1>5, AnswerStep DEF BulkMisses
<1> QED
  BY <1>3, <1>4, <1>5

(* The hook is told of the writes of the call, and these are committed. *)
LEMMA HookStep ==
  ASSUME IInv, NEW c \in Callers, HookReturns(c) \/ HookThrows(c)
  PROVE  IInv'
<1>1. PICK answer \in Answers : Ends(c, answer)
  BY DEF HookReturns, HookThrows, Answers
<1>2. /\ call[c] # NoCall /\ fired' = fired \cup call[c].made
      /\ UNCHANGED <<rows, tx, over, log, flight, trail>>
  BY DEF HookReturns, HookThrows
<1>3. call[c].made \subseteq DOMAIN log /\ \A i \in call[c].made : Committed(i)
  BY <1>2, UnderWay DEF CallInv
<1>4. Continues
  BY <1>2 DEF IInv, TypeOK, Continues
<1>5. Marks'
  BY <1>2, <1>3 DEF IInv, TypeOK, Marks, MarksType, HooksFollowCommits, Committed
<1>6. CallType' /\ told' \in [Callers -> Answers] /\ \A x \in Callers : CallInv(x)'
  BY <1>1, <1>4, CallEnds
<1>7. StoreType'
  BY <1>2, <1>6 DEF IInv, TypeOK, StoreType
<1> QED
  BY <1>4, <1>5, <1>6, <1>7, Together

(* The writes of a bulk operation are in the audit table with their rows. *)
LEMMA BulkHitsStep ==
  ASSUME IInv, NEW c \in Callers, call[c] # NoCall, BulkHits(c)
  PROVE  IInv'
<1>1. call[c] \in Call
  BY UnderWay
<1>2. /\ log' = log \o Bulked(c) /\ trail' = trail \cup (Next1 .. Len(log'))
      /\ rows' = [k \in Keys |-> IF k \in call[c].todo THEN After(call[c].op, rows[k]) ELSE rows[k]]
      /\ Ends(c, "ok") /\ UNCHANGED <<tx, over, flight, fired>>
  BY DEF BulkHits
<1>3. /\ log' \in Seq(Write) /\ DOMAIN log' = DOMAIN log \cup (Next1 .. Len(log'))
      /\ \A i \in DOMAIN log : log'[i] = log[i]
      /\ \A i \in Next1 .. Len(log') : log'[i].fate = "committed"
  BY <1>1, <1>2, BulkedType DEF IInv, BulkWrite
<1>4. Continues
  BY <1>3 DEF Continues
<1> DEFINE new == Next1 .. Len(log')
<1>5. /\ DOMAIN log' = DOMAIN log \cup new /\ trail' = trail \cup new
      /\ \A i \in new : log'[i].fate = "committed"
  BY <1>2, <1>3
<1> HIDE DEF new
<1>6. Marks'
  BY <1>2, <1>3, <1>5 DEF Marks, MarksType, IInv, TypeOK, HooksFollowCommits, Committed
<1>7. CallType' /\ told' \in [Callers -> Answers] /\ \A x \in Callers : CallInv(x)'
  BY <1>2, <1>4, CallEnds DEF Answers
<1>8. rows' \in [Keys -> Row]
  BY <1>2, AfterType DEF IInv, TypeOK
<1>9. StoreType'
  BY <1>2, <1>7, <1>8 DEF IInv, TypeOK, StoreType
<1> QED
  BY <1>4, <1>6, <1>7, <1>9, Together

(* The sets that duplicate counts are finite. *)
LEMMA Counted ==
  ASSUME IInv, NEW c \in Callers, call[c] # NoCall
  PROVE  /\ IsFiniteSet(call[c].made) /\ IsFiniteSet(call[c].bad) /\ IsFiniteSet(call[c].todo)
         /\ Cardinality(call[c].made) \in Nat /\ Cardinality(call[c].bad) \in Nat
         /\ Cardinality(call[c].todo) \in Nat
<1>1. /\ call[c].made \subseteq DOMAIN log /\ call[c].bad \subseteq Keys
      /\ call[c].todo \subseteq Keys
  BY UnderWay
<1>2. IsFiniteSet(DOMAIN log)
  <2>1. DOMAIN log = 1 .. Len(log) /\ Len(log) \in Nat
    BY LogFacts DEF IInv
  <2> QED
    BY <2>1, FS_Interval
<1> QED
  BY <1>1, <1>2, ServiceAssumption, FS_Subset, FS_CardinalityType

LEMMA CloneOneStep ==
  ASSUME IInv, NEW c \in Callers, call[c] # NoCall, NEW k \in Keys, NEW new \in Keys,
         CloneOne(c, k, new)
  PROVE  IInv'
<1> DEFINE made == call[c].made
           bad == call[c].bad
           todo == call[c].todo
<1>1. /\ call[c] \in Call /\ call[c].op \in Ops /\ todo \subseteq Keys /\ bad \subseteq Keys
      /\ made \subseteq DOMAIN log /\ call[c].via \in BOOLEAN /\ call[c].hook \in BOOLEAN
      /\ \A i \in made : log[i].fate = "committed"
  BY UnderWay DEF CallInv, Committed
<1>2. /\ call[c].op = "duplicate" /\ k \in todo
      /\ rows' = [rows EXCEPT ![new] = [ver |-> 1, deleted |-> FALSE]]
      /\ log' = Logged(c, "duplicate", new, 1, "committed")
      /\ flight' = flight \cup {Next1} /\ told' = NoNews
      /\ call' = [call EXCEPT ![c] = Goes(call[c], todo \ {k}, made \cup {Next1}, bad, call[c].hook)]
      /\ UNCHANGED <<tx, over, trail, fired>>
  BY DEF CloneOne
<1>3. /\ bad \cap todo = {} /\ (call[c].hook => todo = {})
      /\ Cardinality(made) + Cardinality(bad) + Cardinality(todo) = call[c].asked
      /\ \A i \in made : log[i].op = "duplicate"
  BY <1>2, UnderWay DEF CallInv
<1>4. "duplicate" \in Ops
  BY <1>1, <1>2
<1>5. /\ Continues /\ Marks' /\ DOMAIN log' = DOMAIN log \cup {Next1}
      /\ log'[Next1].op = "duplicate" /\ log'[Next1].fate = "committed"
  BY <1>1, <1>2, <1>4, LogGrows
<1>6. Next1 \notin made
  BY <1>1, LogFacts DEF IInv
<1>7. Cardinality(made \cup {Next1}) = Cardinality(made) + 1
  BY <1>6, Counted, FS_AddElement
<1>8. Cardinality(todo \ {k}) = Cardinality(todo) - 1
  BY <1>2, Counted, FS_RemoveElement
<1>9. Cardinality(made \cup {Next1}) + Cardinality(bad) + Cardinality(todo \ {k}) = call[c].asked
  BY <1>3, <1>7, <1>8, Counted
<1>10. /\ made \cup {Next1} \in SUBSET DOMAIN log' /\ todo \ {k} \in SUBSET Keys
       /\ \A i \in made \cup {Next1} : log'[i].fate = "committed" /\ log'[i].op = "duplicate"
  BY <1>1, <1>3, <1>5 DEF Continues
<1>11. bad \cap (todo \ {k}) = {} /\ (call[c].hook => todo \ {k} = {})
  BY <1>3
<1>12. CallType' /\ \A x \in Callers : CallInv(x)'
  <2> HIDE DEF made, bad, todo
  <2> DEFINE rest == todo \ {k}
             done == made \cup {Next1}
  <2>1. /\ Continues /\ call[c] \in Call /\ call[c].hook \in BOOLEAN /\ bad \in SUBSET Keys
        /\ rest \in SUBSET Keys /\ done \in SUBSET DOMAIN log'
        /\ call' = [call EXCEPT ![c] = Goes(call[c], rest, done, bad, call[c].hook)]
        /\ \A i \in done : log'[i].fate = "committed" /\ log'[i].op = "duplicate"
        /\ bad \cap rest = {}
        /\ call[c].hook => rest = {}
        /\ Cardinality(done) + Cardinality(bad) + Cardinality(rest) = call[c].asked
    BY <1>1, <1>2, <1>5, <1>9, <1>10, <1>11
  <2> HIDE DEF rest, done
  <2> QED
    BY <2>1, CallGoes
<1>13. StoreType'
  BY <1>2, RowTypes, NoNewsType DEF IInv, TypeOK, StoreType
<1> QED
  BY <1>5, <1>12, <1>13, Together

LEMMA CloneMissesStep ==
  ASSUME IInv, NEW c \in Callers, call[c] # NoCall, NEW k \in Keys, CloneMisses(c, k)
  PROVE  IInv'
<1> DEFINE made == call[c].made
           bad == call[c].bad
           todo == call[c].todo
<1>1. /\ call[c] \in Call /\ todo \subseteq Keys /\ bad \subseteq Keys
      /\ made \subseteq DOMAIN log /\ call[c].hook \in BOOLEAN
      /\ \A i \in made : log[i].fate = "committed"
  BY UnderWay DEF CallInv, Committed
<1>2. /\ call[c].op = "duplicate" /\ k \in todo /\ told' = NoNews
      /\ call' = [call EXCEPT ![c] = Goes(call[c], todo \ {k}, made, bad \cup {k}, call[c].hook)]
      /\ UNCHANGED <<rows, tx, over, log, flight, trail, fired>>
  BY DEF CloneMisses
<1>3. /\ bad \cap todo = {} /\ (call[c].hook => todo = {})
      /\ Cardinality(made) + Cardinality(bad) + Cardinality(todo) = call[c].asked
      /\ \A i \in made : log[i].op = "duplicate"
  BY <1>2, UnderWay DEF CallInv
<1>4. Continues /\ Marks'
  BY <1>2, Quiet
<1>5. Cardinality(bad \cup {k}) = Cardinality(bad) + 1
  BY <1>2, <1>3, Counted, FS_AddElement
<1>6. Cardinality(todo \ {k}) = Cardinality(todo) - 1
  BY <1>2, Counted, FS_RemoveElement
<1>7. Cardinality(made) + Cardinality(bad \cup {k}) + Cardinality(todo \ {k}) = call[c].asked
  BY <1>3, <1>5, <1>6, Counted
<1>8. /\ made \in SUBSET DOMAIN log' /\ todo \ {k} \in SUBSET Keys /\ bad \cup {k} \in SUBSET Keys
      /\ \A i \in made : log'[i].fate = "committed" /\ log'[i].op = "duplicate"
  BY <1>1, <1>2, <1>3
<1>9. (bad \cup {k}) \cap (todo \ {k}) = {} /\ (call[c].hook => todo \ {k} = {})
  BY <1>3
<1>10. CallType' /\ \A x \in Callers : CallInv(x)'
  <2> HIDE DEF made, bad, todo
  <2> QED
    BY <1>1, <1>2, <1>4, <1>7, <1>8, <1>9, CallGoes
<1>11. StoreType'
  BY <1>2, NoNewsType DEF IInv, TypeOK, StoreType
<1> QED
  BY <1>4, <1>10, <1>11, Together

LEMMA CloneEndsStep ==
  ASSUME IInv, NEW c \in Callers, call[c] # NoCall, CloneEnds(c)
  PROVE  IInv'
<1>1. CASE call[c].made = {}
  <2>1. Ends(c, "ok") /\ UNCHANGED <<rows, tx, over, log, flight, trail, fired>>
    BY <1>1 DEF CloneEnds
  <2> QED
    BY <2>1, AnswerStep DEF IInv, TypeOK, Answers
<1>2. CASE call[c].made # {}
  <2>1. /\ call[c].op = "duplicate" /\ call[c].todo = {} /\ told' = NoNews
        /\ call' = [call EXCEPT ![c] = Goes(call[c], call[c].todo, call[c].made, call[c].bad, TRUE)]
        /\ UNCHANGED <<rows, tx, over, log, flight, trail, fired>>
    BY <1>2 DEF CloneEnds
  <2>2. Continues /\ Marks'
    BY <2>1, Quiet
  <2>3. /\ call[c] \in Call /\ call[c].todo \in SUBSET Keys /\ call[c].bad \in SUBSET Keys
        /\ call[c].made \in SUBSET DOMAIN log'
        /\ \A i \in call[c].made : log'[i].fate = "committed" /\ log'[i].op = "duplicate"
        /\ call[c].bad \cap call[c].todo = {}
        /\ Cardinality(call[c].made) + Cardinality(call[c].bad) + Cardinality(call[c].todo)
             = call[c].asked
    BY <2>1, UnderWay DEF CallInv, Committed
  <2>4. CallType' /\ \A x \in Callers : CallInv(x)'
    BY <2>1, <2>2, <2>3, CallGoes
  <2>5. StoreType'
    BY <2>1, NoNewsType DEF IInv, TypeOK, StoreType
  <2> QED
    BY <2>2, <2>4, <2>5, Together
<1> QED
  BY <1>1, <1>2

(* COMMIT and ROLLBACK settle only writes that were open. *)
LEMMA SettleStep ==
  ASSUME IInv, NEW c \in Callers, CommitTx(c) \/ RollbackTx(c)
  PROVE  IInv'
<1>1. PICK fate \in {"committed", "undone"} : Settle(c, fate)
  BY DEF CommitTx, RollbackTx
<1> DEFINE w(i) == IF log[i].by = c /\ log[i].fate = "open" THEN [log[i] EXCEPT !.fate = fate]
                   ELSE log[i]
<1>2. /\ log' = [i \in DOMAIN log |-> w(i)] /\ over' = [over EXCEPT ![c] = NothingOver]
      /\ tx' = [tx EXCEPT ![c] = "none"]
  BY <1>1 DEF Settle
<1>3. UNCHANGED <<call, flight, trail, fired>>
  BY DEF CommitTx, RollbackTx
<1>4. ASSUME NEW i \in DOMAIN log
      PROVE  /\ w(i) \in Write /\ w(i).op = log[i].op /\ w(i).via = log[i].via
             /\ log[i].fate = "committed" => w(i).fate = "committed"
  <2>1. log[i] \in Write
    BY LogFacts DEF IInv
  <2> QED
    BY <2>1 DEF Write
<1> HIDE DEF w
<1>5. DOMAIN log = 1 .. Len(log) /\ Len(log) \in Nat
  BY LogFacts DEF IInv
<1>6. log' \in Seq(Write) /\ DOMAIN log' = DOMAIN log /\ \A i \in DOMAIN log : log'[i] = w(i)
  BY <1>2, <1>4, <1>5
<1>7. Continues
  BY <1>4, <1>6 DEF Continues
<1>8. Marks'
  BY <1>3, <1>4, <1>6 DEF Marks, MarksType, IInv, TypeOK, HooksFollowCommits, Committed
<1>9. CallType' /\ \A x \in Callers : CallInv(x)'
  BY <1>3, <1>7, CallsKept
<1>10. rows' \in [Keys -> Row]
  BY DEF CommitTx, RollbackTx, IInv, TypeOK
<1>11. told' \in [Callers -> Answers]
  BY NoNewsType DEF CommitTx, RollbackTx, Answers
<1>12. NothingOver \in [Keys -> Row]
  BY RowTypes DEF NothingOver
<1>13. StoreType'
  BY <1>2, <1>10, <1>11, <1>12 DEF IInv, TypeOK, StoreType
<1> QED
  BY <1>7, <1>8, <1>9, <1>13, Together

LEMMA AuditStep ==
  ASSUME IInv, NEW i \in flight, AuditLands(i) \/ AuditLost(i)
  PROVE  IInv'
<1>1. /\ flight' \subseteq flight /\ trail \subseteq trail' /\ trail' \subseteq trail \cup flight
      /\ told' = NoNews /\ UNCHANGED <<rows, tx, over, call, log, fired>>
  BY DEF AuditLands, AuditLost
<1>2. Continues
  BY <1>1 DEF IInv, TypeOK, Continues
<1>3. Marks'
  BY <1>1 DEF Marks, MarksType, IInv, TypeOK, HooksFollowCommits, Committed
<1>4. CallType' /\ \A x \in Callers : CallInv(x)'
  BY <1>1, <1>2, CallsKept
<1>5. StoreType'
  BY <1>1, NoNewsType DEF IInv, TypeOK, StoreType
<1> QED
  BY <1>2, <1>3, <1>4, <1>5, Together

LEMMA IInvStep == IInv /\ [Next]_vars => IInv'
<1> SUFFICES ASSUME IInv, [Next]_vars PROVE IInv'
  OBVIOUS
<1>1. ASSUME NEW c \in Callers, BeginTx(c) \/ CommitTx(c) \/ RollbackTx(c) PROVE IInv'
  BY <1>1, BeginTxStep, SettleStep
<1>2. ASSUME NEW c \in Callers, NEW op \in Ops, NEW via \in BOOLEAN,
             NEW todo \in (SUBSET Keys) \ {{}}, NEW vers \in [todo -> Versions(op)],
             Request(c, op, vers, via)
      PROVE  IInv'
  BY <1>2, RequestStep
<1>3. ASSUME NEW c \in Callers, call[c] # NoCall, Step(c) PROVE IInv'
  <2>1. ASSUME NEW k \in Keys,
               WriteHits(c, k) \/ WriteMisses(c, k) \/ TimesOut(c, k) \/ CloneMisses(c, k)
        PROVE  IInv'
    BY <1>3, <2>1, WriteHitsStep, MissesStep, CloneMissesStep
  <2>2. ASSUME NEW k \in Keys, NEW new \in Keys, CloneOne(c, k, new) PROVE IInv'
    BY <1>3, <2>2, CloneOneStep
  <2>3. CASE HookReturns(c) \/ HookThrows(c)
    BY <2>3, HookStep
  <2>4. CASE BulkHits(c)
    BY <1>3, <2>4, BulkHitsStep
  <2>5. CASE BulkMisses(c)
    <3>1. PICK k \in Keys : k \in call[c].todo
      BY <1>3, <2>5, UnderWay DEF BulkMisses
    <3> QED
      BY <2>5, <3>1, MissesStep
  <2>6. CASE CloneEnds(c)
    BY <1>3, <2>6, CloneEndsStep
  <2> QED
    BY <1>3, <2>1, <2>2, <2>3, <2>4, <2>5, <2>6 DEF Step
<1>4. ASSUME NEW i \in flight, AuditLands(i) \/ AuditLost(i) PROVE IInv'
  BY <1>4, AuditStep
<1>5. CASE UNCHANGED vars
  <2>1. Continues /\ Marks'
    BY <1>5, Quiet DEF vars
  <2>2. CallType' /\ \A x \in Callers : CallInv(x)'
    BY <1>5, <2>1, CallsKept DEF vars
  <2>3. StoreType'
    BY <1>5 DEF vars, IInv, TypeOK, StoreType
  <2> QED
    BY <2>1, <2>2, <2>3, Together
<1> QED
  BY <1>1, <1>2, <1>3, <1>4, <1>5 DEF Next

(***************************************************************************)
(* The theorems                                                            *)
(***************************************************************************)

LEMMA Invariant == Spec => []IInv
BY IInvInit, IInvStep, PTL DEF Spec

(* Every state has the types of ServiceWrites. *)
THEOREM TypeCorrect == Spec => []TypeOK
<1>1. IInv => TypeOK
  BY DEF IInv
<1> QED
  BY <1>1, Invariant, PTL

(* No afterWrite hook hears of a write that is not committed               *)
(* (fireAfterWrite is left out in a transaction).                          *)
THEOREM HooksFollow == Spec => []HooksFollowCommits
<1>1. IInv => HooksFollowCommits
  BY DEF IInv
<1> QED
  BY <1>1, Invariant, PTL

(***************************************************************************)
(* Histories                                                               *)
(***************************************************************************)

Open(k) == {i \in DOMAIN log : log[i].key = k /\ log[i].fate = "open"}

(* The callers whose transactions have written row k. *)
Written(k) == {c \in Callers : over[c][k] # AsBefore}

Chain(k) ==
  \A i, j \in Standing(k) :
    Follows(j, i, Standing(k)) => log[j].ver = IF log[j].op = "purge" THEN 0 ELSE log[i].ver + 1
Top(k) == \A i \in Done(k) : Last(i, Done(k)) => log[i].ver = rows[k].ver

(* Open writes of a row come after its committed ones, and are those of one*)
(* transaction, which sees the row as the last of them has left it.        *)
Owned(k) ==
  /\ \A i \in Done(k), j \in Open(k) : i < j
  /\ \A j \in Open(k) : /\ log[j].by \in Written(k)
                        /\ Last(j, Open(k)) => log[j].ver = over[log[j].by][k].ver
  /\ Written(k) # {} => Open(k) # {}
  /\ \A c, d \in Written(k) : c = d

Hist(k) == Chain(k) /\ Top(k) /\ Owned(k)

LEMMA Standings ==
  ASSUME TypeOK, NEW k \in Keys
  PROVE  /\ Standing(k) = Done(k) \cup Open(k) /\ Done(k) \cap Open(k) = {}
         /\ Standing(k) \subseteq DOMAIN log /\ DOMAIN log \subseteq Nat
BY LogFacts DEF Standing, Done, Open, Write

(* A step that writes other rows, or none. *)
LEMMA HistElsewhere ==
  ASSUME NEW k \in Keys, Hist(k), rows'[k] = rows[k], \A x \in Callers : over'[x][k] = over[x][k],
         \A i \in DOMAIN log : i \in DOMAIN log' /\ log'[i] = log[i],
         \A i \in DOMAIN log' : i \notin DOMAIN log => log'[i].key # k
  PROVE  Hist(k)'
<1>1. Standing(k)' = Standing(k) /\ Done(k)' = Done(k) /\ Open(k)' = Open(k)
  BY DEF Standing, Done, Open
<1>2. Written(k)' = Written(k)
  BY DEF Written
<1>3. Standing(k) \subseteq DOMAIN log /\ Done(k) \subseteq DOMAIN log /\ Open(k) \subseteq DOMAIN log
  BY DEF Standing, Done, Open
<1>4. Chain(k)'
  BY <1>1, <1>3 DEF Hist, Owned, Chain, Follows
<1>5. Top(k)'
  BY <1>1, <1>3 DEF Hist, Owned, Top, Last
<1>6. \A j \in Open(k)' : /\ log'[j].by \in Written(k)'
                          /\ Last(j, Open(k)') => log'[j].ver = over'[log'[j].by][k].ver
  BY <1>1, <1>2, <1>3 DEF Hist, Owned, Written
<1>7. /\ \A i \in Done(k), j \in Open(k) : i < j
      /\ Written(k) # {} => Open(k) # {}
      /\ \A c, d \in Written(k) : c = d
  BY DEF Hist, Owned
<1>8. /\ \A i \in Done(k)', j \in Open(k)' : i < j
      /\ Written(k)' # {} => Open(k)' # {}
      /\ \A c, d \in Written(k)' : c = d
  BY <1>1, <1>2, <1>7
<1>9. Owned(k)'
  BY <1>6, <1>8 DEF Owned, Last
<1> QED
  BY <1>4, <1>5, <1>9 DEF Hist

(* One more write of row k, the last. *)
OneMore(k, n) ==
  /\ n \in DOMAIN log' /\ n \notin DOMAIN log /\ log'[n].key = k
  /\ \A i \in DOMAIN log : i \in DOMAIN log' /\ log'[i] = log[i] /\ i < n
  /\ \A i \in DOMAIN log' : i \notin DOMAIN log /\ i # n => log'[i].key # k

(* The row as the statement that makes the write sees it has version v. *)
Advances(k, n, v) == log'[n].ver = IF log'[n].op = "purge" THEN 0 ELSE v + 1

LEMMA ChainGrows ==
  ASSUME TypeOK, TypeOK', NEW k \in Keys, Hist(k), NEW n, OneMore(k, n), log'[n].fate # "undone",
         NEW v, Advances(k, n, v),
         \A i \in Standing(k) : Last(i, Standing(k)) => log[i].ver = v
  PROVE  Standing(k)' = Standing(k) \cup {n} /\ Chain(k)'
<1>1. Standing(k)' = Standing(k) \cup {n}
  BY DEF Standing, OneMore
<1>2. /\ Standing(k) \subseteq DOMAIN log /\ DOMAIN log \subseteq Nat /\ n \in Nat
      /\ \A i \in Standing(k) : i < n /\ log'[i] = log[i] /\ i \in Nat
  BY Standings, LogFacts DEF OneMore, TypeOK
<1>3. ASSUME NEW i \in Standing(k)', NEW j \in Standing(k)', Follows(j, i, Standing(k)')
      PROVE  log'[j].ver = IF log'[j].op = "purge" THEN 0 ELSE log'[i].ver + 1
  <2>1. i \in Standing(k) /\ i < j
    BY <1>1, <1>2, <1>3 DEF Follows
  <2>2. CASE j = n
    <3>1. Last(i, Standing(k))
      BY <1>1, <1>2, <1>3, <2>1, <2>2 DEF Last, Follows
    <3>2. log[i].ver = v /\ log'[i] = log[i]
      BY <1>2, <2>1, <3>1
    <3> QED
      BY <2>2, <3>2 DEF Advances
  <2>3. CASE j # n
    <3>1. j \in Standing(k) /\ Follows(j, i, Standing(k))
      BY <1>1, <1>3, <2>3 DEF Follows
    <3> QED
      BY <1>2, <2>1, <3>1 DEF Hist, Owned, Chain
  <2> QED
    BY <2>2, <2>3
<1> QED
  BY <1>1, <1>3 DEF Chain

(* A write outside the transactions: none has written the row. *)
LEMMA HistDone ==
  ASSUME TypeOK, TypeOK', NEW k \in Keys, Hist(k), NEW n, OneMore(k, n),
         log'[n].fate = "committed", over' = over, Written(k) = {},
         Advances(k, n, rows[k].ver), log'[n].ver = rows'[k].ver
  PROVE  Hist(k)'
<1>1. Open(k) = {} /\ Standing(k) = Done(k)
  BY Standings DEF Hist, Owned
<1>2. Open(k)' = {} /\ Done(k)' = Done(k) \cup {n} /\ Written(k)' = {}
  BY <1>1 DEF Open, Done, Written, OneMore
<1>3. \A i \in Standing(k) : Last(i, Standing(k)) => log[i].ver = rows[k].ver
  BY <1>1 DEF Hist, Owned, Top
<1>4. Chain(k)'
  BY <1>3, ChainGrows
<1>5. /\ Done(k) \subseteq DOMAIN log /\ DOMAIN log \subseteq Nat /\ n \in Nat
      /\ \A i \in Done(k) : i < n
  BY Standings, LogFacts, <1>1 DEF OneMore, TypeOK
<1>6. ASSUME NEW i \in Done(k)', Last(i, Done(k)') PROVE log'[i].ver = rows'[k].ver
  <2>1. i = n
    BY <1>2, <1>5, <1>6 DEF Last
  <2> QED
    BY <2>1
<1> QED
  BY <1>2, <1>4, <1>6 DEF Hist, Owned, Top

(* A write in the transaction of c. *)
LEMMA HistOpen ==
  ASSUME TypeOK, TypeOK', NEW k \in Keys, Hist(k), NEW n, OneMore(k, n), NEW c \in Callers,
         log'[n].fate = "open", log'[n].by = c, rows' = rows, Written(k) \subseteq {c},
         \A x \in Callers \ {c} : over'[x][k] = over[x][k],
         over'[c][k] # AsBefore, log'[n].ver = over'[c][k].ver,
         Advances(k, n, IF over[c][k] # AsBefore THEN over[c][k].ver ELSE rows[k].ver)
  PROVE  Hist(k)'
<1> DEFINE v == IF over[c][k] # AsBefore THEN over[c][k].ver ELSE rows[k].ver
<1>1. /\ Standing(k) = Done(k) \cup Open(k) /\ Standing(k) \subseteq DOMAIN log
      /\ DOMAIN log \subseteq Nat /\ n \in Nat
      /\ \A i \in Standing(k) : i < n /\ i \in Nat
  BY Standings, LogFacts DEF OneMore, TypeOK
<1>2. /\ \A i \in Done(k), j \in Open(k) : i < j
      /\ \A j \in Open(k) : /\ log[j].by \in Written(k)
                            /\ Last(j, Open(k)) => log[j].ver = over[log[j].by][k].ver
      /\ Written(k) # {} => Open(k) # {}
      /\ Top(k)
  BY DEF Hist, Owned
<1>3. ASSUME NEW i \in Standing(k), Last(i, Standing(k)) PROVE log[i].ver = v
  <2>1. CASE over[c][k] # AsBefore
    <3>1. c \in Written(k)
      BY <2>1 DEF Written
    <3>2. PICK j \in Open(k) : TRUE
      BY <1>2, <3>1
    <3>3. i \in Open(k)
      BY <1>1, <1>2, <1>3, <3>2 DEF Last
    <3>4. log[i].by = c /\ Last(i, Open(k))
      BY <1>1, <1>2, <1>3, <3>3 DEF Last
    <3> QED
      BY <1>2, <2>1, <3>3, <3>4
  <2>2. CASE over[c][k] = AsBefore
    <3>1. Written(k) = {}
      BY <2>2 DEF Written
    <3>2. Open(k) = {} /\ Standing(k) = Done(k)
      BY <1>1, <1>2, <3>1
    <3> QED
      BY <1>2, <1>3, <2>2, <3>2 DEF Top
  <2> QED
    BY <2>1, <2>2
<1> HIDE DEF v
<1>4. Advances(k, n, v)
  BY DEF v
<1>5. Chain(k)'
  BY <1>3, <1>4, ChainGrows
<1>6. Done(k)' = Done(k) /\ Open(k)' = Open(k) \cup {n} /\ Written(k)' = {c}
  BY DEF Open, Done, Written, OneMore
<1>7. \A i \in Done(k) : log'[i] = log[i]
  BY DEF Done, OneMore
<1>8. Top(k)'
  BY <1>2, <1>6, <1>7 DEF Top, Last
<1>9. \A i \in Done(k)', j \in Open(k)' : i < j
  BY <1>1, <1>2, <1>6
<1>10. ASSUME NEW j \in Open(k)'
       PROVE  /\ log'[j].by \in Written(k)'
              /\ Last(j, Open(k)') => log'[j].ver = over'[log'[j].by][k].ver
  <2>1. CASE j = n
    BY <1>6, <2>1
  <2>2. CASE j # n
    <3>1. j \in Open(k) /\ j < n /\ log'[j] = log[j] /\ j \in Nat
      BY <1>1, <1>6, <2>2 DEF OneMore, Open
    <3>2. log[j].by = c
      BY <1>2, <3>1
    <3>3. ~Last(j, Open(k)')
      BY <1>1, <1>6, <3>1 DEF Last
    <3> QED
      BY <1>6, <3>1, <3>2, <3>3
  <2> QED
    BY <2>1, <2>2
<1> QED
  BY <1>5, <1>6, <1>8, <1>9, <1>10 DEF Hist, Owned

(* COMMIT and ROLLBACK: the open writes of the row are c's, or stay open.  *)
LEMMA HistSettled ==
  ASSUME TypeOK, NEW k \in Keys, Hist(k), NEW c \in Callers,
         NEW fate \in {"committed", "undone"}, Settle(c, fate),
         rows'[k] = IF fate = "committed" /\ over[c][k] # AsBefore THEN over[c][k] ELSE rows[k]
  PROVE  Hist(k)'
<1>1. /\ DOMAIN log' = DOMAIN log
      /\ \A i \in DOMAIN log :
           log'[i] = IF log[i].by = c /\ log[i].fate = "open" THEN [log[i] EXCEPT !.fate = fate]
                     ELSE log[i]
      /\ over' = [over EXCEPT ![c] = NothingOver]
  BY DEF Settle
<1>2. \A i \in DOMAIN log : log[i] \in Write
  BY LogFacts
<1>3. ASSUME NEW i \in DOMAIN log
      PROVE  /\ log'[i].key = log[i].key /\ log'[i].ver = log[i].ver /\ log'[i].op = log[i].op
             /\ log'[i].by = log[i].by
             /\ log'[i].fate = IF log[i].by = c /\ log[i].fate = "open" THEN fate ELSE log[i].fate
  BY <1>1, <1>2, <1>3 DEF Write
<1>4. /\ Standing(k) = Done(k) \cup Open(k) /\ Done(k) \cap Open(k) = {}
      /\ Standing(k) \subseteq DOMAIN log /\ DOMAIN log \subseteq Nat
  BY Standings
<1>5. /\ \A i \in Done(k), j \in Open(k) : i < j
      /\ \A j \in Open(k) : /\ log[j].by \in Written(k)
                            /\ Last(j, Open(k)) => log[j].ver = over[log[j].by][k].ver
      /\ Written(k) # {} => Open(k) # {}
      /\ \A x, d \in Written(k) : x = d
      /\ Top(k) /\ Chain(k)
  BY DEF Hist, Owned
<1>6. \A x \in Callers : over'[x][k] = IF x = c THEN AsBefore ELSE over[x][k]
  BY <1>1 DEF TypeOK, NothingOver
<1>7. Written(k)' = Written(k) \ {c}
  BY <1>6 DEF Written
<1>8. CASE c \notin Written(k)
  <2>1. \A i \in Open(k) : log[i].by # c
    BY <1>5, <1>8
  <2>2. Done(k)' = Done(k) /\ Open(k)' = Open(k) /\ Standing(k)' = Standing(k)
    BY <1>1, <1>3, <2>1 DEF Done, Open, Standing
  <2>3. Written(k)' = Written(k) /\ rows'[k] = rows[k]
    BY <1>7, <1>8 DEF Written
  <2>4. Chain(k)'
    BY <1>3, <1>4, <1>5, <2>2 DEF Chain
  <2>5. Top(k)'
    BY <1>3, <1>4, <1>5, <2>2, <2>3 DEF Top
  <2>6. \A j \in Open(k)' : /\ log'[j].by \in Written(k)'
                            /\ Last(j, Open(k)') => log'[j].ver = over'[log'[j].by][k].ver
    BY <1>3, <1>4, <1>5, <1>6, <1>8, <2>2, <2>3 DEF Written
  <2>7. /\ \A i \in Done(k)', j \in Open(k)' : i < j
        /\ Written(k)' # {} => Open(k)' # {}
        /\ \A x, d \in Written(k)' : x = d
    BY <1>5, <2>2, <2>3
  <2>8. Owned(k)'
    BY <2>6, <2>7 DEF Owned, Last
  <2> QED
    BY <2>4, <2>5, <2>8 DEF Hist
<1>9. CASE c \in Written(k)
  <2>1. Written(k) = {c} /\ over[c][k] # AsBefore
    BY <1>5, <1>9 DEF Written
  <2>2. Written(k)' = {}
    BY <1>7, <2>1
  <2>3. \A i \in Open(k) : log[i].by = c
    BY <1>5, <2>1
  <2>4. Open(k)' = {}
    BY <1>1, <1>3, <2>3 DEF Open
  <2>5. CASE fate = "committed"
    <3>1. Done(k)' = Standing(k) /\ Standing(k)' = Standing(k)
      BY <1>1, <1>3, <1>4, <2>3, <2>5 DEF Done, Open, Standing
    <3>2. Chain(k)'
      BY <1>3, <1>4, <1>5, <3>1 DEF Chain
    <3>3. ASSUME NEW i \in Done(k)', Last(i, Done(k)') PROVE log'[i].ver = rows'[k].ver
      <4>1. PICK j \in Open(k) : TRUE
        BY <1>5, <1>9
      <4>2. i \in Open(k)
        BY <1>4, <1>5, <3>1, <3>3, <4>1 DEF Last
      <4>3. Last(i, Open(k))
        BY <1>4, <3>1, <3>3 DEF Last
      <4>4. log[i].ver = over[c][k].ver
        BY <1>5, <2>3, <4>2, <4>3
      <4> QED
        BY <1>3, <1>4, <2>1, <2>5, <4>2, <4>4
    <3> QED
      BY <2>2, <2>4, <3>2, <3>3 DEF Hist, Owned, Top
  <2>6. CASE fate = "undone"
    <3>1. Done(k)' = Done(k) /\ Standing(k)' = Done(k)
      BY <1>1, <1>3, <1>4, <2>3, <2>6 DEF Done, Open, Standing
    <3>2. ASSUME NEW i \in Done(k), NEW j \in Done(k), Follows(j, i, Done(k))
          PROVE  Follows(j, i, Standing(k))
      BY <1>4, <1>5, <3>2 DEF Follows
    <3>3. Chain(k)'
      <4>1. ASSUME NEW i \in Done(k), NEW j \in Done(k), Follows(j, i, Done(k))
            PROVE  log'[j].ver = IF log'[j].op = "purge" THEN 0 ELSE log'[i].ver + 1
        <5>1. i \in Standing(k) /\ j \in Standing(k) /\ i \in DOMAIN log /\ j \in DOMAIN log
          BY <1>4
        <5>2. log[j].ver = IF log[j].op = "purge" THEN 0 ELSE log[i].ver + 1
          BY <1>5, <3>2, <4>1, <5>1 DEF Chain
        <5> QED
          BY <1>3, <5>1, <5>2
      <4> QED
        BY <3>1, <4>1 DEF Chain
    <3>4. Top(k)'
      BY <1>3, <1>4, <1>5, <2>6, <3>1 DEF Top
    <3> QED
      BY <2>2, <2>4, <3>3, <3>4 DEF Hist, Owned
  <2> QED
    BY <2>5, <2>6
<1> QED
  BY <1>8, <1>9

(* The statement that writes one row of c. *)
LEMMA OneLogged ==
  ASSUME TypeOK, NEW c \in Callers, call[c] \in Call, NEW k \in Keys, NEW ver \in Nat,
         NEW fate \in {"open", "committed"}, NEW op \in Ops, log' = Logged(c, op, k, ver, fate)
  PROVE  /\ OneMore(k, Next1)
         /\ log'[Next1].op = op /\ log'[Next1].fate = fate /\ log'[Next1].by = c
         /\ log'[Next1].ver = ver
         /\ \A i \in DOMAIN log : i \in DOMAIN log' /\ log'[i] = log[i]
         /\ \A q \in Keys \ {k} : \A i \in DOMAIN log' : i \notin DOMAIN log => log'[i].key # q
<1>1. /\ DOMAIN log' = DOMAIN log \cup {Next1}
      /\ \A i \in DOMAIN log : log'[i] = log[i]
      /\ log'[Next1].op = op /\ log'[Next1].fate = fate /\ log'[Next1].by = c
      /\ log'[Next1].key = k /\ log'[Next1].ver = ver
  BY LoggedType
<1>2. Next1 \notin DOMAIN log /\ \A i \in DOMAIN log : i < Next1
  BY LogFacts DEF Next1
<1> QED
  BY <1>1, <1>2 DEF OneMore

LEMMA AfterVer ==
  ASSUME NEW op, NEW row \in Row
  PROVE  /\ After(op, row).ver = IF op = "purge" THEN 0 ELSE row.ver + 1
         /\ After(op, row) # AsBefore
<1>1. row.ver \in Nat
  BY DEF Row
<1>2. After(op, row).ver = IF op = "purge" THEN 0 ELSE row.ver + 1
  BY DEF After, NoRow
<1>3. op = "purge" => After(op, row).deleted = FALSE
  BY DEF After, NoRow
<1>4. AsBefore.ver = 0 /\ AsBefore.deleted = TRUE
  BY DEF AsBefore
<1>5. CASE op = "purge"
  <2>1. After(op, row).deleted # AsBefore.deleted
    BY <1>3, <1>4, <1>5
  <2> QED
    BY <1>2, <2>1
<1>6. CASE op # "purge"
  BY <1>1, <1>2, <1>4, <1>6
<1> QED
  BY <1>2, <1>5, <1>6

Histories == \A k \in Keys : Hist(k)

LEMMA WriteHitsHist ==
  ASSUME IInv, IInv', Histories, NEW c \in Callers, call[c] # NoCall, NEW k \in Keys,
         WriteHits(c, k)
  PROVE  Histories'
<1> DEFINE op == call[c].op
           row == After(op, Seen(c, k))
           fate == IF Via(c) THEN "open" ELSE "committed"
<1>1. call[c] \in Call /\ op \in Ops /\ TypeOK /\ TypeOK'
  BY UnderWay DEF IInv
<1>2. row \in Row /\ row.ver \in Nat /\ Seen(c, k) \in Row
  BY SeenType, AfterType DEF Row
<1>3. /\ log' = Logged(c, op, k, row.ver, fate) /\ ~Locked(c, k)
      /\ IF Via(c) THEN over' = [over EXCEPT ![c][k] = row] /\ UNCHANGED rows
                   ELSE rows' = [rows EXCEPT ![k] = row] /\ UNCHANGED over
  BY DEF WriteHits
<1>4. row.ver = (IF op = "purge" THEN 0 ELSE Seen(c, k).ver + 1) /\ row # AsBefore
  BY <1>2, AfterVer
<1> HIDE DEF row, op
<1>5. fate \in {"open", "committed"}
  OBVIOUS
<1>6. /\ OneMore(k, Next1)
      /\ log'[Next1].op = op /\ log'[Next1].fate = fate /\ log'[Next1].by = c
      /\ log'[Next1].ver = row.ver
      /\ \A i \in DOMAIN log : i \in DOMAIN log' /\ log'[i] = log[i]
      /\ \A q \in Keys \ {k} : \A i \in DOMAIN log' : i \notin DOMAIN log => log'[i].key # q
  BY <1>1, <1>2, <1>3, <1>5, OneLogged
<1>7. rows \in [Keys -> Row] /\ over \in [Callers -> [Keys -> Row]]
  BY <1>1 DEF TypeOK
<1>8. /\ \A q \in Keys \ {k} : rows'[q] = rows[q]
      /\ \A q \in Keys \ {k}, x \in Callers : over'[x][q] = over[x][q]
  BY <1>3, <1>7
<1>9. ASSUME NEW q \in Keys, q # k PROVE Hist(q)'
  BY <1>6, <1>8, <1>9, HistElsewhere DEF Histories
<1>10. Advances(k, Next1, Seen(c, k).ver)
  BY <1>4, <1>6 DEF Advances
<1>11. Hist(k)
  BY DEF Histories
<1>12. CASE Via(c)
  <2>1. Written(k) \subseteq {c}
    BY <1>3 DEF Written, Locked
  <2>2. /\ \A x \in Callers \ {c} : over'[x][k] = over[x][k]
        /\ over'[c][k] = row /\ rows' = rows
    BY <1>3, <1>7, <1>12
  <2>3. Seen(c, k).ver = IF over[c][k] # AsBefore THEN over[c][k].ver ELSE rows[k].ver
    BY <1>12 DEF Seen
  <2>4. Advances(k, Next1, IF over[c][k] # AsBefore THEN over[c][k].ver ELSE rows[k].ver)
    BY <1>10, <2>3
  <2>5. log'[Next1].fate = "open"
    BY <1>6, <1>12
  <2>6. Hist(k)'
    BY <1>1, <1>4, <1>6, <1>11, <2>1, <2>2, <2>4, <2>5, HistOpen
  <2> QED
    BY <1>9, <2>6 DEF Histories
<1>13. CASE ~Via(c)
  <2>1. Written(k) = {}
    BY <1>3, <1>13 DEF Written, Locked
  <2>2. rows'[k] = row /\ over' = over
    BY <1>3, <1>7, <1>13
  <2>3. Advances(k, Next1, rows[k].ver)
    BY <1>10, <1>13 DEF Seen
  <2>4. log'[Next1].fate = "committed"
    BY <1>6, <1>13
  <2>5. Hist(k)'
    BY <1>1, <1>6, <1>11, <2>1, <2>2, <2>3, <2>4, HistDone
  <2> QED
    BY <1>9, <2>5 DEF Histories
<1> QED
  BY <1>12, <1>13

LEMMA CloneOneHist ==
  ASSUME IInv, IInv', Histories, NEW c \in Callers, call[c] # NoCall, NEW k \in Keys,
         NEW new \in Keys, CloneOne(c, k, new)
  PROVE  Histories'
<1>1. call[c] \in Call /\ call[c].op = "duplicate" /\ "duplicate" \in Ops /\ TypeOK /\ TypeOK'
  BY UnderWay DEF IInv, CloneOne
<1>2. /\ rows[new].ver = 0 /\ \A x \in Callers : over[x][new] = AsBefore
      /\ rows' = [rows EXCEPT ![new] = [ver |-> 1, deleted |-> FALSE]]
      /\ log' = Logged(c, "duplicate", new, 1, "committed") /\ over' = over
  BY DEF CloneOne
<1>3. /\ OneMore(new, Next1)
      /\ log'[Next1].op = "duplicate" /\ log'[Next1].fate = "committed"
      /\ log'[Next1].ver = 1
      /\ \A i \in DOMAIN log : i \in DOMAIN log' /\ log'[i] = log[i]
      /\ \A q \in Keys \ {new} : \A i \in DOMAIN log' : i \notin DOMAIN log => log'[i].key # q
  BY <1>1, <1>2, OneLogged
<1>4. rows \in [Keys -> Row]
  BY <1>1 DEF TypeOK
<1>5. rows'[new].ver = 1 /\ \A q \in Keys \ {new} : rows'[q] = rows[q]
  BY <1>2, <1>4
<1>6. ASSUME NEW q \in Keys, q # new PROVE Hist(q)'
  BY <1>2, <1>3, <1>5, <1>6, HistElsewhere DEF Histories
<1>7. Written(new) = {} /\ Advances(new, Next1, rows[new].ver)
  BY <1>2, <1>3 DEF Written, Advances
<1>8. Hist(new)'
  BY <1>1, <1>2, <1>3, <1>5, <1>7, HistDone DEF Histories
<1> QED
  BY <1>6, <1>8 DEF Histories

LEMMA BulkHitsHist ==
  ASSUME IInv, IInv', Histories, NEW c \in Callers, call[c] # NoCall, BulkHits(c)
  PROVE  Histories'
<1>1. call[c] \in Call /\ TypeOK /\ TypeOK' /\ call[c].op # "purge"
  BY UnderWay DEF IInv, BulkHits, Bulk
<1>2. /\ log' = log \o Bulked(c) /\ over' = over /\ rows \in [Keys -> Row]
      /\ rows' = [q \in Keys |-> IF q \in call[c].todo THEN After(call[c].op, rows[q]) ELSE rows[q]]
      /\ \A q \in call[c].todo : ~Locked(c, q)
      /\ call[c].op \in Bulk
  BY <1>1 DEF BulkHits, TypeOK
<1> DEFINE new == Next1 .. Len(log')
<1>3. /\ DOMAIN log' = DOMAIN log \cup new
      /\ \A i \in DOMAIN log : log'[i] = log[i]
      /\ \A i \in new : BulkWrite(log'[i], c)
      /\ \A i, j \in new : log'[i].key = log'[j].key => i = j
      /\ \A k \in call[c].todo : \E i \in new : log'[i].key = k
  BY <1>1, <1>2, BulkedType
<1>4. \A n \in new : n \notin DOMAIN log /\ \A i \in DOMAIN log : i < n
  <2>1. Len(log') \in Nat /\ Len(log) \in Nat /\ DOMAIN log = 1 .. Len(log)
    BY <1>1, <1>2, BulkedType, LogFacts
  <2> QED
    BY <2>1 DEF Next1
<1> HIDE DEF new
<1>5. ASSUME NEW k \in Keys PROVE Hist(k)'
  <2>1. CASE k \in call[c].todo
    <3>1. PICK n \in new : log'[n].key = k
      BY <1>3, <2>1
    <3>2. OneMore(k, n)
      <4>1. \A i \in DOMAIN log' : i \notin DOMAIN log /\ i # n => log'[i].key # k
        BY <1>3, <3>1
      <4>2. n \in DOMAIN log' /\ n \notin DOMAIN log
        BY <1>3, <1>4, <3>1
      <4> QED
        BY <1>3, <1>4, <3>1, <4>1, <4>2 DEF OneMore
    <3>3. /\ log'[n].fate = "committed" /\ log'[n].op = call[c].op
          /\ log'[n].ver = rows[k].ver + 1
      BY <1>3, <3>1 DEF BulkWrite
    <3>4. rows'[k].ver = rows[k].ver + 1
      BY <1>1, <1>2, <2>1, AfterVer
    <3>5. Written(k) = {}
      <4>1. ~Via(c)
        BY <1>2, UnderWay DEF CallInv, Via, Bulk
      <4> QED
        BY <1>2, <2>1, <4>1 DEF Written, Locked
    <3>6. Advances(k, n, rows[k].ver)
      BY <1>1, <3>3 DEF Advances
    <3> QED
      BY <1>1, <1>2, <3>2, <3>3, <3>4, <3>5, <3>6, HistDone DEF Histories
  <2>2. CASE k \notin call[c].todo
    <3>1. rows'[k] = rows[k]
      BY <1>2, <2>2
    <3>2. \A i \in DOMAIN log' : i \notin DOMAIN log => log'[i].key # k
      BY <1>3, <2>2 DEF BulkWrite
    <3> QED
      BY <1>2, <1>3, <3>1, <3>2, HistElsewhere DEF Histories
  <2> QED
    BY <2>1, <2>2
<1> QED
  BY <1>5 DEF Histories

LEMMA HistoriesInit == Init => Histories
<1> SUFFICES ASSUME Init, NEW k \in Keys PROVE Hist(k)
  BY DEF Histories
<1>1. Standing(k) = {} /\ Done(k) = {} /\ Open(k) = {}
  BY DEF Init, Standing, Done, Open
<1>2. Written(k) = {}
  BY DEF Init, NothingOver, Written
<1> QED
  BY <1>1, <1>2 DEF Hist, Owned, Chain, Top

LEMMA HistoriesStep == IInv /\ Histories /\ [Next]_vars => Histories'
<1> SUFFICES ASSUME IInv, Histories, [Next]_vars PROVE Histories'
  OBVIOUS
<1>1. IInv' /\ TypeOK
  BY IInvStep DEF IInv
<1>2. ASSUME UNCHANGED <<rows, over, log>> PROVE Histories'
  BY <1>2, HistElsewhere DEF Histories
<1>3. ASSUME NEW c \in Callers, CommitTx(c) PROVE Histories'
  <2>1. Settle(c, "committed")
    BY <1>3 DEF CommitTx
  <2>2. \A k \in Keys : rows'[k] = IF over[c][k] # AsBefore THEN over[c][k] ELSE rows[k]
    BY <1>3 DEF CommitTx
  <2> QED
    BY <1>1, <2>1, <2>2, HistSettled DEF Histories
<1>4. ASSUME NEW c \in Callers, RollbackTx(c) PROVE Histories'
  <2>1. Settle(c, "undone") /\ rows' = rows
    BY <1>4 DEF RollbackTx
  <2> QED
    BY <1>1, <2>1, HistSettled DEF Histories
<1>5. ASSUME NEW c \in Callers, call[c] # NoCall, Step(c) PROVE Histories'
  <2>1. ASSUME NEW k \in Keys, WriteHits(c, k) PROVE Histories'
    BY <1>1, <1>5, <2>1, WriteHitsHist
  <2>2. ASSUME NEW k \in Keys, NEW new \in Keys, CloneOne(c, k, new) PROVE Histories'
    BY <1>1, <1>5, <2>2, CloneOneHist
  <2>3. CASE BulkHits(c)
    BY <1>1, <1>5, <2>3, BulkHitsHist
  <2>4. ASSUME NEW k \in Keys, WriteMisses(c, k) \/ TimesOut(c, k) \/ CloneMisses(c, k)
        PROVE  Histories'
    BY <1>2, <2>4 DEF WriteMisses, TimesOut, CloneMisses
  <2>5. ASSUME HookReturns(c) \/ HookThrows(c) \/ BulkMisses(c) \/ CloneEnds(c)
        PROVE  Histories'
    BY <1>2, <2>5 DEF HookReturns, HookThrows, BulkMisses, CloneEnds
  <2> QED
    BY <1>5, <2>1, <2>2, <2>3, <2>4, <2>5 DEF Step
<1>6. ASSUME NEW c \in Callers,
             BeginTx(c) \/ \E op \in Ops, via \in BOOLEAN, todo \in (SUBSET Keys) \ {{}} :
               \E vers \in [todo -> Versions(op)] : Request(c, op, vers, via)
      PROVE  Histories'
  BY <1>2, <1>6 DEF BeginTx, Request
<1>7. ASSUME NEW i \in flight, AuditLands(i) \/ AuditLost(i) PROVE Histories'
  BY <1>2, <1>7 DEF AuditLands, AuditLost
<1>8. CASE UNCHANGED vars
  BY <1>2, <1>8 DEF vars
<1> QED
  BY <1>3, <1>4, <1>5, <1>6, <1>7, <1>8 DEF Next

(* Whatever requests write a row, inside and outside transactions, and     *)
(* whatever is rolled back: the writes that stand, in the order of their   *)
(* audit rows, have each version of the row once, and the last committed   *)
(* one left it as it is (repoFor 305, create to bulkRestore 430-542).      *)
THEOREM HistoriesUnbroken == Spec => []HistoriesAreUnbroken
<1>1. Histories => HistoriesAreUnbroken
  BY DEF Histories, Hist, Owned, Chain, Top, HistoriesAreUnbroken
<1> QED
  BY <1>1, HistoriesInit, HistoriesStep, Invariant, PTL DEF Spec

(* Duplicates that a step answers. *)
DuplicateAnswered(c) ==
  call[c] # NoCall /\ call'[c] = NoCall /\ call[c].op = "duplicate" =>
    /\ Cardinality(call[c].made) + Cardinality(call[c].bad) = call[c].asked
    /\ call[c].made \subseteq fired'
    /\ \A i \in call[c].made : log[i].op = "duplicate" /\ log[i].fate = "committed"

(* A call other than those that the step ends, goes on or begins is as it  *)
(* was.                                                                    *)
LEMMA Elsewhere ==
  ASSUME IInv, NEW c \in Callers, NEW x \in Callers, x # c, NEW k,
         call' = [call EXCEPT ![c] = k]
  PROVE  call'[x] = call[x]
BY DEF IInv, TypeOK

(* A duplicate that is answered has nothing left to do, and the hook has   *)
(* heard of all its clones.                                                *)
LEMMA Answered ==
  ASSUME IInv, NEW c \in Callers, call[c] # NoCall, call[c].op = "duplicate",
         call[c].todo = {}, call[c].made \subseteq fired'
  PROVE  DuplicateAnswered(c)
<1>1. /\ Cardinality(call[c].made) + Cardinality(call[c].bad) + Cardinality(call[c].todo)
           = call[c].asked
      /\ \A i \in call[c].made : log[i].op = "duplicate" /\ log[i].fate = "committed"
  BY UnderWay DEF CallInv, Committed
<1>2. Cardinality(call[c].todo) = 0
  BY FS_EmptySet
<1> QED
  BY <1>1, <1>2, Counted DEF DuplicateAnswered

(* A step of c ends its duplicate only with everything handled. *)
LEMMA AnsweredBy ==
  ASSUME IInv, NEW c \in Callers, call[c] # NoCall, call[c].op = "duplicate", Step(c)
  PROVE  DuplicateAnswered(c)
<1>1. ASSUME NEW todo, NEW made, NEW bad, NEW hook,
             call' = [call EXCEPT ![c] = Goes(call[c], todo, made, bad, hook)]
      PROVE  call'[c] # NoCall
  <2>1. call'[c] = Goes(call[c], todo, made, bad, hook)
    BY <1>1 DEF IInv, TypeOK
  <2>2. call'[c].op = "duplicate" /\ NoCall.op = "none"
    BY <2>1 DEF Goes, NoCall
  <2> QED
    BY <2>2
<1>2. ASSUME NEW k \in Keys, NEW new \in Keys, CloneMisses(c, k) \/ CloneOne(c, k, new)
      PROVE  DuplicateAnswered(c)
  <2>1. CASE CloneMisses(c, k)
    BY <1>1, <2>1 DEF CloneMisses, DuplicateAnswered
  <2>2. CASE CloneOne(c, k, new)
    BY <1>1, <2>2 DEF CloneOne, DuplicateAnswered
  <2> QED
    BY <1>2, <2>1, <2>2
<1>3. CASE HookReturns(c) \/ HookThrows(c)
  <2>1. call[c].hook /\ call[c].made \subseteq fired'
    BY <1>3 DEF HookReturns, HookThrows
  <2>2. call[c].todo = {}
    BY <2>1, UnderWay DEF CallInv
  <2> QED
    BY <2>1, <2>2, Answered
<1>4. CASE CloneEnds(c)
  <2>1. call[c].todo = {}
    BY <1>4 DEF CloneEnds
  <2>2. CASE call[c].made = {}
    BY <2>1, <2>2, Answered
  <2>3. CASE call[c].made # {}
    <3>1. call' = [call EXCEPT ![c] = Goes(call[c], call[c].todo, call[c].made, call[c].bad, TRUE)]
      BY <1>4, <2>3 DEF CloneEnds
    <3>2. call'[c] # NoCall
      BY <1>1, <3>1
    <3> QED
      BY <3>2 DEF DuplicateAnswered
  <2> QED
    BY <2>2, <2>3
<1>5. /\ ~BulkHits(c) /\ ~BulkMisses(c)
      /\ \A k \in Keys : ~WriteHits(c, k) /\ ~WriteMisses(c, k) /\ ~TimesOut(c, k)
  BY DEF BulkHits, BulkMisses, WriteHits, WriteMisses, TimesOut, Single, Bulk
<1> QED
  BY <1>2, <1>3, <1>4, <1>5 DEF Step

(* The step of a caller leaves the calls of the others as they were. *)
LEMMA StepsAlone ==
  ASSUME IInv, NEW c \in Callers, Step(c), NEW x \in Callers, x # c
  PROVE  call'[x] = call[x]
<1>1. ASSUME NEW k \in Keys, NEW new \in Keys,
             \/ WriteHits(c, k) \/ WriteMisses(c, k) \/ TimesOut(c, k)
             \/ CloneMisses(c, k) \/ CloneOne(c, k, new)
      PROVE  call'[x] = call[x]
  <2>1. CASE WriteHits(c, k)
    <3>1. CASE call[c].via
      BY <2>1, <3>1, Elsewhere DEF WriteHits, Returns, Ends
    <3>2. CASE ~call[c].via
      BY <2>1, <3>2, Elsewhere DEF WriteHits, Returns
    <3> QED
      BY <3>1, <3>2
  <2>2. CASE WriteMisses(c, k) \/ TimesOut(c, k)
    BY <2>2, Elsewhere DEF WriteMisses, TimesOut, Ends
  <2>3. CASE CloneMisses(c, k)
    BY <2>3, Elsewhere DEF CloneMisses
  <2>4. CASE CloneOne(c, k, new)
    BY <2>4, Elsewhere DEF CloneOne
  <2> QED
    BY <1>1, <2>1, <2>2, <2>3, <2>4
<1>2. CASE HookReturns(c) \/ HookThrows(c) \/ BulkHits(c) \/ BulkMisses(c) \/ CloneEnds(c)
  BY <1>2, Elsewhere DEF HookReturns, HookThrows, BulkHits, BulkMisses, CloneEnds, Ends
<1> QED
  BY <1>1, <1>2 DEF Step

LEMMA DuplicatesStep ==
  ASSUME IInv, [Next]_vars, NEW x \in Callers
  PROVE  DuplicateAnswered(x)
<1>1. ASSUME UNCHANGED call PROVE DuplicateAnswered(x)
  BY <1>1 DEF DuplicateAnswered
<1>2. ASSUME NEW c \in Callers, BeginTx(c) \/ CommitTx(c) \/ RollbackTx(c)
      PROVE  DuplicateAnswered(x)
  BY <1>1, <1>2 DEF BeginTx, CommitTx, RollbackTx
<1>3. ASSUME NEW c \in Callers, NEW op \in Ops, NEW via \in BOOLEAN,
             NEW todo \in (SUBSET Keys) \ {{}}, NEW vers \in [todo -> Versions(op)],
             Request(c, op, vers, via)
      PROVE  DuplicateAnswered(x)
  <2>1. CASE x = c
    BY <1>3, <2>1 DEF Request, Idle, DuplicateAnswered
  <2>2. CASE x # c
    <3>1. call'[x] = call[x]
      BY <1>3, <2>2, Elsewhere DEF Request
    <3> QED
      BY <3>1 DEF DuplicateAnswered
  <2> QED
    BY <2>1, <2>2
<1>4. ASSUME NEW c \in Callers, call[c] # NoCall, Step(c) PROVE DuplicateAnswered(x)
  <2>1. CASE x = c
    <3>1. CASE call[x].op = "duplicate"
      BY <1>4, <2>1, <3>1, AnsweredBy
    <3>2. CASE call[x].op # "duplicate"
      BY <3>2 DEF DuplicateAnswered
    <3> QED
      BY <3>1, <3>2
  <2>2. CASE x # c
    <3>1. call'[x] = call[x]
      BY <1>4, <2>2, StepsAlone
    <3> QED
      BY <3>1 DEF DuplicateAnswered
  <2> QED
    BY <2>1, <2>2
<1>5. ASSUME NEW i \in flight, AuditLands(i) \/ AuditLost(i) PROVE DuplicateAnswered(x)
  BY <1>1, <1>5 DEF AuditLands, AuditLost
<1>6. CASE UNCHANGED vars
  BY <1>1, <1>6 DEF vars
<1> QED
  BY <1>2, <1>3, <1>4, <1>5, <1>6 DEF Next

(* duplicate answers with a clone, or an error, for every uuid it was given*)
(* and the hook has heard of each clone, all of them committed.            *)
THEOREM DuplicatesCounted == Spec => DuplicatesAreCounted
<1>1. IInv /\ [Next]_vars =>
        \A c \in Callers :
          LET k == call[c]
          IN  k # NoCall /\ call'[c] = NoCall /\ k.op = "duplicate" =>
                /\ Cardinality(k.made) + Cardinality(k.bad) = k.asked
                /\ k.made \subseteq fired'
                /\ \A i \in k.made : log[i].op = "duplicate" /\ log[i].fate = "committed"
  BY DuplicatesStep DEF DuplicateAnswered
<1> QED
  BY <1>1, Invariant, PTL DEF Spec, DuplicatesAreCounted

(***************************************************************************)
(* Calls can always go on                                                  *)
(***************************************************************************)

(* A single-row operation has its row to write until its hook runs, and a  *)
(* bulk operation has no hook.                                             *)
ShapeInv ==
  \A c \in Callers : call[c] # NoCall =>
    /\ call[c].op \in Single => call[c].hook \/ call[c].todo # {}
    /\ call[c].op \in Bulk => ~call[c].hook

LEMMA OperationKinds ==
  ASSUME IInv, NEW c \in Callers, call[c] # NoCall
  PROVE  call[c].op \in Single \/ call[c].op \in Bulk \/ call[c].op = "duplicate"
BY UnderWay, ServiceAssumption DEF Single, Bulk

(* What is left of its call when c has taken a step. *)
LEMMA ShapeAfter ==
  ASSUME IInv, ShapeInv, NEW c \in Callers, call[c] # NoCall, Step(c), call'[c] # NoCall
  PROVE  /\ call'[c].op \in Single => call'[c].hook \/ call'[c].todo # {}
         /\ call'[c].op \in Bulk => ~call'[c].hook
<1>0. call \in [Callers -> Call \cup {NoCall}]
  BY DEF IInv, TypeOK
<1>1. ASSUME NEW answer, Ends(c, answer) PROVE FALSE
  BY <1>0, <1>1 DEF Ends
<1>2. ASSUME NEW todo, NEW made, NEW bad, NEW hook,
             call' = [call EXCEPT ![c] = Goes(call[c], todo, made, bad, hook)]
      PROVE  call'[c].op = call[c].op /\ call'[c].todo = todo /\ call'[c].hook = hook
  BY <1>0, <1>2 DEF Goes
<1>3. ASSUME NEW k \in Keys, WriteHits(c, k)
      PROVE  call'[c].op \in Single /\ call'[c].hook
  <2>1. call[c].op \in Single /\ Returns(c)
    BY <1>3 DEF WriteHits
  <2>2. call' = [call EXCEPT ![c] = Goes(call[c], call[c].todo, {Next1}, call[c].bad, TRUE)]
    BY <1>1, <2>1 DEF Returns
  <2> QED
    BY <1>2, <2>1, <2>2
<1>4. ASSUME NEW k \in Keys, NEW new \in Keys, CloneMisses(c, k) \/ CloneOne(c, k, new)
      PROVE  call'[c].op = "duplicate"
  BY <1>2, <1>4 DEF CloneMisses, CloneOne
<1>5. ASSUME CloneEnds(c) PROVE call'[c].op = "duplicate"
  <2>1. call[c].op = "duplicate" /\ call[c].made # {}
    BY <1>1, <1>5 DEF CloneEnds
  <2>2. call' = [call EXCEPT ![c] = Goes(call[c], call[c].todo, call[c].made, call[c].bad, TRUE)]
    BY <1>5, <2>1 DEF CloneEnds
  <2> QED
    BY <1>2, <2>1, <2>2
<1>6. /\ ~HookReturns(c) /\ ~HookThrows(c) /\ ~BulkHits(c) /\ ~BulkMisses(c)
      /\ \A k \in Keys : ~WriteMisses(c, k) /\ ~TimesOut(c, k)
  BY <1>1 DEF HookReturns, HookThrows, BulkHits, BulkMisses, WriteMisses, TimesOut
<1>7. call'[c].op = "duplicate" \/ (call'[c].op \in Single /\ call'[c].hook)
  BY <1>3, <1>4, <1>5, <1>6 DEF Step
<1> QED
  BY <1>7 DEF Single, Bulk

LEMMA ShapeStep == IInv /\ ShapeInv /\ [Next]_vars => ShapeInv'
<1> SUFFICES ASSUME IInv, ShapeInv, [Next]_vars, NEW x \in Callers, call'[x] # NoCall
             PROVE  /\ call'[x].op \in Single => call'[x].hook \/ call'[x].todo # {}
                    /\ call'[x].op \in Bulk => ~call'[x].hook
  BY DEF ShapeInv
<1>0. call \in [Callers -> Call \cup {NoCall}]
  BY DEF IInv, TypeOK
<1>1. CASE call'[x] = call[x]
  BY <1>1 DEF ShapeInv
<1>2. ASSUME NEW c \in Callers, BeginTx(c) \/ CommitTx(c) \/ RollbackTx(c)
      PROVE  call'[x] = call[x]
  BY <1>2 DEF BeginTx, CommitTx, RollbackTx
<1>3. ASSUME NEW c \in Callers, NEW op \in Ops, NEW via \in BOOLEAN,
             NEW todo \in (SUBSET Keys) \ {{}}, NEW vers \in [todo -> Versions(op)],
             Request(c, op, vers, via)
      PROVE  call'[x] = call[x] \/ (call'[x].todo # {} /\ ~call'[x].hook)
  <2>1. call' = [call EXCEPT ![c] =
                  [op |-> op, vers |-> vers, todo |-> DOMAIN vers, via |-> via, made |-> {},
                   bad |-> {}, asked |-> Cardinality(DOMAIN vers), hook |-> FALSE]]
    BY <1>3 DEF Request
  <2>2. CASE x # c
    BY <1>0, <2>1, <2>2
  <2>3. CASE x = c
    <3>1. call'[x].todo = DOMAIN vers /\ call'[x].hook = FALSE
      BY <1>0, <2>1, <2>3
    <3>2. DOMAIN vers = todo
      BY <1>3
    <3>3. todo \notin {{}}
      BY <1>3
    <3>4. todo # {}
      BY <3>3
    <3> QED
      BY <3>1, <3>2, <3>4
  <2> QED
    BY <2>2, <2>3
<1>4. ASSUME NEW c \in Callers, call[c] # NoCall, Step(c)
      PROVE  c = x \/ call'[x] = call[x]
  BY <1>4, StepsAlone
<1>5. ASSUME NEW i \in flight, AuditLands(i) \/ AuditLost(i) PROVE call'[x] = call[x]
  BY <1>5 DEF AuditLands, AuditLost
<1>6. CASE UNCHANGED vars
  BY <1>1, <1>6 DEF vars
<1> QED
  BY <1>1, <1>2, <1>3, <1>4, <1>5, <1>6, ShapeAfter DEF Next

(* A way on for each call, as the values of all variables after its next   *)
(* step: what ends it if anything can, and what it waits for if not.       *)
Answer(c, tx1, fired1, answer) ==
  <<rows, tx1, over, [call EXCEPT ![c] = NoCall], log, flight, trail, fired1,
    [NoNews EXCEPT ![c] = answer]>>

Continue(c, todo, bad, hook) ==
  <<rows, tx, over, [call EXCEPT ![c] = Goes(@, todo, @.made, bad, hook)], log, flight, trail,
    fired, NoNews>>

SomeRow(c) == CHOOSE k \in call[c].todo : TRUE

(* Its transaction fails with c's statement, if it has one. *)
Failing(c, fails) == [tx EXCEPT ![c] = IF Via(c) /\ fails THEN "failed" ELSE @]

DuplicateGoesOn(c) ==
  IF call[c].todo # {}
  THEN Continue(c, call[c].todo \ {SomeRow(c)}, call[c].bad \cup {SomeRow(c)}, call[c].hook)
  ELSE IF call[c].made = {} THEN Answer(c, tx, fired, "ok")
  ELSE Continue(c, call[c].todo, call[c].bad, TRUE)

BulkGoesOn(c) ==
  IF \E k \in call[c].todo : Locked(c, k)
  THEN Answer(c, Failing(c, TRUE), fired, "error")
  ELSE IF \E k \in call[c].todo : ~Hits(call[c].op, rows[k], call[c].vers[k])
  THEN Answer(c, tx, fired, "error")
  ELSE <<[k \in Keys |-> IF k \in call[c].todo THEN After(call[c].op, rows[k]) ELSE rows[k]],
         tx, over, [call EXCEPT ![c] = NoCall], log \o Bulked(c), flight,
         trail \cup (Next1 .. Len(log \o Bulked(c))), fired, [NoNews EXCEPT ![c] = "ok"]>>

SingleGoesOn(c) ==
  LET op  == call[c].op
      k   == SomeRow(c)
      row == After(op, Seen(c, k))
  IN  IF Locked(c, k) THEN Answer(c, Failing(c, TRUE), fired, "error")
      ELSE IF TxFailed(c) \/ ~Hits(op, Seen(c, k), call[c].vers[k])
           THEN Answer(c, Failing(c, Seen(c, k).ver > 0), fired, "error")
      ELSE IF Via(c)
           THEN <<rows, tx, [over EXCEPT ![c][k] = row], [call EXCEPT ![c] = NoCall],
                  Logged(c, op, k, row.ver, "open"), flight \cup {Next1}, trail, fired,
                  [NoNews EXCEPT ![c] = "ok"]>>
           ELSE <<[rows EXCEPT ![k] = row], tx, over,
                  [call EXCEPT ![c] = Goes(@, @.todo, {Next1}, @.bad, TRUE)],
                  Logged(c, op, k, row.ver, "committed"), flight \cup {Next1}, trail, fired,
                  NoNews>>

GoesOn(c) ==
  IF call[c].hook THEN Answer(c, tx, fired \cup call[c].made, "ok")
  ELSE IF call[c].op = "duplicate" THEN DuplicateGoesOn(c)
  ELSE IF call[c].op \in Bulk THEN BulkGoesOn(c)
  ELSE SingleGoesOn(c)

LEMMA SomeRowOf ==
  ASSUME IInv, NEW c \in Callers, call[c] # NoCall, call[c].todo # {}
  PROVE  SomeRow(c) \in call[c].todo /\ SomeRow(c) \in Keys
BY UnderWay DEF SomeRow

LEMMA DuplicateCan ==
  ASSUME IInv, NEW c \in Callers, call[c] # NoCall, call[c].op = "duplicate", ~call[c].hook,
         vars' = DuplicateGoesOn(c)
  PROVE  Step(c)
<1>1. CASE call[c].todo # {}
  <2>1. CloneMisses(c, SomeRow(c))
    BY <1>1, SomeRowOf DEF DuplicateGoesOn, Continue, vars, CloneMisses
  <2> QED
    BY <1>1, <2>1, SomeRowOf DEF Step
<1>2. CASE call[c].todo = {}
  <2>1. CloneEnds(c)
    BY <1>2 DEF DuplicateGoesOn, Continue, Answer, vars, CloneEnds, Ends
  <2> QED
    BY <2>1 DEF Step
<1> QED
  BY <1>1, <1>2

LEMMA BulkCan ==
  ASSUME IInv, NEW c \in Callers, call[c] # NoCall, call[c].op \in Bulk, ~call[c].hook,
         vars' = BulkGoesOn(c)
  PROVE  Step(c)
<1>0. call[c].todo \subseteq Keys
  BY UnderWay
<1>1. ASSUME NEW k \in call[c].todo, Locked(c, k) PROVE Step(c)
  <2>1. TimesOut(c, k)
    BY <1>1 DEF BulkGoesOn, Answer, Failing, vars, TimesOut, Ends, Asked
  <2> QED
    BY <1>0, <2>1 DEF Step
<1>2. CASE /\ \A k \in call[c].todo : ~Locked(c, k)
           /\ \E k \in call[c].todo : ~Hits(call[c].op, rows[k], call[c].vers[k])
  <2>1. BulkMisses(c)
    BY <1>2 DEF BulkGoesOn, Answer, vars, BulkMisses, Ends
  <2> QED
    BY <2>1 DEF Step
<1>3. CASE \A k \in call[c].todo :
             ~Locked(c, k) /\ Hits(call[c].op, rows[k], call[c].vers[k])
  <2>1. /\ rows' = [k \in Keys |-> IF k \in call[c].todo THEN After(call[c].op, rows[k])
                                  ELSE rows[k]]
        /\ call' = [call EXCEPT ![c] = NoCall] /\ log' = log \o Bulked(c)
        /\ trail' = trail \cup (Next1 .. Len(log \o Bulked(c)))
        /\ told' = [NoNews EXCEPT ![c] = "ok"]
        /\ UNCHANGED <<tx, over, flight, fired>>
    BY <1>3 DEF BulkGoesOn, vars
  <2>2. BulkHits(c)
    BY <1>3, <2>1 DEF BulkHits, Asked, Ends
  <2> QED
    BY <2>2 DEF Step
<1> QED
  BY <1>1, <1>2, <1>3

LEMMA SingleCan ==
  ASSUME IInv, ShapeInv, NEW c \in Callers, call[c] # NoCall, call[c].op \in Single,
         ~call[c].hook, vars' = SingleGoesOn(c)
  PROVE  Step(c)
<1> DEFINE k == SomeRow(c)
           row == After(call[c].op, Seen(c, k))
<1>0. k \in Keys /\ k \in call[c].todo
  BY SomeRowOf DEF ShapeInv
<1>1. Asked(c, k)
  BY <1>0 DEF Asked
<1>2. CASE Locked(c, k)
  <2>1. vars' = Answer(c, Failing(c, TRUE), fired, "error")
    BY <1>2 DEF SingleGoesOn
  <2>2. TimesOut(c, k)
    BY <1>1, <1>2, <2>1 DEF Answer, Failing, vars, TimesOut, Ends
  <2> QED
    BY <1>0, <2>2 DEF Step
<1>3. CASE ~Locked(c, k) /\ (TxFailed(c) \/ ~Hits(call[c].op, Seen(c, k), call[c].vers[k]))
  <2>1. vars' = Answer(c, Failing(c, Seen(c, k).ver > 0), fired, "error")
    BY <1>3 DEF SingleGoesOn
  <2>2. WriteMisses(c, k)
    BY <1>1, <1>3, <2>1 DEF Answer, Failing, vars, WriteMisses, Ends
  <2> QED
    BY <1>0, <2>2 DEF Step
<1>4. CASE ~Locked(c, k) /\ ~TxFailed(c) /\ Hits(call[c].op, Seen(c, k), call[c].vers[k])
  <2>1. CASE Via(c)
    <3>1. vars' = <<rows, tx, [over EXCEPT ![c][k] = row], [call EXCEPT ![c] = NoCall],
                    Logged(c, call[c].op, k, row.ver, "open"), flight \cup {Next1}, trail, fired,
                    [NoNews EXCEPT ![c] = "ok"]>>
      BY <1>4, <2>1 DEF SingleGoesOn
    <3>2. Returns(c)
      BY <2>1, <3>1 DEF vars, Returns, Ends, Via
    <3>3. WriteHits(c, k)
      BY <1>1, <1>4, <2>1, <3>1, <3>2 DEF vars, WriteHits
    <3> QED
      BY <1>0, <3>3 DEF Step
  <2>2. CASE ~Via(c)
    <3>1. vars' = <<[rows EXCEPT ![k] = row], tx, over,
                    [call EXCEPT ![c] = Goes(@, @.todo, {Next1}, @.bad, TRUE)],
                    Logged(c, call[c].op, k, row.ver, "committed"), flight \cup {Next1}, trail,
                    fired, NoNews>>
      BY <1>4, <2>2 DEF SingleGoesOn
    <3>2. Returns(c)
      BY <2>2, <3>1 DEF vars, Returns, Via
    <3>3. WriteHits(c, k)
      BY <1>1, <1>4, <2>2, <3>1, <3>2 DEF vars, WriteHits
    <3> QED
      BY <1>0, <3>3 DEF Step
  <2> QED
    BY <2>1, <2>2
<1> QED
  BY <1>2, <1>3, <1>4

LEMMA CallCan ==
  ASSUME IInv, ShapeInv, NEW c \in Callers, call[c] # NoCall, vars' = GoesOn(c)
  PROVE  Step(c)
<1>1. CASE call[c].hook
  <2>1. HookReturns(c)
    BY <1>1 DEF GoesOn, Answer, vars, HookReturns, Ends
  <2> QED
    BY <2>1 DEF Step
<1>2. CASE ~call[c].hook /\ call[c].op = "duplicate"
  BY <1>2, DuplicateCan DEF GoesOn
<1>3. CASE ~call[c].hook /\ call[c].op \in Bulk
  <2>1. call[c].op # "duplicate"
    BY <1>3 DEF Bulk
  <2> QED
    BY <1>3, <2>1, BulkCan DEF GoesOn
<1>4. CASE ~call[c].hook /\ call[c].op \in Single
  <2>1. call[c].op # "duplicate" /\ call[c].op \notin Bulk
    BY <1>4 DEF Single, Bulk
  <2> QED
    BY <1>4, <2>1, SingleCan DEF GoesOn
<1> QED
  BY <1>1, <1>2, <1>3, <1>4, OperationKinds

(* A single-row operation keeps its row until its hook is called, and a bulk*)
(* operation calls none (the calls of fireAfterWrite, entity-service.ts).   *)
THEOREM CallsKeepShape == Spec => [](IInv /\ ShapeInv)
<1>1. Init => ShapeInv
  BY DEF Init, ShapeInv
<1> QED
  BY <1>1, IInvInit, IInvStep, ShapeStep, PTL DEF Spec

(* In the states of CallsKeepShape each call that is awaited has a way on: *)
(* to give the variables the values of GoesOn(c) is a step of c.  A call by*)
(* the callback of a transaction that waits for a row of that very         *)
(* transaction goes on by its timeout (the statement_timeout of the pool). *)
THEOREM CallsHaveAWayOn ==
  \A c \in Callers :
    IInv /\ ShapeInv /\ call[c] # NoCall /\ vars' = GoesOn(c) => Step(c)
BY CallCan
=============================================================================
