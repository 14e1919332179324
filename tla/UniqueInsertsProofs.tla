------------------------ MODULE UniqueInsertsProofs ------------------------
(***************************************************************************)
(* Proofs about UniqueInserts: any number of writers, groups and rows.     *)
(***************************************************************************)
EXTENDS UniqueInserts, FiniteSetTheorems, TLAPS

(***************************************************************************)
(* The inductive invariant                                                 *)
(***************************************************************************)

(* What each statement knows of the operation it belongs to. *)
OpInv(w) ==
  /\ pc[w] = "add" => /\ op[w].kind \in {"add", "ignore"} /\ op[w].target = NoTarget
                      /\ Len(op[w].items) = 1
  /\ pc[w] \in {"detect", "load"} => op[w].kind = "addMany" /\ op[w].target = NoTarget
  /\ pc[w] \in {"read", "update", "probe", "fields"} =>
       op[w].kind = "update" /\ Len(op[w].items) = 1
  /\ pc[w] = "load" => Clashing(w, snap[w], op[w].keys \cap Bindable) = {}

(* The rows of an open transaction are those of its first items. *)
FreshInv(w) ==
  /\ IsFiniteSet(fresh[w]) /\ (pc[w] # "load" => fresh[w] = {})
  /\ \A r \in fresh[w] : \E i \in DOMAIN op[w].items :
       i <= Cardinality(fresh[w]) /\ r = NewRow(op[w].items[i])

IInv == TypeOK /\ \A w \in Writers : OpInv(w) /\ FreshInv(w)

(***************************************************************************)
(* Rows, items and conflicts                                               *)
(***************************************************************************)

LEMMA RowTypes ==
  /\ \A v \in Items : NewRow(v) \in Row
  /\ \A r \in Row, v \in Items, d \in BOOLEAN : Revised(r, v, d) \in Row
BY DEF NewRow, Revised, Row

LEMMA OpTypes ==
  ASSUME TypeOK, NEW w \in Writers
  PROVE  /\ op[w].items \in Seq(Items) /\ DOMAIN op[w].items = 1 .. Len(op[w].items)
         /\ Len(op[w].items) \in Nat /\ \A i \in DOMAIN op[w].items : op[w].items[i] \in Items
         /\ op[w].target \in Row \cup {NoTarget}
<1>1. op[w] \in [kind : Kinds \cup {"none"}, items : Seq(Items),
                 keys : SUBSET Groups, target : Row \cup {NoTarget}]
  BY DEF TypeOK
<1> DEFINE s == op[w].items
<1>2. s \in Seq(Items) /\ op[w].target \in Row \cup {NoTarget}
  BY <1>1
<1> HIDE DEF s
<1>3. DOMAIN s = 1 .. Len(s) /\ Len(s) \in Nat /\ \A i \in DOMAIN s : s[i] \in Items
  BY <1>2
<1> QED
  BY <1>2, <1>3 DEF s

(* Every item clashes with itself. *)
LEMMA Reflexive == \A v \in Items : Clash(v, v, Groups)
BY UniqueInsertsAssumption DEF Clash

(* An index entry that stands in the way of an item is a row that clashes. *)
LEMMA TakenClashes ==
  ASSUME NEW w \in Writers, NEW i \in DOMAIN op[w].items, NEW self, Taken(op[w].items[i], self)
  PROVE  Clashing(w, table \ {self}, Groups) # {}
BY DEF Taken, Clashing, Among

(***************************************************************************)
(* Steps                                                                   *)
(***************************************************************************)

(* Nothing happens to w. *)
Kept(w) ==
  pc'[w] = pc[w] /\ op'[w] = op[w] /\ snap'[w] = snap[w] /\ fresh'[w] = fresh[w]

LEMMA KeptInv ==
  ASSUME NEW w \in Writers, OpInv(w), FreshInv(w), Kept(w)
  PROVE  OpInv(w)' /\ FreshInv(w)'
<1>2. OpInv(w)'
  BY DEF OpInv, Kept, Clashing, Among, Clash
<1>3. FreshInv(w)'
  BY DEF FreshInv, Kept
<1> QED
  BY <1>2, <1>3

LEMMA FinishStep ==
  ASSUME TypeOK, NEW w \in Writers, NEW outcome \in Outcomes, Finish(w, outcome)
  PROVE  /\ \A u \in Writers \ {w} : Kept(u)
         /\ OpInv(w)' /\ FreshInv(w)'
         /\ pc' \in [Writers -> {"idle", "read", "add", "detect", "load", "update", "probe", "fields"}]
         /\ op' \in [Writers -> [kind : Kinds \cup {"none"}, items : Seq(Items),
                                 keys : SUBSET Groups, target : Row \cup {NoTarget}]]
         /\ snap' \in [Writers -> SUBSET Row] /\ fresh' \in [Writers -> SUBSET Row]
         /\ res' \in [Writers -> Outcomes]
         /\ res'[w] = outcome /\ pc'[w] = "idle"
         /\ \A u \in Writers \ {w} : pc'[u] = pc[u] /\ res'[u] = "none"
<1>1. \A u \in Writers \ {w} : Kept(u)
  BY DEF TypeOK, Finish, Kept
<1>2. pc'[w] = "idle" /\ fresh'[w] = {}
  BY DEF TypeOK, Finish
<1>3. OpInv(w)'
  BY <1>2 DEF OpInv
<1>4. FreshInv(w)'
  BY <1>2, FS_EmptySet DEF FreshInv
<1>5. NoOp \in [kind : Kinds \cup {"none"}, items : Seq(Items),
                keys : SUBSET Groups, target : Row \cup {NoTarget}]
  BY DEF NoOp
<1>6. op' \in [Writers -> [kind : Kinds \cup {"none"}, items : Seq(Items),
                           keys : SUBSET Groups, target : Row \cup {NoTarget}]]
  BY <1>5 DEF TypeOK, Finish
<1>7. NoNews \in [Writers -> Outcomes] /\ "none" \in Outcomes
  BY DEF NoNews, Outcomes
<1>8. /\ pc' \in [Writers -> {"idle", "read", "add", "detect", "load", "update", "probe", "fields"}]
      /\ snap' \in [Writers -> SUBSET Row] /\ fresh' \in [Writers -> SUBSET Row]
  BY DEF TypeOK, Finish
<1>9. res' \in [Writers -> Outcomes] /\ res'[w] = outcome
  BY <1>7 DEF Finish
<1>10. \A u \in Writers \ {w} : pc'[u] = pc[u] /\ res'[u] = "none"
  BY <1>7 DEF TypeOK, Finish, NoNews
<1> QED
  BY <1>1, <1>2, <1>3, <1>4, <1>6, <1>8, <1>9, <1>10

(* A step that ends nobody's operation, with what it does to w's. *)
LEMMA Others ==
  ASSUME IInv, TypeOK', NEW w \in Writers, \A u \in Writers \ {w} : Kept(u),
         OpInv(w)', FreshInv(w)'
  PROVE  IInv'
<1>1. ASSUME NEW u \in Writers
      PROVE  OpInv(u)' /\ FreshInv(u)'
  <2>1. CASE u = w
    BY <2>1
  <2>2. CASE u # w
    BY <2>2, KeptInv DEF IInv
  <2> QED
    BY <2>1, <2>2
<1> QED
  BY <1>1 DEF IInv

(* Calls of operations, and steps of them, that end none. *)
LEMMA CallStep ==
  ASSUME IInv, NEW w \in Writers, NEW kind \in Kinds,
         NEW items \in Batches \cup {<<v>> : v \in Items},
         NEW keys \in KeySets \cup {Groups}, NEW target \in table \cup {NoTarget},
         Call(w, kind, items, keys, target)
  PROVE  IInv'
<1> DEFINE k == [kind |-> kind, items |-> items, keys |-> keys, target |-> target]
           s == CASE kind = "addMany" -> "detect" [] kind = "update" -> "read" [] OTHER -> "add"
           n == IF kind = "add" THEN Among(items, table, keys \cap Bindable) ELSE {}
<1>1. TypeOK /\ FreshInv(w)
  BY DEF IInv
<1>2. kind \in {"add", "ignore", "addMany", "update"} /\ keys \subseteq Groups /\ Bindable \subseteq Groups
  BY UniqueInsertsAssumption
<1>3. items \in Seq(Items) /\ (kind # "addMany" => Len(items) = 1)
  <2>1. Batches \subseteq Seq(Items)
    BY UniqueInsertsAssumption
  <2>2. ASSUME NEW v \in Items
        PROVE  <<v>> \in Seq(Items) /\ Len(<<v>>) = 1
    OBVIOUS
  <2>3. kind # "addMany" => items \in {<<v>> : v \in Items}
    BY DEF Call
  <2> QED
    BY <2>1, <2>2, <2>3
<1>4. table \subseteq Row
  BY <1>1 DEF TypeOK
<1>5. k \in [kind : Kinds \cup {"none"}, items : Seq(Items), keys : SUBSET Groups,
             target : Row \cup {NoTarget}]
  BY <1>2, <1>3, <1>4
<1>6. /\ k.kind = kind /\ k.items = items /\ k.keys = keys /\ k.target = target
      /\ kind # "update" => k.target = NoTarget
  BY DEF Call
<1>7. s \in {"detect", "read", "add"} /\ n \subseteq Row
  BY <1>2, <1>4 DEF Among
<1>8. /\ kind = "addMany" => s = "detect"
      /\ kind = "update" => s = "read"
      /\ kind # "addMany" /\ kind # "update" => s = "add"
  BY <1>2
<1>9. /\ op' = [op EXCEPT ![w] = k] /\ pc' = [pc EXCEPT ![w] = s] /\ res' = NoNews
      /\ snap' = [snap EXCEPT ![w] = n] /\ table' = table /\ fresh' = fresh /\ pc[w] = "idle"
      /\ overtaken' = overtaken \ {w}
  BY DEF Call
<1> HIDE DEF k, s, n
<1>10. NoNews \in [Writers -> Outcomes]
  BY DEF NoNews, Outcomes
<1>11. TypeOK'
  BY <1>1, <1>5, <1>7, <1>9, <1>10 DEF TypeOK
<1>12. \A u \in Writers \ {w} : Kept(u)
  BY <1>1, <1>9 DEF TypeOK, Kept
<1>13. pc'[w] = s /\ op'[w] = k /\ fresh'[w] = fresh[w]
  BY <1>1, <1>9 DEF TypeOK
<1>14. OpInv(w)'
  BY <1>2, <1>3, <1>6, <1>7, <1>8, <1>13 DEF OpInv
<1>15. FreshInv(w)'
  <2>1. fresh[w] = {}
    BY <1>1, <1>9 DEF FreshInv
  <2> QED
    BY <2>1, <1>13, FS_EmptySet DEF FreshInv
<1> QED
  BY <1>11, <1>12, <1>14, <1>15, Others

LEMMA StartStep ==
  ASSUME IInv, NEW w \in Writers, Start(w)
  PROVE  IInv'
<1>1. TypeOK /\ OpInv(w) /\ FreshInv(w) /\ pc[w] = "read"
  BY DEF IInv, Start
<1>2. NoNews \in [Writers -> Outcomes]
  BY DEF NoNews, Outcomes
<1>3. Among(op[w].items, table, Groups) \cup Same(w, table) \subseteq Row
  BY <1>1 DEF TypeOK, Among, Same
<1>4. TypeOK'
  BY <1>1, <1>2, <1>3 DEF TypeOK, Start
<1>5. \A u \in Writers \ {w} : Kept(u)
  BY <1>1 DEF TypeOK, Start, Kept
<1>6. pc'[w] = "update" /\ op'[w] = op[w] /\ fresh'[w] = fresh[w]
  BY <1>1 DEF TypeOK, Start
<1>7. OpInv(w)' /\ FreshInv(w)'
  BY <1>1, <1>6 DEF OpInv, FreshInv
<1> QED
  BY <1>4, <1>5, <1>7, Others

LEMMA DetectStep ==
  ASSUME IInv, NEW w \in Writers, DetectClean(w)
  PROVE  IInv'
<1>1. TypeOK /\ OpInv(w) /\ FreshInv(w) /\ pc[w] = "detect"
  BY DEF IInv, DetectClean
<1>2. NoNews \in [Writers -> Outcomes]
  BY DEF NoNews, Outcomes
<1> DEFINE n == Clashing(w, table, op[w].keys \cap Bindable)
<1>3. n \subseteq Row
  BY <1>1 DEF TypeOK, Clashing, Among
<1>4. Clashing(w, n, op[w].keys \cap Bindable) = {}
  <2>1. Clashing(w, table, op[w].keys \cap Bindable) = {}
    BY <1>1 DEF DetectClean, Found, Searched, Apart, OpInv
  <2> QED
    BY <2>1 DEF Clashing, Among
<1>5. /\ snap' = [snap EXCEPT ![w] = n] /\ pc' = [pc EXCEPT ![w] = "load"]
      /\ res' = NoNews /\ table' = table /\ op' = op /\ fresh' = fresh /\ overtaken' = overtaken
  BY DEF DetectClean
<1> HIDE DEF n
<1>6. TypeOK'
  BY <1>1, <1>2, <1>3, <1>5 DEF TypeOK
<1>7. \A u \in Writers \ {w} : Kept(u)
  BY <1>1, <1>5 DEF TypeOK, Kept
<1>8. pc'[w] = "load" /\ op'[w] = op[w] /\ snap'[w] = n /\ fresh'[w] = fresh[w]
  BY <1>1, <1>5 DEF TypeOK
<1>9. OpInv(w)'
  BY <1>1, <1>4, <1>8 DEF OpInv, Clashing, Among
<1>10. FreshInv(w)'
  BY <1>1, <1>8 DEF FreshInv
<1> QED
  BY <1>6, <1>7, <1>9, <1>10, Others

(* The rows of the batch so far get the next: one that is not among them,  *)
(* for it would clash with itself.                                         *)
LEMMA LoadStep ==
  ASSUME IInv, NEW w \in Writers, LoadItem(w)
  PROVE  IInv'
<1> DEFINE r == NewRow(NextItem(w))
           n == Cardinality(fresh[w])
<1>1. TypeOK /\ OpInv(w) /\ FreshInv(w) /\ pc[w] = "load" /\ n < Len(op[w].items)
  BY DEF IInv, LoadItem, Loading
<1>2. NoNews \in [Writers -> Outcomes]
  BY DEF NoNews, Outcomes
<1>3. IsFiniteSet(fresh[w]) /\ n \in Nat
  BY <1>1, FS_CardinalityType DEF FreshInv
<1>4. n + 1 \in DOMAIN op[w].items /\ NextItem(w) \in Items /\ NextItem(w) = op[w].items[n + 1]
  BY <1>1, <1>3, OpTypes DEF NextItem
<1>5. r \in Row /\ r.val = NextItem(w) /\ r = NewRow(op[w].items[n + 1])
  BY <1>4 DEF NewRow, Row
<1>6. r \notin fresh[w]
  <2>1. \A q \in fresh[w] : ~Clash(NextItem(w), q.val, Groups)
    BY DEF LoadItem, Refused
  <2> QED
    BY <1>4, <1>5, <2>1, Reflexive
<1>7. /\ fresh' = [fresh EXCEPT ![w] = fresh[w] \cup {r}] /\ res' = NoNews
      /\ table' = table /\ pc' = pc /\ op' = op /\ snap' = snap /\ overtaken' = overtaken
  BY DEF LoadItem
<1>8. IsFiniteSet(fresh[w] \cup {r}) /\ Cardinality(fresh[w] \cup {r}) = n + 1
  BY <1>3, <1>6, FS_AddElement
<1> HIDE DEF r, n
<1>9. fresh[w] \cup {r} \subseteq Row
  BY <1>1, <1>5 DEF TypeOK
<1>10. TypeOK'
  BY <1>1, <1>2, <1>7, <1>9 DEF TypeOK
<1>11. \A u \in Writers \ {w} : Kept(u)
  BY <1>1, <1>7 DEF TypeOK, Kept
<1>12. pc'[w] = pc[w] /\ op'[w] = op[w] /\ snap'[w] = snap[w] /\ fresh'[w] = fresh[w] \cup {r}
  BY <1>1, <1>7 DEF TypeOK
<1>13. OpInv(w)'
  BY <1>1, <1>12 DEF OpInv, Clashing, Among
<1>14. \A q \in fresh[w] : \E i \in DOMAIN op[w].items : i <= n /\ q = NewRow(op[w].items[i])
  BY <1>1 DEF FreshInv, n
<1>15. \A i \in DOMAIN op[w].items : i \in Nat
  BY <1>1, OpTypes
<1>16. \A q \in fresh[w] \cup {r} : \E i \in DOMAIN op[w].items :
         i <= n + 1 /\ q = NewRow(op[w].items[i])
  BY <1>3, <1>4, <1>5, <1>14, <1>15
<1>17. FreshInv(w)'
  <2>1. IsFiniteSet(fresh'[w]) /\ Cardinality(fresh'[w]) = n + 1 /\ pc'[w] = "load"
    BY <1>1, <1>8, <1>12
  <2>2. \A q \in fresh'[w] : \E i \in DOMAIN op'[w].items :
          i <= Cardinality(fresh'[w]) /\ q = NewRow(op'[w].items[i])
    BY <1>12, <1>16, <2>1
  <2> QED
    BY <2>1, <2>2 DEF FreshInv
<1> QED
  BY <1>10, <1>11, <1>13, <1>17, Others

LEMMA MissStep ==
  ASSUME IInv, NEW w \in Writers, UpdateMisses(w) \/ ProbeMisses(w)
  PROVE  IInv'
<1>1. TypeOK /\ OpInv(w) /\ FreshInv(w) /\ pc[w] \in {"update", "probe"}
  BY DEF IInv, UpdateMisses, CanUpdate, ProbeMisses
<1>2. NoNews \in [Writers -> Outcomes]
  BY DEF NoNews, Outcomes
<1>3. TypeOK'
  BY <1>1, <1>2 DEF TypeOK, UpdateMisses, ProbeMisses
<1>4. \A u \in Writers \ {w} : Kept(u)
  BY <1>1 DEF TypeOK, UpdateMisses, ProbeMisses, Kept
<1>5. pc'[w] \in {"probe", "fields"} /\ op'[w] = op[w] /\ fresh'[w] = fresh[w]
  BY <1>1 DEF TypeOK, UpdateMisses, ProbeMisses
<1>6. OpInv(w)' /\ FreshInv(w)'
  BY <1>1, <1>5 DEF OpInv, FreshInv
<1> QED
  BY <1>3, <1>4, <1>6, Others

LEMMA FieldStep ==
  ASSUME IInv, NEW w \in Writers, FieldMissing(w)
  PROVE  IInv'
<1>1. TypeOK /\ OpInv(w) /\ FreshInv(w) /\ pc[w] = "fields"
  BY DEF IInv, FieldMissing
<1>2. NoNews \in [Writers -> Outcomes]
  BY DEF NoNews, Outcomes
<1>3. PICK g \in op[w].keys :
        op' = [op EXCEPT ![w] = [kind |-> op[w].kind, items |-> op[w].items,
                                 keys |-> op[w].keys \ {g}, target |-> op[w].target]]
  BY DEF FieldMissing
<1> DEFINE k == [kind |-> op[w].kind, items |-> op[w].items,
                 keys |-> op[w].keys \ {g}, target |-> op[w].target]
<1>4. op[w] \in [kind : Kinds \cup {"none"}, items : Seq(Items),
                 keys : SUBSET Groups, target : Row \cup {NoTarget}]
  BY <1>1 DEF TypeOK
<1>5. /\ k \in [kind : Kinds \cup {"none"}, items : Seq(Items),
                keys : SUBSET Groups, target : Row \cup {NoTarget}]
      /\ k.kind = op[w].kind /\ k.items = op[w].items
  BY <1>4
<1>6. /\ op' = [op EXCEPT ![w] = k] /\ res' = NoNews /\ overtaken' = overtaken
      /\ table' = table /\ pc' = pc /\ snap' = snap /\ fresh' = fresh
  BY <1>3 DEF FieldMissing
<1> HIDE DEF k
<1>7. TypeOK'
  BY <1>1, <1>2, <1>5, <1>6 DEF TypeOK
<1>8. \A u \in Writers \ {w} : Kept(u)
  BY <1>1, <1>6 DEF TypeOK, Kept
<1>9. pc'[w] = "fields" /\ op'[w] = k /\ fresh'[w] = fresh[w]
  BY <1>1, <1>6 DEF TypeOK
<1>10. OpInv(w)'
  BY <1>1, <1>5, <1>9 DEF OpInv
<1>11. FreshInv(w)'
  <2>1. fresh[w] = {}
    BY <1>1 DEF FreshInv
  <2> QED
    BY <2>1, <1>9, FS_EmptySet DEF FreshInv
<1> QED
  BY <1>7, <1>8, <1>10, <1>11, Others

(***************************************************************************)
(* The end of an operation                                                 *)
(***************************************************************************)

LEMMA FinishInv ==
  ASSUME IInv, NEW w \in Writers, NEW outcome \in Outcomes, Finish(w, outcome),
         table' \subseteq Row, overtaken' \subseteq Writers
  PROVE  IInv'
<1>1. TypeOK
  BY DEF IInv
<1>2. TypeOK' /\ OpInv(w)' /\ FreshInv(w)' /\ \A u \in Writers \ {w} : Kept(u)
  BY <1>1, FinishStep DEF TypeOK
<1> QED
  BY <1>2, Others

(* What is told by the steps that end an operation. *)
LEMMA Outcome ==
  ASSUME NEW w \in Writers
  PROVE  /\ {"ok", "skipped", "ERR01", "ERR03", "ERR04", "ERR05", "ERR10", "23505", "aborted"}
              \subseteq Outcomes
         /\ \A r : Code(r) \in {"ERR04", "ERR05"} /\ (Code(r) = "ERR05" <=> r.deleted)
BY DEF Outcomes, Code

Raises(w, outcome) == Finish(w, outcome) /\ table' = table

(* The steps that end w's operation, each with what it tells. *)
Ending(w) ==
  \/ AddRaises(w) /\ \E r \in Found(w, snap[w]) : Raises(w, Code(r))
  \/ AddInserts(w) /\ Finish(w, "ok")
  \/ AddCollides(w) /\ Raises(w, IF op[w].kind = "ignore" THEN "skipped"
                                ELSE IF Searched(w) # {} THEN "ERR04" ELSE "23505")
  \/ DetectRaises(w) /\ Raises(w, IF \A r \in Found(w, table) : r.deleted THEN "ERR05" ELSE "ERR04")
  \/ LoadFails(w) /\ Raises(w, "23505")
  \/ CommitMany(w) /\ Finish(w, "ok")
  \/ BreakDeadlock(w) /\ Raises(w, "aborted")
  \/ UpdateRaises(w) /\ \E r \in Found(w, snap[w]) : Raises(w, Code(r))
  \/ UpdateWrites(w) /\ Finish(w, "ok")
  \/ UpdateCollides(w) /\ Raises(w, "23505")
  \/ ProbeFinds(w) /\ Raises(w, "ERR01")
  \/ FieldFound(w) /\ Raises(w, "ERR10")
  \/ Vanished(w) /\ Raises(w, "ERR03")

Going(w) ==
  \/ Start(w) \/ DetectClean(w) \/ LoadItem(w)
  \/ UpdateMisses(w) \/ ProbeMisses(w) \/ FieldMissing(w)

LEMMA StepForms ==
  ASSUME NEW w \in Writers, Step(w)
  PROVE  Going(w) \/ Ending(w)
<1>1. ASSUME AddRaises(w) PROVE Ending(w)
  BY <1>1 DEF Ending, AddRaises, Raises
<1>2. ASSUME AddInserts(w) PROVE Ending(w)
  BY <1>2 DEF Ending, AddInserts
<1>3. ASSUME AddCollides(w) PROVE Ending(w)
  BY <1>3 DEF Ending, AddCollides, Raises
<1>4. ASSUME DetectRaises(w) PROVE Ending(w)
  BY <1>4 DEF Ending, DetectRaises, Raises
<1>5. ASSUME LoadFails(w) PROVE Ending(w)
  BY <1>5 DEF Ending, LoadFails, Raises
<1>6. ASSUME CommitMany(w) PROVE Ending(w)
  BY <1>6 DEF Ending, CommitMany
<1>7. ASSUME BreakDeadlock(w) PROVE Ending(w)
  BY <1>7 DEF Ending, BreakDeadlock, Raises
<1>8. ASSUME UpdateRaises(w) PROVE Ending(w)
  BY <1>8 DEF Ending, UpdateRaises, Raises
<1>9. ASSUME UpdateWrites(w) PROVE Ending(w)
  BY <1>9 DEF Ending, UpdateWrites
<1>10. ASSUME UpdateCollides(w) PROVE Ending(w)
  BY <1>10 DEF Ending, UpdateCollides, Raises
<1>11. ASSUME ProbeFinds(w) PROVE Ending(w)
  BY <1>11 DEF Ending, ProbeFinds, Raises
<1>12. ASSUME FieldFound(w) PROVE Ending(w)
  BY <1>12 DEF Ending, FieldFound, Raises
<1>13. ASSUME Vanished(w) PROVE Ending(w)
  BY <1>13 DEF Ending, Vanished, Raises
<1> QED
  BY <1>1, <1>2, <1>3, <1>4, <1>5, <1>6, <1>7, <1>8, <1>9, <1>10, <1>11, <1>12, <1>13
  DEF Step, Going

LEMMA EndingFinishes ==
  ASSUME NEW w \in Writers, Ending(w)
  PROVE  \E outcome \in Outcomes : Finish(w, outcome)
BY Outcome DEF Ending, Raises

LEMMA EndingTable ==
  ASSUME IInv, NEW w \in Writers, Ending(w)
  PROVE  table' \subseteq Row /\ overtaken' \subseteq Writers
<1>1. /\ TypeOK /\ table \subseteq Row /\ fresh[w] \subseteq Row /\ OpInv(w)
      /\ overtaken \subseteq Writers
  BY DEF IInv, TypeOK
<1>2. ASSUME AddInserts(w) PROVE table' \subseteq Row
  <2>1. op[w].items[1] \in Items
    BY <1>1, <1>2, OpTypes DEF AddInserts, CanInsert, OpInv
  <2> QED
    BY <1>1, <1>2, <2>1, RowTypes DEF AddInserts
<1>3. ASSUME CommitMany(w) PROVE table' \subseteq Row
  BY <1>1, <1>3 DEF CommitMany
<1>4. ASSUME UpdateWrites(w) PROVE table' \subseteq Row /\ overtaken' \subseteq Writers
  <2>1. op[w].items[1] \in Items
    BY <1>1, <1>4, OpTypes DEF UpdateWrites, CanUpdate, OpInv
  <2>2. PICK t \in table :
          /\ table' = (table \ {t}) \cup {Revised(t, op[w].items[1], t.deleted)}
          /\ overtaken' = overtaken \cup Holders(t)
    BY <1>4 DEF UpdateWrites, Current, Same
  <2>3. t \in Row /\ t.deleted \in BOOLEAN
    BY <1>1 DEF Row
  <2>4. Revised(t, op[w].items[1], t.deleted) \in Row
    BY <2>1, <2>3, RowTypes
  <2> QED
    BY <1>1, <2>2, <2>4 DEF Holders
<1>5. UpdateWrites(w) \/ overtaken' = overtaken
  BY DEF Ending, AddRaises, AddInserts, AddCollides, DetectRaises, LoadFails, CommitMany,
         BreakDeadlock, UpdateRaises, UpdateCollides, ProbeFinds, FieldFound, Vanished
<1> QED
  BY <1>1, <1>2, <1>3, <1>4, <1>5 DEF Ending, Raises

(***************************************************************************)
(* The invariant                                                           *)
(***************************************************************************)

(* Statements that no writer of the model runs. *)
Elsewhere == \E r \in table : SoftDelete(r) \/ HardDelete(r)

LEMMA ElsewhereStep ==
  ASSUME IInv, Elsewhere
  PROVE  IInv' /\ \A w \in Writers : Kept(w)
<1>1. TypeOK /\ table \subseteq Row
  BY DEF IInv, TypeOK
<1>2. PICK r \in table : SoftDelete(r) \/ HardDelete(r)
  BY DEF Elsewhere
<1>3. r \in Row /\ r.val \in Items /\ r.deleted \in BOOLEAN
  BY <1>1 DEF Row
<1>4. Revised(r, r.val, ~r.deleted) \in Row
  BY <1>3, RowTypes
<1>5. table' \subseteq Row /\ overtaken' \subseteq Writers
  BY <1>1, <1>2, <1>4 DEF SoftDelete, HardDelete, Holders, TypeOK
<1>6. res' = NoNews /\ pc' = pc /\ op' = op /\ snap' = snap /\ fresh' = fresh
  BY <1>2 DEF SoftDelete, HardDelete
<1>7. NoNews \in [Writers -> Outcomes]
  BY DEF NoNews, Outcomes
<1>8. TypeOK'
  BY <1>1, <1>5, <1>6, <1>7 DEF TypeOK
<1>9. \A w \in Writers : Kept(w)
  BY <1>6 DEF Kept
<1> QED
  BY <1>8, <1>9, KeptInv DEF IInv

LEMMA Inits == Init => IInv
<1> SUFFICES ASSUME Init PROVE IInv
  OBVIOUS
<1>1. NoOp \in [kind : Kinds \cup {"none"}, items : Seq(Items),
                keys : SUBSET Groups, target : Row \cup {NoTarget}]
  BY DEF NoOp
<1>2. TypeOK
  BY <1>1 DEF Init, TypeOK, NoNews, Outcomes
<1>3. \A w \in Writers : pc[w] = "idle" /\ fresh[w] = {}
  BY DEF Init
<1>4. \A w \in Writers : OpInv(w) /\ FreshInv(w)
  BY <1>3, FS_EmptySet DEF OpInv, FreshInv
<1> QED
  BY <1>2, <1>4 DEF IInv

Called(w) ==
  \E kind \in Kinds, items \in Batches \cup {<<v>> : v \in Items}, keys \in KeySets \cup {Groups},
     target \in table \cup {NoTarget} : Call(w, kind, items, keys, target)

LEMMA NextForms ==
  ASSUME Next
  PROVE  Elsewhere \/ \E w \in Writers : Called(w) \/ Going(w) \/ Ending(w)
BY StepForms DEF Next, Elsewhere, Called

LEMMA Invariance == IInv /\ [Next]_vars => IInv'
<1> SUFFICES ASSUME IInv, [Next]_vars PROVE IInv'
  OBVIOUS
<1>1. CASE UNCHANGED vars
  <2>1. \A w \in Writers : Kept(w)
    BY <1>1 DEF vars, Kept
  <2>2. TypeOK'
    BY <1>1 DEF IInv, TypeOK, vars
  <2> QED
    BY <2>1, <2>2, KeptInv DEF IInv
<1>2. CASE Next
  <2>1. CASE Elsewhere
    BY <2>1, ElsewhereStep
  <2>2. ASSUME NEW w \in Writers, Called(w)
        PROVE  IInv'
    BY <2>2, CallStep DEF Called
  <2>3. ASSUME NEW w \in Writers, Going(w)
        PROVE  IInv'
    BY <2>3, StartStep, DetectStep, LoadStep, MissStep, FieldStep DEF Going
  <2>4. ASSUME NEW w \in Writers, Ending(w)
        PROVE  IInv'
    BY <2>4, EndingFinishes, EndingTable, FinishInv
  <2> QED
    BY <1>2, <2>1, <2>2, <2>3, <2>4, NextForms
<1> QED
  BY <1>1, <1>2

LEMMA Inductive == Spec => []IInv
<1> QED
  BY Inits, Invariance, PTL DEF Spec

(* Every variable keeps its type: a statement inserts and updates only rows*)
(* of the entity, and never reads past the end of its batch (add 605-803,  *)
(* addMany 2353-2513, update 1532-1760).                                   *)
THEOREM TypeCorrect == Spec => []TypeOK
<1>1. IInv => TypeOK
  BY DEF IInv
<1> QED
  BY <1>1, Inductive, PTL

(***************************************************************************)
(* The errors                                                              *)
(***************************************************************************)

LEMMA WhoEnds ==
  ASSUME IInv, Next, NEW w \in Writers, pc[w] # "idle", pc'[w] = "idle"
  PROVE  Ending(w)
<1>1. TypeOK
  BY DEF IInv
<1>2. ~Elsewhere
  BY ElsewhereStep DEF Kept
<1>3. ASSUME NEW u \in Writers, Called(u)
      PROVE  FALSE
  BY <1>1, <1>3 DEF Called, Call, TypeOK
<1>4. ASSUME NEW u \in Writers, Going(u)
      PROVE  FALSE
  BY <1>1, <1>4 DEF Going, Start, DetectClean, LoadItem, UpdateMisses, ProbeMisses, FieldMissing,
                    TypeOK
<1>5. ASSUME NEW u \in Writers, Ending(u), u # w
      PROVE  FALSE
  BY <1>1, <1>5, EndingFinishes, FinishStep
<1> QED
  BY <1>2, <1>3, <1>4, <1>5, NextForms

LEMMA Tells ==
  ASSUME IInv, NEW w \in Writers, NEW outcome, Finish(w, outcome)
  PROVE  res'[w] = outcome
BY DEF Finish, NoNews

(* What the search of each statement has found, and what it could see. *)
LEMMA SearchSees ==
  ASSUME IInv, NEW w \in Writers
  PROVE  /\ pc[w] \in {"add", "update"} => Found(w, snap[w]) = Visible(w)
         /\ pc[w] = "detect" => Found(w, table) = Visible(w)
         /\ pc[w] = "load" => Visible(w) = {}
<1>1. OpInv(w)
  BY DEF IInv
<1>2. CASE pc[w] = "add"
  BY <1>1, <1>2 DEF OpInv, Found, Searched, Visible
<1>3. CASE pc[w] = "update"
  BY <1>1, <1>3 DEF OpInv, Found, Searched, Visible
<1>4. CASE pc[w] = "detect"
  BY <1>1, <1>4 DEF OpInv, Found, Searched, Visible
<1>5. CASE pc[w] = "load"
  BY <1>1, <1>5 DEF OpInv, Visible, Apart
<1> QED
  BY <1>2, <1>3, <1>4, <1>5

(* The first item of a write of one row. *)
LEMMA OneItem ==
  ASSUME IInv, NEW w \in Writers, pc[w] \in {"add", "update"}
  PROVE  1 \in DOMAIN op[w].items
<1>1. TypeOK /\ OpInv(w)
  BY DEF IInv
<1>2. Len(op[w].items) = 1
  BY <1>1 DEF OpInv
<1> QED
  BY <1>1, <1>2, OpTypes

Deserved(w) ==
  LET deleted == {r \in Visible(w) : r.deleted}
  IN  /\ Ends(w, "ERR05") =>
           /\ deleted # {}
           /\ op[w].kind = "addMany" => deleted = Visible(w)
      /\ Ends(w, "ERR04") =>
           \/ deleted # Visible(w)
           \/ op[w].kind = "add" /\ Visible(w) = {} /\ Clashing(w, table, Groups) # {}
      /\ Ends(w, "skipped") => Clashing(w, table, Groups) # {}

LEMMA AllDeserved ==
  ASSUME IInv, Next, NEW w \in Writers
  PROVE  Deserved(w)
<1> SUFFICES ASSUME pc[w] # "idle", pc'[w] = "idle" PROVE Deserved(w)
  BY DEF Deserved, Ends
<1> DEFINE deleted == {r \in Visible(w) : r.deleted}
<1>1. Ending(w) /\ OpInv(w)
  BY WhoEnds DEF IInv
<1>2. ASSUME res'[w] \notin {"ERR04", "ERR05", "skipped"}
      PROVE  Deserved(w)
  BY <1>2 DEF Deserved, Ends
<1>3. ASSUME NEW r \in Visible(w), res'[w] = Code(r), op[w].kind # "addMany"
      PROVE  Deserved(w)
  <2>1. CASE r.deleted
    <3>1. res'[w] = "ERR05" /\ r \in deleted
      BY <1>3, <2>1 DEF Code
    <3> QED
      BY <1>3, <3>1 DEF Deserved, Ends
  <2>2. CASE ~r.deleted
    <3>1. res'[w] = "ERR04" /\ deleted # Visible(w)
      BY <1>3, <2>2 DEF Code
    <3> QED
      BY <3>1 DEF Deserved, Ends
  <2> QED
    BY <2>1, <2>2
<1>4. CASE AddRaises(w)
  <2>1. PICK r \in Found(w, snap[w]) : Finish(w, Code(r))
    BY <1>4 DEF AddRaises
  <2>2. pc[w] = "add" /\ op[w].kind = "add"
    BY <1>4 DEF AddRaises
  <2> QED
    BY <1>3, <2>1, <2>2, Tells, SearchSees
<1>5. CASE UpdateRaises(w)
  <2>1. PICK r \in Found(w, snap[w]) : Finish(w, Code(r))
    BY <1>5 DEF UpdateRaises
  <2>2. pc[w] = "update" /\ op[w].kind = "update"
    BY <1>1, <1>5 DEF UpdateRaises, OpInv
  <2> QED
    BY <1>3, <2>1, <2>2, Tells, SearchSees
<1>6. CASE AddCollides(w)
  <2>1. /\ pc[w] = "add" /\ (op[w].kind = "add" => Found(w, snap[w]) = {})
        /\ Taken(op[w].items[1], NoTarget)
    BY <1>6 DEF AddCollides, CanInsert
  <2>2. Clashing(w, table, Groups) # {}
    <3>1. Clashing(w, table \ {NoTarget}, Groups) # {}
      BY <2>1, OneItem, TakenClashes
    <3> QED
      BY <3>1 DEF Clashing, Among
  <2>3. op[w].kind # "ignore" => op[w].kind = "add" /\ Visible(w) = {}
    BY <1>1, <2>1, SearchSees DEF OpInv
  <2>4. res'[w] = IF op[w].kind = "ignore" THEN "skipped"
                  ELSE IF Searched(w) # {} THEN "ERR04" ELSE "23505"
    BY <1>6, Tells DEF AddCollides
  <2> QED
    BY <2>2, <2>3, <2>4 DEF Deserved, Ends
<1>7. CASE DetectRaises(w)
  <2>1. pc[w] = "detect" /\ Found(w, table) # {} /\ Found(w, table) = Visible(w)
    BY <1>7, SearchSees DEF DetectRaises
  <2>2. res'[w] = IF \A r \in Visible(w) : r.deleted THEN "ERR05" ELSE "ERR04"
    BY <1>7, <2>1, Tells DEF DetectRaises
  <2>3. (\A r \in Visible(w) : r.deleted) <=> deleted = Visible(w)
    OBVIOUS
  <2> QED
    BY <2>1, <2>2, <2>3 DEF Deserved, Ends
<1>8. CASE \E outcome \in {"ok", "23505", "aborted", "ERR01", "ERR03", "ERR10"} : Finish(w, outcome)
  BY <1>2, <1>8, Tells
<1> QED
  BY <1>1, <1>4, <1>5, <1>6, <1>7, <1>8 DEF Ending, Raises

(* ERR05 is told for a soft-deleted row that holds the value, and for a    *)
(* batch only if no live one does; ERR04 for a live one, or for one that   *)
(* the statement could not find and that holds it now; an insert is skipped*)
(* for a row that is there (add 665-767, addMany 2436-2508).               *)
THEOREM AllConflictsDeserved == Spec => ConflictsAreDeserved
<1>1. IInv /\ [Next]_vars => [\A w \in Writers : Deserved(w)]_vars
  BY AllDeserved
<1>2. (\A w \in Writers : Deserved(w)) =>
        (\A w \in Writers :
           LET deleted == {r \in Visible(w) : r.deleted}
           IN  /\ Ends(w, "ERR05") =>
                    /\ deleted # {}
                    /\ op[w].kind = "addMany" => deleted = Visible(w)
               /\ Ends(w, "ERR04") =>
                    \/ deleted # Visible(w)
                    \/ op[w].kind = "add" /\ Visible(w) = {} /\ Clashing(w, table, Groups) # {}
               /\ Ends(w, "skipped") => Clashing(w, table, Groups) # {})
  BY DEF Deserved
<1> QED
  BY <1>1, <1>2, Inductive, PTL DEF Spec, ConflictsAreDeserved

Reasoned(w) ==
  Ends(w, "23505") =>
    /\ Visible(w) = {}
    /\ \/ \E own \in IF op[w].kind = "update" THEN Current(w, table) ELSE {NoTarget} :
            Clashing(w, table \ {own}, Groups) # {}
       \/ \E i, j \in DOMAIN op[w].items :
            i # j /\ Clash(op[w].items[i], op[w].items[j], Groups)

LEMMA AllReasoned ==
  ASSUME IInv, Next, NEW w \in Writers
  PROVE  Reasoned(w)
<1> SUFFICES ASSUME pc[w] # "idle", pc'[w] = "idle", res'[w] = "23505" PROVE Reasoned(w)
  BY DEF Reasoned, Ends
<1>1. Ending(w) /\ OpInv(w) /\ FreshInv(w) /\ TypeOK
  BY WhoEnds DEF IInv
<1>2. ASSUME NEW outcome, Finish(w, outcome), outcome # "23505"
      PROVE  FALSE
  BY <1>2, Tells
<1>3. CASE AddCollides(w)
  <2>1. /\ pc[w] = "add" /\ (op[w].kind = "add" => Found(w, snap[w]) = {})
        /\ Taken(op[w].items[1], NoTarget)
    BY <1>3 DEF AddCollides, CanInsert
  <2>3. Clashing(w, table \ {NoTarget}, Groups) # {} /\ op[w].kind # "update"
    BY <1>1, <2>1, OneItem, TakenClashes DEF OpInv
  <2>4. op[w].kind # "ignore"
    <3>1. Finish(w, IF op[w].kind = "ignore" THEN "skipped"
                    ELSE IF Searched(w) # {} THEN "ERR04" ELSE "23505")
      BY <1>3 DEF AddCollides
    <3> QED
      BY <1>2, <3>1
  <2>5. Visible(w) = {}
    BY <1>1, <2>1, <2>4, SearchSees DEF OpInv
  <2> QED
    BY <2>3, <2>5 DEF Reasoned
<1>4. CASE UpdateCollides(w)
  <2>1. PICK t \in Current(w, snap[w] \cap table) : Taken(op[w].items[1], t)
    BY <1>4 DEF UpdateCollides
  <2>2. t \in Current(w, table) /\ t \in Current(w, snap[w])
    BY DEF Current, Same
  <2>3. pc[w] = "update" /\ Found(w, snap[w]) = {} /\ op[w].kind = "update"
    BY <1>1, <1>4, <2>2 DEF UpdateCollides, CanUpdate, OpInv
  <2>4. Clashing(w, table \ {t}, Groups) # {}
    BY <2>1, <2>3, OneItem, TakenClashes
  <2> QED
    BY <2>2, <2>3, <2>4, SearchSees DEF Reasoned
<1>5. CASE LoadFails(w)
  <2> DEFINE n == Cardinality(fresh[w])
  <2>1. pc[w] = "load" /\ n < Len(op[w].items) /\ Refused(w)
    BY <1>5 DEF LoadFails, Loading
  <2>2. n \in Nat
    BY <1>1, FS_CardinalityType DEF FreshInv
  <2>3. n + 1 \in DOMAIN op[w].items /\ NextItem(w) = op[w].items[n + 1]
    BY <1>1, <2>1, <2>2, OpTypes DEF NextItem
  <2>4. Visible(w) = {} /\ op[w].kind # "update"
    BY <1>1, <2>1, SearchSees DEF OpInv
  <2>5. CASE Taken(NextItem(w), NoTarget)
    <3>1. Clashing(w, table \ {NoTarget}, Groups) # {}
      BY <2>3, <2>5, TakenClashes
    <3> QED
      BY <2>4, <3>1 DEF Reasoned
  <2>6. CASE \E r \in fresh[w] : Clash(NextItem(w), r.val, Groups)
    <3>1. PICK r \in fresh[w] : Clash(NextItem(w), r.val, Groups)
      BY <2>6
    <3>2. PICK i \in DOMAIN op[w].items : i <= n /\ r = NewRow(op[w].items[i])
      BY <1>1 DEF FreshInv
    <3>3. r.val = op[w].items[i]
      BY <3>2 DEF NewRow
    <3>4. n + 1 # i
      BY <1>1, <2>2, <3>2, OpTypes
    <3> QED
      BY <2>3, <2>4, <3>1, <3>3, <3>4 DEF Reasoned
  <2> QED
    BY <2>1, <2>5, <2>6 DEF Refused
<1>6. ASSUME NEW r
      PROVE  Code(r) # "23505"
  BY DEF Code
<1>7. CASE DetectRaises(w)
  <2>1. Finish(w, IF \A r \in Found(w, table) : r.deleted THEN "ERR05" ELSE "ERR04")
    BY <1>7 DEF DetectRaises
  <2> QED
    BY <1>2, <2>1
<1>8. CASE AddRaises(w) \/ UpdateRaises(w)
  <2>1. PICK r : Finish(w, Code(r))
    BY <1>8 DEF AddRaises, UpdateRaises
  <2> QED
    BY <1>2, <1>6, <2>1
<1>9. CASE \E outcome \in {"ok", "aborted", "ERR01", "ERR03", "ERR10"} : Finish(w, outcome)
  BY <1>2, <1>9
<1> QED
  BY <1>1, <1>3, <1>4, <1>5, <1>7, <1>8, <1>9 DEF Ending, Raises

(* PostgreSQL's own error reaches the caller only if no row that its       *)
(* statement could see and ask for has a value, and one that it could not, *)
(* or the batch itself, has (add 670-675, addMany 2510-2513, update 1730). *)
THEOREM AllRawErrorsReasoned == Spec => RawErrorsHaveAReason
<1>1. IInv /\ [Next]_vars => [\A w \in Writers : Reasoned(w)]_vars
  BY AllReasoned
<1>2. (\A w \in Writers : Reasoned(w)) =>
        (\A w \in Writers : Ends(w, "23505") =>
           /\ Visible(w) = {}
           /\ \/ \E own \in IF op[w].kind = "update" THEN Current(w, table) ELSE {NoTarget} :
                   Clashing(w, table \ {own}, Groups) # {}
              \/ \E i, j \in DOMAIN op[w].items :
                   i # j /\ Clash(op[w].items[i], op[w].items[j], Groups))
  BY DEF Reasoned
<1> QED
  BY <1>1, <1>2, Inductive, PTL DEF Spec, RawErrorsHaveAReason

(***************************************************************************)
(* The row that was read                                                   *)
(***************************************************************************)

(* The row that w has read is there, or w has been overtaken; so is it in  *)
(* the snapshot of its statement; what a statement misses, others changed. *)
LostInv(w) ==
  /\ pc[w] \in {"read", "update"} => op[w].target \in table \/ w \in overtaken
  /\ pc[w] = "update" => op[w].target \in snap[w] \/ w \in overtaken
  /\ pc[w] \in {"probe", "fields"} => w \in overtaken

(* Who is at work stays overtaken, and the row it has read goes only so.   *)
Noticed(u) ==
  pc[u] # "idle" => /\ u \in overtaken => u \in overtaken'
                    /\ op[u].target \in table => op[u].target \in table' \/ u \in overtaken'

LEMMA Replaced ==
  ASSUME NEW u \in Writers, NEW r, overtaken' = overtaken \cup Holders(r), table \ {r} \subseteq table'
  PROVE  Noticed(u)
BY DEF Noticed, Holders

LEMMA Notice ==
  ASSUME Next, NEW u \in Writers
  PROVE  Noticed(u)
<1>1. CASE Elsewhere
  <2>1. PICK r \in table : overtaken' = overtaken \cup Holders(r) /\ table \ {r} \subseteq table'
    BY <1>1 DEF Elsewhere, SoftDelete, HardDelete
  <2> QED
    BY <2>1, Replaced
<1>2. ASSUME NEW w \in Writers, Called(w)
      PROVE  Noticed(u)
  <2>1. pc[w] = "idle" /\ table' = table /\ overtaken' = overtaken \ {w}
    BY <1>2 DEF Called, Call
  <2> QED
    BY <2>1 DEF Noticed
<1>3. ASSUME NEW w \in Writers, Going(w)
      PROVE  Noticed(u)
  <2>1. table' = table /\ overtaken' = overtaken
    BY <1>3 DEF Going, Start, DetectClean, LoadItem, UpdateMisses, ProbeMisses, FieldMissing
  <2> QED
    BY <2>1 DEF Noticed
<1>4. ASSUME NEW w \in Writers, Ending(w)
      PROVE  Noticed(u)
  <2>1. CASE UpdateWrites(w)
    <3>1. PICK r : overtaken' = overtaken \cup Holders(r) /\ table \ {r} \subseteq table'
      BY <2>1 DEF UpdateWrites
    <3> QED
      BY <3>1, Replaced
  <2>2. CASE ~UpdateWrites(w)
    <3>1. table \subseteq table' /\ overtaken' = overtaken
      BY <1>4, <2>2 DEF Ending, Raises, AddRaises, AddInserts, AddCollides, DetectRaises, LoadFails,
                        CommitMany, BreakDeadlock, UpdateRaises, UpdateCollides, ProbeFinds,
                        FieldFound, Vanished
    <3> QED
      BY <3>1 DEF Noticed
  <2> QED
    BY <2>1, <2>2
<1> QED
  BY <1>1, <1>2, <1>3, <1>4, NextForms

LEMMA KeptLost ==
  ASSUME NEW u \in Writers, LostInv(u), Noticed(u), Kept(u)
  PROVE  LostInv(u)'
BY DEF LostInv, Noticed, Kept

(* The row that was read has its own identity and version.                 *)
LEMMA TargetCurrent ==
  ASSUME NEW w, NEW R, op[w].target \in R
  PROVE  op[w].target \in Current(w, R) /\ op[w].target \in Same(w, R)
BY DEF Current, Same

LEMMA OwnLost ==
  ASSUME IInv, Next, NEW w \in Writers, LostInv(w), Called(w) \/ Going(w) \/ Ending(w)
  PROVE  LostInv(w)'
<1>1. TypeOK
  BY DEF IInv
<1>2. Noticed(w)
  BY Notice
<1>3. CASE Called(w)
  <2>1. PICK kind \in Kinds, items \in Batches \cup {<<v>> : v \in Items},
             keys \in KeySets \cup {Groups}, target \in table \cup {NoTarget} :
               Call(w, kind, items, keys, target)
    BY <1>3 DEF Called
  <2> DEFINE k == [kind |-> kind, items |-> items, keys |-> keys, target |-> target]
             s == CASE kind = "addMany" -> "detect" [] kind = "update" -> "read" [] OTHER -> "add"
  <2>2. pc' = [pc EXCEPT ![w] = s] /\ op' = [op EXCEPT ![w] = k] /\ table' = table
    BY <2>1 DEF Call
  <2>3. k.target = target
    OBVIOUS
  <2>4. kind = "update" => target \in table
    BY <2>1 DEF Call
  <2>5. s \in {"detect", "read", "add"} /\ (s = "read" => kind = "update")
    <3>1. kind \in {"add", "ignore", "addMany", "update"}
      BY UniqueInsertsAssumption
    <3> QED
      BY <3>1
  <2> HIDE DEF k, s
  <2>6. pc'[w] = s /\ op'[w] = k
    BY <1>1, <2>2 DEF TypeOK
  <2> QED
    BY <2>2, <2>3, <2>4, <2>5, <2>6 DEF LostInv
<1>4. CASE Start(w)
  <2>1. /\ pc[w] = "read" /\ pc'[w] = "update" /\ op'[w] = op[w]
        /\ table' = table /\ overtaken' = overtaken /\ Same(w, table) \subseteq snap'[w]
    BY <1>1, <1>4 DEF Start, TypeOK
  <2>2. op[w].target \in table => op[w].target \in snap'[w]
    BY <2>1, TargetCurrent
  <2> QED
    BY <2>1, <2>2 DEF LostInv
<1>5. CASE DetectClean(w) \/ LoadItem(w)
  <2>1. pc'[w] = "load"
    BY <1>1, <1>5 DEF DetectClean, LoadItem, Loading, TypeOK
  <2> QED
    BY <2>1 DEF LostInv
<1>6. CASE UpdateMisses(w)
  <2>1. /\ pc[w] = "update" /\ Current(w, snap[w] \cap table) = {}
        /\ pc'[w] = "probe" /\ overtaken' = overtaken
    BY <1>1, <1>6 DEF UpdateMisses, CanUpdate, TypeOK
  <2>2. op[w].target \notin snap[w] \cap table
    BY <2>1, TargetCurrent
  <2> QED
    BY <2>1, <2>2 DEF LostInv
<1>7. CASE ProbeMisses(w) \/ FieldMissing(w)
  <2>1. pc[w] \in {"probe", "fields"} /\ pc'[w] = "fields" /\ overtaken' = overtaken
    BY <1>1, <1>7 DEF ProbeMisses, FieldMissing, TypeOK
  <2> QED
    BY <2>1 DEF LostInv
<1>8. CASE Ending(w)
  <2>1. pc'[w] = "idle"
    BY <1>1, <1>8, EndingFinishes, FinishStep
  <2> QED
    BY <2>1 DEF LostInv
<1> QED
  BY <1>3, <1>4, <1>5, <1>6, <1>7, <1>8 DEF Going

(* A step of w leaves the others alone.                                    *)
LEMMA OthersKept ==
  ASSUME IInv, NEW w \in Writers, Called(w) \/ Going(w) \/ Ending(w), NEW u \in Writers \ {w}
  PROVE  Kept(u)
<1>1. TypeOK
  BY DEF IInv
<1>2. CASE Called(w)
  BY <1>1, <1>2 DEF Called, Call, TypeOK, Kept
<1>3. CASE Going(w)
  BY <1>1, <1>3 DEF Going, Start, DetectClean, LoadItem, UpdateMisses, ProbeMisses, FieldMissing,
                    TypeOK, Kept
<1>4. CASE Ending(w)
  BY <1>1, <1>4, EndingFinishes, FinishStep
<1> QED
  BY <1>2, <1>3, <1>4

Lost == \A w \in Writers : LostInv(w)

LEMMA LostKept == IInv /\ Lost /\ [Next]_vars => Lost'
<1> SUFFICES ASSUME IInv, Lost, [Next]_vars, NEW u \in Writers PROVE LostInv(u)'
  BY DEF Lost
<1>1. LostInv(u)
  BY DEF Lost
<1>2. CASE UNCHANGED vars
  BY <1>1, <1>2 DEF LostInv, vars
<1>3. CASE Next
  <2>1. Noticed(u)
    BY <1>3, Notice
  <2>2. CASE Elsewhere
    BY <1>1, <2>1, <2>2, ElsewhereStep, KeptLost
  <2>3. ASSUME NEW w \in Writers, Called(w) \/ Going(w) \/ Ending(w)
        PROVE  LostInv(u)'
    <3>1. CASE u = w
      BY <1>1, <1>3, <2>3, <3>1, OwnLost
    <3>2. CASE u # w
      BY <1>1, <2>1, <2>3, <3>2, OthersKept, KeptLost
    <3> QED
      BY <3>1, <3>2
  <2> QED
    BY <1>3, <2>2, <2>3, NextForms
<1> QED
  BY <1>2, <1>3

LEMMA LostAlways == Spec => []Lost
<1>1. Init => Lost
  BY DEF Init, Lost, LostInv
<1> QED
  BY <1>1, LostKept, Inductive, PTL DEF Spec

LEMMA OnlyOvertaken ==
  ASSUME IInv, Lost, Next, NEW w \in Writers,
         Ends(w, "ERR01") \/ Ends(w, "ERR03") \/ Ends(w, "ERR10")
  PROVE  w \in overtaken
<1>1. Ending(w)
  BY WhoEnds DEF Ends
<1>2. res'[w] \in {"ERR01", "ERR03", "ERR10"}
  BY DEF Ends
<1>3. ASSUME NEW outcome, Finish(w, outcome), outcome \notin {"ERR01", "ERR03", "ERR10"}
      PROVE  FALSE
  BY <1>2, <1>3, Tells
<1>4. ASSUME NEW r, Finish(w, Code(r))
      PROVE  FALSE
  BY <1>3, <1>4 DEF Code
<1>5. CASE ProbeFinds(w) \/ FieldFound(w) \/ Vanished(w)
  <2>1. pc[w] \in {"probe", "fields"}
    BY <1>5 DEF ProbeFinds, FieldFound, Vanished
  <2> QED
    BY <2>1 DEF Lost, LostInv
<1>6. CASE DetectRaises(w)
  <2>1. Finish(w, IF \A r \in Found(w, table) : r.deleted THEN "ERR05" ELSE "ERR04")
    BY <1>6 DEF DetectRaises
  <2> QED
    BY <1>3, <2>1
<1>7. CASE AddCollides(w)
  <2>1. Finish(w, IF op[w].kind = "ignore" THEN "skipped"
                  ELSE IF Searched(w) # {} THEN "ERR04" ELSE "23505")
    BY <1>7 DEF AddCollides
  <2> QED
    BY <1>3, <2>1
<1>8. CASE AddRaises(w) \/ UpdateRaises(w)
  <2>1. PICK r : Finish(w, Code(r))
    BY <1>8 DEF AddRaises, UpdateRaises
  <2> QED
    BY <1>4, <2>1
<1>9. CASE \E outcome \in {"ok", "23505", "aborted"} : Finish(w, outcome)
  BY <1>3, <1>9
<1> QED
  BY <1>1, <1>5, <1>6, <1>7, <1>8, <1>9 DEF Ending, Raises

(* An update is told that its row has changed, has gone, or has lost its   *)
(* identity only if another writer has changed or deleted the row since    *)
(* its caller read it, whatever runs between the read, the snapshot, the   *)
(* lock and the probes (update 1696-1752, disambiguateZeroRows 158-193).   *)
THEOREM AllMissesDeserved == Spec => MissesAreDeserved
<1>1. IInv /\ Lost /\ [Next]_vars =>
        [\A w \in Writers :
           Ends(w, "ERR01") \/ Ends(w, "ERR03") \/ Ends(w, "ERR10") => w \in overtaken]_vars
  BY OnlyOvertaken
<1> QED
  BY <1>1, Inductive, LostAlways, PTL DEF Spec, MissesAreDeserved
=============================================================================
