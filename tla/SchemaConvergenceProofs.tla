---------------------- MODULE SchemaConvergenceProofs ----------------------
(***************************************************************************)
(* Proofs about SchemaConvergence: entities of any number of columns, any  *)
(* number of edits, patches of any length.                                 *)
(***************************************************************************)
EXTENDS SchemaConvergence, FiniteSetTheorems, SequenceTheorems, WellFoundedInduction, TLAPS

(***************************************************************************)
(* Induction, over the positions of a sequence and the size of a set       *)
(***************************************************************************)

(* A set that holds 0 and is closed under successor holds every number.    *)
LEMMA NatSets ==
  ASSUME NEW S, 0 \in S, \A n \in Nat : n \in S => n + 1 \in S
  PROVE  Nat \subseteq S
<1> DEFINE R == OpToRel(<, Nat)
           T == Nat \ S
<1>1. IsWellFoundedOn(R, Nat)
  BY NatLessThanWellFounded
<1>2. ASSUME NEW x \in Nat, NEW y \in Nat, x < y PROVE <<x, y>> \in R
  BY <1>2 DEF OpToRel
<1> HIDE DEF R
<1>3. SUFFICES ASSUME T # {} PROVE FALSE
  OBVIOUS
<1>4. PICK x \in T : \A y \in T : ~ (<<y, x>> \in R)
  BY <1>1, <1>3, WFMin
<1>5. x # 0 /\ x - 1 \in Nat /\ x - 1 < x
  BY <1>4
<1>6. x - 1 \in S
  BY <1>2, <1>4, <1>5
<1> QED
  BY <1>4, <1>5, <1>6

(* The same for the numbers up to n. *)
LEMMA UpTo ==
  ASSUME NEW n \in Nat, NEW S, 0 \in S, \A m \in 0 .. n - 1 : m \in S => m + 1 \in S
  PROVE  0 .. n \subseteq S
<1> DEFINE T == S \cup {m \in Nat : m > n}
<1>1. 0 \in T
  OBVIOUS
<1>2. ASSUME NEW m \in Nat, m \in T PROVE m + 1 \in T
  <2>1. CASE m >= n
    BY <2>1
  <2>2. CASE m < n
    BY <1>2, <2>2
  <2> QED
    BY <2>1, <2>2
<1> HIDE DEF T
<1>3. Nat \subseteq T
  BY <1>1, <1>2, NatSets
<1> QED
  BY <1>3 DEF T

(* A recursion over 1 .. n in a set has a value at every step.             *)
Recursion(n, S, b, F) ==
  \E g \in [0 .. n -> S] : g[0] = b /\ \A i \in 1 .. n : g[i] = F[<<i, g[i - 1]>>]

LEMMA Iterated ==
  ASSUME NEW n \in Nat, NEW S, NEW b \in S, NEW F \in [(1 .. n) \X S -> S]
  PROVE  Recursion(n, S, b, F)
<1> DEFINE Upto(g, m) == g[0] = b /\ \A i \in 1 .. m : g[i] = F[<<i, g[i - 1]>>]
           I == {m \in 0 .. n : \E g \in [0 .. n -> S] : Upto(g, m)}
<1>1. 0 \in I
  <2> DEFINE g == [i \in 0 .. n |-> b]
  <2>1. g \in [0 .. n -> S] /\ Upto(g, 0)
    OBVIOUS
  <2> HIDE DEF Upto, g
  <2> QED
    BY <2>1
<1>2. ASSUME NEW m \in 0 .. n - 1, m \in I PROVE m + 1 \in I
  <2>1. PICK g \in [0 .. n -> S] : Upto(g, m)
    BY <1>2
  <2> DEFINE x == F[<<m + 1, g[m]>>]
             h == [i \in 0 .. n |-> IF i = m + 1 THEN x ELSE g[i]]
  <2>2. x \in S
    OBVIOUS
  <2>3. h[m + 1] = F[<<m + 1, g[m]>>]
    OBVIOUS
  <2> HIDE DEF x
  <2>4. h \in [0 .. n -> S]
    BY <2>2
  <2>5. h[0] = b
    BY <2>1
  <2>6. ASSUME NEW i \in 1 .. m + 1 PROVE h[i] = F[<<i, h[i - 1]>>]
    <3>1. h[i - 1] = g[i - 1] /\ i - 1 \in 0 .. n
      OBVIOUS
    <3>2. CASE i = m + 1
      <4>1. i - 1 = m
        BY <3>2
      <4> QED
        BY <2>3, <3>1, <3>2, <4>1
    <3>3. CASE i # m + 1
      <4>1. i \in 1 .. m /\ h[i] = g[i]
        BY <3>3
      <4> QED
        BY <2>1, <3>1, <4>1
    <3> QED
      BY <3>2, <3>3
  <2> HIDE DEF h
  <2>7. Upto(h, m + 1)
    BY <2>5, <2>6
  <2> HIDE DEF Upto
  <2> QED
    BY <2>4, <2>7
<1> HIDE DEF I
<1>3. 0 .. n \subseteq I
  BY <1>1, <1>2, UpTo
<1>4. n \in I
  BY <1>3
<1> QED
  BY <1>4 DEF I, Recursion

(***************************************************************************)
(* Columns                                                                 *)
(***************************************************************************)

ColumnType == [name: Names, type: StoredType, nullable: BOOLEAN]

(* A declared type and the same type as the catalog has it.                *)
LEMMA StoredFacts ==
  ASSUME NEW t \in Types
  PROVE  /\ t \in [base: STRING, typmod: STRING, at: {"typname"}]
         /\ Stored(t) \in StoredType
         /\ Stored(t) = [base |-> t.base, typmod |-> t.typmod, at |-> "formatType"]
<1>1. t \in [base: STRING, typmod: STRING, at: {"typname"}]
  BY TypesAssumption
<1>2. Stored(t) = [base |-> t.base, typmod |-> t.typmod, at |-> "formatType"]
  BY <1>1 DEF Stored
<1> QED
  BY <1>1, <1>2 DEF StoredType

LEMMA AtFacts ==
  ASSUME NEW columns, NEW n \in NamesOf(columns)
  PROVE  At(columns, n) \in DOMAIN columns /\ columns[At(columns, n)].name = n
<1>1. \E i \in DOMAIN columns : columns[i].name = n
  BY DEF NamesOf
<1> QED
  BY <1>1 DEF At

LEMMA AtUnique ==
  ASSUME NEW columns, Distinct(columns), NEW j \in DOMAIN columns
  PROVE  At(columns, columns[j].name) = j /\ columns[j].name \in NamesOf(columns)
<1>1. columns[j].name \in NamesOf(columns)
  BY DEF NamesOf
<1> QED
  BY <1>1, AtFacts DEF Distinct

LEMMA EntityFacts ==
  ASSUME NEW e \in Entities
  PROVE  /\ Len(e) \in Nat /\ DOMAIN e = 1 .. Len(e) /\ Distinct(e)
         /\ \A i \in DOMAIN e :
              /\ e[i] \in Columns /\ e[i].name \in Names /\ e[i].type \in Types
              /\ e[i].nullable \in BOOLEAN /\ e[i].index \in Indexing /\ e[i].rule \in Rules
         /\ NamesOf(e) \subseteq Names
BY ColumnsAssumption DEF Entities, NamesOf

LEMMA TableFacts ==
  ASSUME NEW d, WellFormed(d)
  PROVE  /\ Len(d.columns) \in Nat /\ DOMAIN d.columns = 1 .. Len(d.columns)
         /\ d.columns \in Seq(ColumnType) /\ Distinct(d.columns)
         /\ \A i \in DOMAIN d.columns :
              /\ d.columns[i] \in ColumnType /\ d.columns[i].name \in Names
              /\ d.columns[i].type \in StoredType /\ d.columns[i].nullable \in BOOLEAN
         /\ NamesOf(d.columns) \subseteq Names
         /\ \A x \in d.indexes : x \in StoredIndex /\ x.on \in DOMAIN d.columns
         /\ \A f \in d.foreignKeys : f \in StoredForeignKey /\ f.on \in DOMAIN d.columns
<1>1. d.columns \in Seq(ColumnType)
  BY DEF WellFormed, ColumnType
<1>2. \A i \in DOMAIN d.columns : d.columns[i] \in ColumnType
  BY <1>1
<1> QED
  BY <1>1, <1>2 DEF WellFormed, ColumnType, NamesOf

LEMMA StatementFields ==
  ASSUME NEW s \in Statement
  PROVE  /\ s.op \in {"createTable", "addColumn", "createIndex", "dropIndex", "rename", "alterType",
                      "alterNullability", "addForeignKey"}
         /\ s # None
         /\ s.op = "createTable" => s.columns \in Entities
         /\ s.op = "addColumn" => s.column \in Columns
         /\ s.op = "createIndex" => s.index \in DeclaredIndex
         /\ s.op = "rename" => s.from \in Names /\ s.to \in Names
         /\ s.op = "alterType" => s.name \in Names /\ s.type \in Types
         /\ s.op = "alterNullability" => s.name \in Names /\ s.nullable \in BOOLEAN
         /\ s.op = "addForeignKey" => s.foreignKey \in DeclaredForeignKey
BY DEF Statement, None

(***************************************************************************)
(* What a statement does to a table                                        *)
(***************************************************************************)

LEMMA CreatedFacts ==
  ASSUME NEW e \in Entities
  PROVE  LET d == Created(e)
         IN  /\ WellFormed(d) /\ d.exists /\ d.indexes = {} /\ NamesOf(d.columns) = NamesOf(e)
             /\ DOMAIN d.columns = DOMAIN e
             /\ \A i \in DOMAIN e : d.columns[i] = Column(e[i].name, Stored(e[i].type), e[i].nullable)
             /\ d.foreignKeys = {PlaceForeignKey(e, f) : f \in EntityForeignKeys(e)}
<1> DEFINE d == Created(e)
           cs == [i \in DOMAIN e |-> Column(e[i].name, Stored(e[i].type), e[i].nullable)]
           fs == {PlaceForeignKey(e, f) : f \in EntityForeignKeys(e)}
<1>1. d.exists /\ d.exists \in BOOLEAN /\ d.columns = cs /\ d.indexes = {} /\ d.foreignKeys = fs
  BY DEF Created, Table
<1>2. /\ cs \in Seq(ColumnType) /\ DOMAIN cs = DOMAIN e
      /\ \A i \in DOMAIN e : cs[i] = Column(e[i].name, Stored(e[i].type), e[i].nullable) /\ cs[i].name = e[i].name
  <2>1. \A i \in DOMAIN e : Column(e[i].name, Stored(e[i].type), e[i].nullable) \in ColumnType
    BY EntityFacts, StoredFacts DEF Column, ColumnType
  <2>2. cs = [i \in 1 .. Len(e) |-> cs[i]] /\ Len(e) \in Nat
    BY EntityFacts
  <2> QED
    BY <2>1, <2>2, EntityFacts DEF Column
<1>3. NamesOf(cs) = NamesOf(e) /\ Distinct(cs)
  BY <1>2, EntityFacts DEF NamesOf, Distinct
<1>4. \A f \in fs : f \in StoredForeignKey /\ f.on \in DOMAIN e
  <2> SUFFICES ASSUME NEW i \in DOMAIN e
               PROVE  LET f == PlaceForeignKey(e, ForeignKeyOf(e[i]))
                      IN  f \in StoredForeignKey /\ f.on \in DOMAIN e
    BY DEF EntityForeignKeys
  <2>1. At(e, e[i].name) = i
    BY AtUnique, EntityFacts
  <2>2. /\ PlaceForeignKey(e, ForeignKeyOf(e[i])) = [name |-> <<e[i].name, "fkey">>, on |-> i, rule |-> e[i].rule]
        /\ e[i].name \in Names /\ e[i].rule \in Rules /\ i \in Nat
    BY <2>1, EntityFacts DEF PlaceForeignKey, ForeignKeyOf
  <2> QED
    BY <2>2 DEF StoredForeignKey
<1>5. d = [exists |-> TRUE, columns |-> cs, indexes |-> {}, foreignKeys |-> fs]
  BY DEF Created, Table
<1> HIDE DEF d, cs, fs
<1>6. WellFormed(d)
  BY <1>1, <1>2, <1>3, <1>4, <1>5 DEF WellFormed, ColumnType
<1> QED
  BY <1>1, <1>2, <1>3, <1>6 DEF d, cs, fs

(* Columns are kept, and indexes and foreign keys stay on them.            *)
LEMMA TableType ==
  ASSUME NEW d, WellFormed(d), d.exists, NEW columns \in Seq(ColumnType), Distinct(columns),
         DOMAIN d.columns \subseteq DOMAIN columns,
         NEW X, \A x \in X : x \in StoredIndex /\ x.on \in DOMAIN columns,
         NEW F, \A f \in F : f \in StoredForeignKey /\ f.on \in DOMAIN columns
  PROVE  LET t == Table(columns, X, F)
         IN WellFormed(t) /\ t.exists /\ t.columns = columns /\ t.indexes = X /\ t.foreignKeys = F
<1> DEFINE t == Table(columns, X, F)
<1>1. /\ t = [exists |-> TRUE, columns |-> columns, indexes |-> X, foreignKeys |-> F]
      /\ t.exists /\ t.columns = columns /\ t.indexes = X /\ t.foreignKeys = F
  BY DEF Table
<1> HIDE DEF t
<1>2. WellFormed(t)
  BY <1>1 DEF WellFormed, ColumnType
<1> QED
  BY <1>1, <1>2 DEF t

LEMMA AddColumnEffect ==
  ASSUME NEW d, WellFormed(d), NEW s \in Statement, s.op = "addColumn", Accepts(d, s)
  PROVE  LET u == Effect(d, s)
             c == s.column
         IN  /\ WellFormed(u) /\ u.exists /\ d.exists
             /\ u.indexes = d.indexes /\ u.foreignKeys = d.foreignKeys
             /\ \A i \in DOMAIN d.columns : i \in DOMAIN u.columns /\ u.columns[i] = d.columns[i]
             /\ \A i \in DOMAIN u.columns :
                  \/ i \in DOMAIN d.columns
                  \/ /\ u.columns[i] = Column(c.name, Stored(c.type), c.nullable)
                     /\ c.name \notin NamesOf(d.columns)
             /\ NamesOf(u.columns) = NamesOf(d.columns) \cup {c.name}
<1> DEFINE c == s.column
           new == Column(c.name, Stored(c.type), c.nullable)
           cs == Append(d.columns, new)
<1>1. d.exists /\ c \in Columns
  BY StatementFields DEF Accepts
<1>2. CASE c.name \in NamesOf(d.columns)
  <2> DEFINE u == Effect(d, s)
  <2>1. u = d
    BY <1>2 DEF Effect
  <2>2. NamesOf(d.columns) = NamesOf(d.columns) \cup {c.name}
    BY <1>2
  <2> HIDE DEF u
  <2>3. \A i \in DOMAIN d.columns : i \in DOMAIN u.columns /\ u.columns[i] = d.columns[i]
    BY <2>1
  <2>4. DOMAIN u.columns = DOMAIN d.columns /\ NamesOf(u.columns) = NamesOf(d.columns) \cup {c.name}
    BY <2>1, <2>2
  <2>5. WellFormed(u) /\ u.exists /\ u.indexes = d.indexes /\ u.foreignKeys = d.foreignKeys
    BY <1>1, <2>1
  <2> QED
    BY <1>1, <2>3, <2>4, <2>5 DEF u
<1>3. CASE c.name \notin NamesOf(d.columns)
  <2>1. Effect(d, s) = Table(cs, d.indexes, d.foreignKeys)
    BY <1>3 DEF Effect
  <2>2. new \in ColumnType /\ new.name = c.name
    <3>1. c.name \in Names /\ c.type \in Types /\ c.nullable \in BOOLEAN
      BY <1>1, ColumnsAssumption
    <3> QED
      BY <3>1, StoredFacts DEF Column, ColumnType
  <2> HIDE DEF new
  <2>3. /\ cs \in Seq(ColumnType) /\ DOMAIN cs = DOMAIN d.columns \cup {Len(d.columns) + 1}
        /\ cs[Len(d.columns) + 1] = new /\ \A i \in DOMAIN d.columns : cs[i] = d.columns[i]
    BY <2>2, TableFacts
  <2> HIDE DEF cs
  <2>4. NamesOf(cs) = NamesOf(d.columns) \cup {c.name}
    BY <2>2, <2>3 DEF NamesOf
  <2>5. Distinct(cs)
    BY <1>3, <2>2, <2>3, TableFacts DEF Distinct, NamesOf
  <2>6. /\ \A x \in d.indexes : x \in StoredIndex /\ x.on \in DOMAIN cs
        /\ \A f \in d.foreignKeys : f \in StoredForeignKey /\ f.on \in DOMAIN cs
    BY <2>3, TableFacts
  <2>7. LET t == Table(cs, d.indexes, d.foreignKeys)
        IN  /\ WellFormed(t) /\ t.exists /\ t.columns = cs /\ t.indexes = d.indexes
            /\ t.foreignKeys = d.foreignKeys
    BY <1>1, <2>3, <2>5, <2>6, TableType
  <2> QED
    BY <1>1, <1>3, <2>1, <2>3, <2>4, <2>7 DEF new
<1> QED
  BY <1>2, <1>3

LEMMA CreateIndexEffect ==
  ASSUME NEW d, WellFormed(d), NEW s \in Statement, s.op = "createIndex", Accepts(d, s)
  PROVE  LET u == Effect(d, s)
         IN  /\ WellFormed(u) /\ u.exists = d.exists /\ u.columns = d.columns /\ u.foreignKeys = d.foreignKeys
             /\ d.indexes \subseteq u.indexes
             /\ \E x \in u.indexes : x.name = s.index.name
<1> DEFINE new == PlaceIndex(d.columns, s.index, Printed(s.index.where))
<1>1. s.index \in DeclaredIndex /\ s.index.on \in NamesOf(d.columns)
  BY StatementFields DEF Accepts
<1>2. CASE \E x \in d.indexes : x.name = s.index.name
  <2>1. Effect(d, s) = d
    BY <1>2 DEF Effect
  <2> QED
    BY <1>1, <1>2, <2>1
<1>3. CASE ~ \E x \in d.indexes : x.name = s.index.name
  <2>1. Effect(d, s) = Table(d.columns, d.indexes \cup {new}, d.foreignKeys)
    BY <1>3 DEF Effect
  <2>2. d.exists
    <3>1. DOMAIN d.columns # {}
      BY <1>1, AtFacts
    <3> QED
      BY <3>1 DEF WellFormed, NoTable
  <2>3. At(d.columns, s.index.on) \in DOMAIN d.columns
    BY <1>1, AtFacts
  <2>4. new \in StoredIndex /\ new.on \in DOMAIN d.columns /\ new.name = s.index.name
    <3>1. Printed(s.index.where) \in {"", "(predicate)"}
      BY <1>1 DEF DeclaredIndex, Printed
    <3>2. At(d.columns, s.index.on) \in Nat
      BY <2>3, TableFacts
    <3> QED
      BY <1>1, <2>3, <3>1, <3>2 DEF PlaceIndex, DeclaredIndex, StoredIndex, NamedFor
  <2> HIDE DEF new
  <2>5. LET t == Table(d.columns, d.indexes \cup {new}, d.foreignKeys)
        IN  /\ WellFormed(t) /\ t.exists /\ t.columns = d.columns /\ t.indexes = d.indexes \cup {new}
            /\ t.foreignKeys = d.foreignKeys
    BY <2>2, <2>4, TableFacts, TableType
  <2> QED
    BY <2>1, <2>2, <2>4, <2>5
<1> QED
  BY <1>2, <1>3

LEMMA DropIndexEffect ==
  ASSUME NEW d, WellFormed(d), NEW s \in Statement, s.op = "dropIndex"
  PROVE  LET u == Effect(d, s)
         IN  /\ WellFormed(u) /\ u.exists = d.exists /\ u.columns = d.columns /\ u.foreignKeys = d.foreignKeys
             /\ u.indexes = {x \in d.indexes : x.name # s.name}
<1> DEFINE u == Effect(d, s)
<1>1. u = [d EXCEPT !.indexes = {x \in d.indexes : x.name # s.name}]
  BY DEF Effect
<1>2. /\ u.exists = d.exists /\ u.columns = d.columns /\ u.foreignKeys = d.foreignKeys
      /\ u.indexes = {x \in d.indexes : x.name # s.name}
      /\ u \in [exists: BOOLEAN, columns: Seq([name: Names, type: StoredType, nullable: BOOLEAN]),
                indexes: SUBSET StoredIndex, foreignKeys: SUBSET StoredForeignKey]
  BY <1>1 DEF WellFormed
<1>3. ~d.exists => u = NoTable
  <2> SUFFICES ASSUME ~d.exists PROVE u = NoTable
    OBVIOUS
  <2>1. d = NoTable
    BY DEF WellFormed
  <2>2. NoTable.indexes = {}
    BY DEF NoTable
  <2>3. u = [NoTable EXCEPT !.indexes = {}]
    BY <1>1, <2>1, <2>2
  <2> QED
    BY <2>3 DEF NoTable
<1> HIDE DEF u
<1>4. WellFormed(u)
  BY <1>2, <1>3 DEF WellFormed
<1> QED
  BY <1>2, <1>4 DEF u

LEMMA ForeignKeyEffect ==
  ASSUME NEW d, WellFormed(d), NEW s \in Statement, s.op = "addForeignKey", Accepts(d, s)
  PROVE  LET u == Effect(d, s)
         IN  /\ WellFormed(u) /\ u.exists /\ d.exists /\ u.columns = d.columns /\ u.indexes = d.indexes
             /\ u.foreignKeys = d.foreignKeys \cup {PlaceForeignKey(d.columns, s.foreignKey)}
<1> DEFINE new == PlaceForeignKey(d.columns, s.foreignKey)
<1>1. s.foreignKey \in DeclaredForeignKey /\ s.foreignKey.on \in NamesOf(d.columns)
  BY StatementFields DEF Accepts
<1>2. At(d.columns, s.foreignKey.on) \in DOMAIN d.columns
  BY <1>1, AtFacts
<1>3. d.exists
  <2>1. DOMAIN d.columns # {}
    BY <1>2
  <2> QED
    BY <2>1 DEF WellFormed, NoTable
<1>4. new \in StoredForeignKey /\ new.on \in DOMAIN d.columns
  <2>1. At(d.columns, s.foreignKey.on) \in Nat
    BY <1>2, TableFacts
  <2> QED
    BY <1>1, <1>2, <2>1 DEF PlaceForeignKey, DeclaredForeignKey, StoredForeignKey
<1>5. Effect(d, s) = Table(d.columns, d.indexes, d.foreignKeys \cup {new})
  BY DEF Effect
<1> HIDE DEF new
<1>6. LET t == Table(d.columns, d.indexes, d.foreignKeys \cup {new})
      IN  /\ WellFormed(t) /\ t.exists /\ t.columns = d.columns /\ t.indexes = d.indexes
          /\ t.foreignKeys = d.foreignKeys \cup {new}
  BY <1>3, <1>4, TableFacts, TableType
<1> QED
  BY <1>3, <1>5, <1>6 DEF new

(* A column is renamed or altered: the others stay, each where it was.     *)
LEMMA ColumnEffect ==
  ASSUME NEW d, WellFormed(d), NEW n \in NamesOf(d.columns), NEW column \in ColumnType,
         column.name = n \/ column.name \notin NamesOf(d.columns)
  PROVE  LET u == WithColumn(d, n, column)
             k == At(d.columns, n)
         IN  /\ WellFormed(u) /\ u.exists /\ d.exists /\ u.indexes = d.indexes
             /\ u.foreignKeys = d.foreignKeys
             /\ DOMAIN u.columns = DOMAIN d.columns /\ k \in DOMAIN d.columns /\ u.columns[k] = column
             /\ \A i \in DOMAIN d.columns : i # k => u.columns[i] = d.columns[i] /\ d.columns[i].name # n
             /\ NamesOf(u.columns) = (NamesOf(d.columns) \ {n}) \cup {column.name}
<1> DEFINE k == At(d.columns, n)
           cs == [d.columns EXCEPT ![k] = column]
<1>1. k \in DOMAIN d.columns /\ d.columns[k].name = n
  BY AtFacts
<1>2. d.exists
  <2>1. DOMAIN d.columns # {}
    BY <1>1
  <2> QED
    BY <2>1 DEF WellFormed, NoTable
<1>3. /\ cs \in Seq(ColumnType) /\ DOMAIN cs = DOMAIN d.columns /\ cs[k] = column
      /\ \A i \in DOMAIN d.columns : i # k => cs[i] = d.columns[i]
  BY <1>1, TableFacts
<1>4. WithColumn(d, n, column) = Table(cs, d.indexes, d.foreignKeys)
  BY DEF WithColumn
<1> HIDE DEF cs, k
<1>5. \A i \in DOMAIN d.columns : i # k => d.columns[i].name # n
  BY <1>1, TableFacts DEF Distinct
<1>6. Distinct(cs)
  BY <1>1, <1>3, <1>5, TableFacts DEF Distinct, NamesOf
<1>7. NamesOf(cs) = (NamesOf(d.columns) \ {n}) \cup {column.name}
  BY <1>1, <1>3, <1>5 DEF NamesOf
<1>8. LET t == Table(cs, d.indexes, d.foreignKeys)
      IN  /\ WellFormed(t) /\ t.exists /\ t.columns = cs /\ t.indexes = d.indexes
          /\ t.foreignKeys = d.foreignKeys
  <2>1. cs \in Seq(ColumnType) /\ DOMAIN d.columns \subseteq DOMAIN cs
    BY <1>3
  <2>2. /\ \A x \in d.indexes : x \in StoredIndex /\ x.on \in DOMAIN cs
        /\ \A f \in d.foreignKeys : f \in StoredForeignKey /\ f.on \in DOMAIN cs
    BY <1>3, TableFacts
  <2> QED
    BY <1>2, <1>6, <2>1, <2>2, TableType
<1> QED
  BY <1>1, <1>2, <1>3, <1>4, <1>5, <1>7, <1>8 DEF k

LEMMA RenameEffect ==
  ASSUME NEW d, WellFormed(d), NEW s \in Statement, s.op = "rename", Accepts(d, s)
  PROVE  LET u == Effect(d, s)
             k == At(d.columns, s.from)
         IN  /\ WellFormed(u) /\ u.exists /\ d.exists /\ u.indexes = d.indexes
             /\ u.foreignKeys = d.foreignKeys
             /\ DOMAIN u.columns = DOMAIN d.columns /\ k \in DOMAIN d.columns
             /\ d.columns[k].name = s.from
             /\ u.columns[k] = Column(s.to, d.columns[k].type, d.columns[k].nullable)
             /\ \A i \in DOMAIN d.columns : i # k => u.columns[i] = d.columns[i] /\ d.columns[i].name # s.from
             /\ NamesOf(u.columns) = (NamesOf(d.columns) \ {s.from}) \cup {s.to}
<1> DEFINE k == At(d.columns, s.from)
           new == Column(s.to, d.columns[k].type, d.columns[k].nullable)
<1>1. /\ s.from \in NamesOf(d.columns) /\ s.to \notin NamesOf(d.columns)
      /\ s.to \in Names
  BY StatementFields DEF Accepts
<1>2. k \in DOMAIN d.columns /\ d.columns[k].name = s.from
  BY <1>1, AtFacts
<1>3. new \in ColumnType /\ new.name = s.to
  BY <1>1, <1>2, TableFacts DEF Column, ColumnType
<1>4. Effect(d, s) = WithColumn(d, s.from, new)
  BY DEF Effect
<1> HIDE DEF new
<1>5. LET u == WithColumn(d, s.from, new)
      IN  /\ WellFormed(u) /\ u.exists /\ d.exists /\ u.indexes = d.indexes
          /\ u.foreignKeys = d.foreignKeys
          /\ DOMAIN u.columns = DOMAIN d.columns /\ u.columns[k] = new
          /\ \A i \in DOMAIN d.columns : i # k => u.columns[i] = d.columns[i] /\ d.columns[i].name # s.from
          /\ NamesOf(u.columns) = (NamesOf(d.columns) \ {s.from}) \cup {new.name}
  <2>1. new.name = s.from \/ new.name \notin NamesOf(d.columns)
    BY <1>1, <1>3
  <2>2. s.from \in NamesOf(d.columns) /\ new \in ColumnType
    BY <1>1, <1>3
  <2> HIDE DEF k
  <2> QED
    BY <2>1, <2>2, ColumnEffect DEF k
<1> QED
  BY <1>2, <1>3, <1>4, <1>5 DEF new

LEMMA RenameNames ==
  ASSUME NEW d, WellFormed(d), NEW s \in Statement, s.op = "rename", Accepts(d, s)
  PROVE  LET u == Effect(d, s)
         IN  /\ WellFormed(u) /\ u.exists /\ u.foreignKeys = d.foreignKeys
             /\ NamesOf(u.columns) = (NamesOf(d.columns) \ {s.from}) \cup {s.to}
BY RenameEffect

LEMMA AlterEffect ==
  ASSUME NEW d, WellFormed(d), NEW s \in Statement, s.op \in {"alterType", "alterNullability"},
         Accepts(d, s)
  PROVE  LET u == Effect(d, s)
             k == At(d.columns, s.name)
         IN  /\ WellFormed(u) /\ u.exists /\ d.exists /\ u.indexes = d.indexes
             /\ u.foreignKeys = d.foreignKeys
             /\ DOMAIN u.columns = DOMAIN d.columns /\ k \in DOMAIN d.columns
             /\ d.columns[k].name = s.name /\ u.columns[k].name = s.name
             /\ s.op = "alterType" => u.columns[k].type = Stored(s.type)
             /\ s.op = "alterNullability" => u.columns[k].type = d.columns[k].type
             /\ \A i \in DOMAIN d.columns : i # k => u.columns[i] = d.columns[i]
             /\ NamesOf(u.columns) = NamesOf(d.columns)
<1> DEFINE k == At(d.columns, s.name)
           new == IF s.op = "alterType" THEN Column(s.name, Stored(s.type), d.columns[k].nullable)
                  ELSE Column(s.name, d.columns[k].type, s.nullable)
<1>1. s.name \in NamesOf(d.columns) /\ s.name \in Names
  <2>1. s.name \in Names
    BY StatementFields
  <2>2. CASE s.op = "alterType"
    <3>1. \E j \in DOMAIN d.columns : d.columns[j].name = s.name
      BY <2>2 DEF Accepts
    <3> QED
      BY <2>1, <3>1 DEF NamesOf
  <2>3. CASE s.op = "alterNullability"
    BY <2>1, <2>3 DEF Accepts
  <2> QED
    BY <2>2, <2>3
<1>2. k \in DOMAIN d.columns /\ d.columns[k].name = s.name
  BY <1>1, AtFacts
<1>3. /\ new \in ColumnType /\ new.name = s.name
      /\ s.op = "alterType" => new.type = Stored(s.type)
      /\ s.op = "alterNullability" => new.type = d.columns[k].type
  <2>1. d.columns[k].type \in StoredType /\ d.columns[k].nullable \in BOOLEAN
    BY <1>2, TableFacts
  <2>2. s.op = "alterType" => Stored(s.type) \in StoredType
    BY StatementFields, StoredFacts
  <2>3. s.op = "alterNullability" => s.nullable \in BOOLEAN
    BY StatementFields
  <2> QED
    BY <1>1, <2>1, <2>2, <2>3 DEF Column, ColumnType
<1>4. Effect(d, s) = WithColumn(d, s.name, new)
  BY DEF Effect
<1> HIDE DEF new
<1>5. (NamesOf(d.columns) \ {s.name}) \cup {s.name} = NamesOf(d.columns)
  BY <1>1
<1>6. LET u == WithColumn(d, s.name, new)
      IN  /\ WellFormed(u) /\ u.exists /\ d.exists /\ u.indexes = d.indexes
          /\ u.foreignKeys = d.foreignKeys
          /\ DOMAIN u.columns = DOMAIN d.columns /\ u.columns[k] = new
          /\ \A i \in DOMAIN d.columns : i # k => u.columns[i] = d.columns[i]
          /\ NamesOf(u.columns) = (NamesOf(d.columns) \ {s.name}) \cup {s.name}
  <2>1. PICK n \in NamesOf(d.columns), column \in ColumnType :
          n = s.name /\ column = new /\ column.name = n
    BY <1>1, <1>3
  <2>2. LET u == WithColumn(d, n, column)
        IN  /\ WellFormed(u) /\ u.exists /\ d.exists /\ u.indexes = d.indexes
            /\ u.foreignKeys = d.foreignKeys
            /\ DOMAIN u.columns = DOMAIN d.columns /\ u.columns[At(d.columns, n)] = column
            /\ \A i \in DOMAIN d.columns :
                 i # At(d.columns, n) => u.columns[i] = d.columns[i]
            /\ NamesOf(u.columns) = (NamesOf(d.columns) \ {n}) \cup {column.name}
    BY <2>1, ColumnEffect
  <2> QED
    BY <2>1, <2>2
<1> QED
  BY <1>2, <1>3, <1>4, <1>5, <1>6

LEMMA EffectType ==
  ASSUME NEW d, WellFormed(d), NEW s \in Statement, Accepts(d, s)
  PROVE  WellFormed(Effect(d, s))
<1>1. CASE s.op = "createTable"
  <2>1. Effect(d, s) = d \/ Effect(d, s) = Created(s.columns)
    BY <1>1 DEF Effect
  <2>2. s.columns \in Entities
    BY <1>1, StatementFields
  <2>3. WellFormed(Created(s.columns))
    BY <2>2, CreatedFacts
  <2> QED
    BY <2>1, <2>3
<1>2. CASE s.op = "addColumn"
  BY <1>2, AddColumnEffect
<1>3. CASE s.op = "createIndex"
  BY <1>3, CreateIndexEffect
<1>4. CASE s.op = "dropIndex"
  BY <1>4, DropIndexEffect
<1>5. CASE s.op = "rename"
  BY <1>5, RenameEffect
<1>6. CASE s.op \in {"alterType", "alterNullability"}
  BY <1>6, AlterEffect
<1>7. CASE s.op = "addForeignKey"
  BY <1>7, ForeignKeyEffect
<1> QED
  BY <1>1, <1>2, <1>3, <1>4, <1>5, <1>6, <1>7, StatementFields

(***************************************************************************)
(* Runs                                                                    *)
(***************************************************************************)

Tables ==
  {d \in [exists: BOOLEAN, columns: Seq([name: Names, type: StoredType, nullable: BOOLEAN]),
          indexes: SUBSET StoredIndex, foreignKeys: SUBSET StoredForeignKey] : WellFormed(d)}
Runs == [database: Tables, failed: Statement \cup {None}]

LEMMA RunType ==
  ASSUME NEW d, NEW f
  PROVE  /\ Run(d, f).database = d /\ Run(d, f).failed = f
         /\ WellFormed(d) /\ f \in Statement \cup {None} => Run(d, f) \in Runs
<1>1. Run(d, f).database = d /\ Run(d, f).failed = f
  BY DEF Run
<1>2. WellFormed(d) => d \in Tables
  BY DEF WellFormed, Tables
<1> QED
  BY <1>1, <1>2 DEF Runs, Run

LEMMA RunFields ==
  ASSUME NEW r \in Runs
  PROVE  /\ WellFormed(r.database) /\ r.failed \in Statement \cup {None}
         /\ r = Run(r.database, r.failed)
<1>1. r.database \in Tables /\ r.failed \in Statement \cup {None}
  BY DEF Runs
<1>2. WellFormed(r.database)
  BY <1>1 DEF Tables
<1>3. r = [database |-> r.database, failed |-> r.failed]
  BY DEF Runs
<1> QED
  BY <1>1, <1>2, <1>3 DEF Run

LEMMA ExecuteFacts ==
  ASSUME NEW r \in Runs, NEW s \in Statement
  PROVE  /\ Execute(r, s) \in Runs
         /\ r.failed # None => Execute(r, s) = r
         /\ r.failed = None /\ Accepts(r.database, s) =>
              /\ Execute(r, s).failed = None
              /\ Execute(r, s).database = Effect(r.database, s)
         /\ r.failed = None /\ ~Accepts(r.database, s) =>
              Execute(r, s).failed = s /\ Execute(r, s).database = r.database
<1>1. CASE r.failed # None
  BY <1>1 DEF Execute
<1>2. CASE r.failed = None /\ Accepts(r.database, s)
  <2>1. Execute(r, s) = Run(Effect(r.database, s), None)
    BY <1>2 DEF Execute
  <2>2. WellFormed(Effect(r.database, s))
    BY <1>2, RunFields, EffectType
  <2> QED
    BY <1>2, <2>1, <2>2, RunType
<1>3. CASE r.failed = None /\ ~Accepts(r.database, s)
  <2>1. Execute(r, s) = Run(r.database, s)
    BY <1>3 DEF Execute
  <2> QED
    BY <1>3, <2>1, RunType, RunFields
<1> QED
  BY <1>1, <1>2, <1>3

(* A run goes from statement to statement.                                 *)
Trace(a, r, statements) ==
  /\ a \in [0 .. Len(statements) -> Runs]
  /\ a[0] = r
  /\ \A i \in 1 .. Len(statements) : a[i] = Execute(a[i - 1], statements[i])

LEMMA TraceExists ==
  ASSUME NEW r \in Runs, NEW statements \in Seq(Statement)
  PROVE  \E a : Trace(a, r, statements) /\ RunEach(r, statements) = a[Len(statements)]
<1>1. PICK n \in Nat : n = Len(statements) /\ \A i \in 1 .. n : statements[i] \in Statement
  OBVIOUS
<1> DEFINE F == [x \in (1 .. n) \X Runs |-> Execute(x[2], statements[x[1]])]
           Body(f) == [i \in 0 .. n |-> IF i = 0 THEN r ELSE Execute(f[i - 1], statements[i])]
           a == CHOOSE f : f = Body(f)
<1>2. F \in [(1 .. n) \X Runs -> Runs]
  BY <1>1, ExecuteFacts
<1>3. \A i \in 1 .. n, x \in Runs : F[<<i, x>>] = Execute(x, statements[i])
  OBVIOUS
<1> HIDE DEF F
<1> HIDE DEF Body, a
<1>4. PICK g \in [0 .. n -> Runs] : g[0] = r /\ \A i \in 1 .. n : g[i] = F[<<i, g[i - 1]>>]
  <2>1. n \in Nat /\ r \in Runs
    BY <1>1
  <2>2. Recursion(n, Runs, r, F)
    BY <1>2, <2>1, Iterated
  <2> QED
    BY <2>2 DEF Recursion
<1>5. \A i \in 1 .. n : g[i] = Execute(g[i - 1], statements[i])
  <2> SUFFICES ASSUME NEW i \in 1 .. n PROVE g[i] = Execute(g[i - 1], statements[i])
    OBVIOUS
  <2>1. g[i - 1] \in Runs
    BY <1>4
  <2> QED
    BY <1>3, <1>4, <2>1
<1>6. g = Body(g)
  <2>1. \A i \in 0 .. n : g[i] = IF i = 0 THEN r ELSE Execute(g[i - 1], statements[i])
    BY <1>1, <1>4, <1>5
  <2> QED
    BY <1>4, <2>1 DEF Body
<1>7. RunEach(r, statements) = a[n]
  BY <1>1 DEF RunEach, a, Body
<1>8. a = Body(a)
  BY <1>6 DEF a
<1> HIDE DEF a
<1>9. a[0] = r /\ (\A i \in 1 .. n : a[i] = Execute(a[i - 1], statements[i])) /\ DOMAIN a = 0 .. n
      /\ a = [i \in 0 .. n |-> a[i]]
  BY <1>1, <1>8 DEF Body
<1>10. \A i \in 0 .. n : a[i] \in Runs
  <2> DEFINE S == {i \in 0 .. n : a[i] \in Runs}
  <2>1. 0 \in S
    BY <1>1, <1>9
  <2>2. ASSUME NEW m \in 0 .. n - 1, m \in S PROVE m + 1 \in S
    <3>1. m + 1 \in 1 .. n /\ (m + 1) - 1 = m /\ a[m] \in Runs /\ statements[m + 1] \in Statement
      BY <1>1, <2>2
    <3>2. a[m + 1] = Execute(a[m], statements[m + 1])
      BY <1>9, <3>1
    <3> QED
      BY <3>1, <3>2, ExecuteFacts
  <2> HIDE DEF S
  <2>3. 0 .. n \subseteq S
    BY <1>1, <2>1, <2>2, UpTo
  <2> QED
    BY <2>3 DEF S
<1>11. a \in [0 .. n -> Runs]
  BY <1>9, <1>10
<1> QED
  BY <1>7, <1>9, <1>11 DEF Trace

LEMMA TraceIs ==
  ASSUME NEW r \in Runs, NEW statements \in Seq(Statement), NEW b, Trace(b, r, statements)
  PROVE  RunEach(r, statements) = b[Len(statements)]
<1> DEFINE n == Len(statements)
<1>1. PICK a : Trace(a, r, statements) /\ RunEach(r, statements) = a[n]
  BY TraceExists
<1> DEFINE S == {i \in 0 .. n : a[i] = b[i]}
<1>2. n \in Nat
  OBVIOUS
<1>3. 0 \in S
  BY <1>1, <1>2 DEF Trace
<1>4. ASSUME NEW m \in 0 .. n - 1, m \in S PROVE m + 1 \in S
  <2>1. m + 1 \in 1 .. n /\ (m + 1) - 1 = m /\ a[m] = b[m]
    BY <1>2, <1>4
  <2>2. a[m + 1] = Execute(a[m], statements[m + 1]) /\ b[m + 1] = Execute(b[m], statements[m + 1])
    BY <1>1, <2>1 DEF Trace
  <2> QED
    BY <2>1, <2>2
<1> HIDE DEF S
<1>5. 0 .. n \subseteq S
  BY <1>2, <1>3, <1>4, UpTo
<1>6. n \in S
  BY <1>2, <1>5
<1> QED
  BY <1>1, <1>6 DEF S

(* Statements run in order: what s \o t does is what t does after s.       *)
LEMMA RunAppend ==
  ASSUME NEW r \in Runs, NEW s \in Seq(Statement), NEW t \in Seq(Statement)
  PROVE  RunEach(r, s \o t) = RunEach(RunEach(r, s), t) /\ RunEach(r, s) \in Runs
<1>1. PICK a : Trace(a, r, s) /\ RunEach(r, s) = a[Len(s)]
  BY TraceExists
<1>2. PICK m \in Nat, n \in Nat : m = Len(s) /\ n = Len(t)
  OBVIOUS
<1>3. RunEach(r, s) \in Runs
  BY <1>1, <1>2 DEF Trace
<1>4. PICK b : Trace(b, RunEach(r, s), t) /\ RunEach(RunEach(r, s), t) = b[Len(t)]
  BY <1>3, TraceExists
<1> DEFINE c == [i \in 0 .. m + n |-> IF i <= m THEN a[i] ELSE b[i - m]]
<1>5. s \o t \in Seq(Statement) /\ Len(s \o t) = m + n
  BY <1>2
<1>6. \A i \in 0 .. m + n : c[i] = IF i <= m THEN a[i] ELSE b[i - m]
  OBVIOUS
<1>7. c \in [0 .. m + n -> Runs]
  <2>1. \A i \in 0 .. m + n : i <= m => i \in 0 .. m /\ a[i] \in Runs
    BY <1>1, <1>2 DEF Trace
  <2>2. \A i \in 0 .. m + n : ~(i <= m) => i - m \in 0 .. n /\ b[i - m] \in Runs
    <3>1. b \in [0 .. n -> Runs]
      BY <1>2, <1>4 DEF Trace
    <3>2. \A i \in 0 .. m + n : ~(i <= m) => i - m \in 0 .. n
      OBVIOUS
    <3> QED
      BY <3>1, <3>2
  <2> QED
    BY <2>1, <2>2
<1> HIDE DEF c
<1>8. ASSUME NEW i \in 1 .. m + n PROVE c[i] = Execute(c[i - 1], (s \o t)[i])
  <2>1. CASE i <= m
    <3>1. i \in 1 .. m /\ i - 1 <= m /\ i - 1 \in 0 .. m + n /\ i \in 0 .. m + n /\ (s \o t)[i] = s[i]
      BY <1>2, <2>1
    <3>2. c[i] = a[i] /\ c[i - 1] = a[i - 1]
      BY <1>6, <3>1
    <3> QED
      BY <1>1, <1>2, <3>1, <3>2 DEF Trace
  <2>2. CASE i = m + 1
    <3>1. 1 \in 1 .. n /\ i - 1 = m /\ i - m = 1 /\ ~(i <= m) /\ (s \o t)[i] = t[1]
      BY <1>2, <2>2
    <3>2. c[i] = b[1] /\ c[i - 1] = a[m] /\ b[0] = a[m]
      <4>1. b[0] = a[m]
        BY <1>1, <1>2, <1>4 DEF Trace
      <4>2. i \in 0 .. m + n /\ m \in 0 .. m + n /\ m <= m
        BY <3>1
      <4>3. c[i] = b[i - m] /\ c[m] = a[m]
        BY <1>6, <3>1, <4>2
      <4> QED
        BY <3>1, <4>1, <4>3
    <3>3. b[1] = Execute(b[1 - 1], t[1])
      BY <1>2, <1>4, <3>1 DEF Trace
    <3>4. 1 - 1 = 0
      OBVIOUS
    <3> QED
      BY <3>1, <3>2, <3>3, <3>4
  <2>3. CASE i > m + 1
    <3>1. /\ i - m \in 1 .. n /\ (i - m) - 1 = (i - 1) - m /\ ~(i <= m) /\ ~(i - 1 <= m)
          /\ i - 1 \in 0 .. m + n /\ i \in 0 .. m + n /\ (s \o t)[i] = t[i - m]
      BY <1>2, <2>3
    <3>2. c[i] = b[i - m] /\ c[i - 1] = b[(i - m) - 1]
      BY <1>6, <3>1
    <3>3. b[i - m] = Execute(b[(i - m) - 1], t[i - m])
      BY <1>2, <1>4, <3>1 DEF Trace
    <3> QED
      BY <3>1, <3>2, <3>3
  <2>4. i \in Int /\ m \in Int
    OBVIOUS
  <2>5. i <= m \/ i = m + 1 \/ i > m + 1
    BY <2>4
  <2> QED
    BY <2>1, <2>2, <2>3, <2>5
<1>9. c[0] = r
  BY <1>1, <1>2, <1>6 DEF Trace
<1>10. Trace(c, r, s \o t)
  BY <1>5, <1>7, <1>8, <1>9 DEF Trace
<1>11. RunEach(r, s \o t) = c[m + n]
  BY <1>5, <1>10, TraceIs
<1>12. c[m + n] = b[n]
  <2>1. CASE n = 0
    BY <1>1, <1>2, <1>4, <1>6, <2>1 DEF Trace
  <2>2. CASE n > 0
    <3>1. ~(m + n <= m) /\ m + n - m = n /\ m + n \in 0 .. m + n
      BY <2>2
    <3> QED
      BY <1>6, <3>1
  <2> QED
    BY <2>1, <2>2
<1> QED
  BY <1>2, <1>3, <1>4, <1>11, <1>12

(* What holds before every statement holds after the last.  Reached[i] are *)
(* the runs that may be there after i statements.                          *)
LEMMA Reach ==
  ASSUME NEW r \in Runs, NEW statements \in Seq(Statement), NEW Reached, r \in Reached[0],
         \A i \in 1 .. Len(statements) : \A x \in Runs :
           x \in Reached[i - 1] => Execute(x, statements[i]) \in Reached[i]
  PROVE  RunEach(r, statements) \in Runs /\ RunEach(r, statements) \in Reached[Len(statements)]
<1>1. PICK a : Trace(a, r, statements) /\ RunEach(r, statements) = a[Len(statements)]
  BY TraceExists
<1>2. PICK n \in Nat : n = Len(statements)
  OBVIOUS
<1> DEFINE S == {i \in 0 .. n : a[i] \in Reached[i]}
<1>3. 0 \in S
  BY <1>1 DEF Trace
<1>4. ASSUME NEW m \in 0 .. n - 1, m \in S PROVE m + 1 \in S
  <2>1. m + 1 \in 1 .. n /\ (m + 1) - 1 = m /\ a[m] \in Runs /\ a[m] \in Reached[m]
    BY <1>1, <1>2, <1>4 DEF Trace
  <2>2. a[m + 1] = Execute(a[m], statements[m + 1])
    BY <1>1, <1>2, <2>1 DEF Trace
  <2>3. Execute(a[m], statements[m + 1]) \in Reached[m + 1]
    BY <1>2, <2>1
  <2>4. a[m + 1] \in Reached[m + 1] /\ m + 1 \in 0 .. n
    BY <2>1, <2>2, <2>3
  <2> QED
    BY <2>4
<1> HIDE DEF S
<1>5. 0 .. n \subseteq S
  BY <1>3, <1>4, UpTo
<1>6. n \in S /\ n \in 0 .. n
  BY <1>5
<1> QED
  BY <1>1, <1>2, <1>6 DEF S, Trace

LEMMA RunEmpty ==
  ASSUME NEW r \in Runs
  PROVE  RunEach(r, <<>>) = r
<1>1. <<>> \in Seq(Statement) /\ Len(<<>>) = 0
  OBVIOUS
<1>2. PICK a : Trace(a, r, <<>>) /\ RunEach(r, <<>>) = a[0]
  BY <1>1, TraceExists
<1> QED
  BY <1>2 DEF Trace

LEMMA TransactionType ==
  ASSUME NEW r \in Runs, NEW s \in Seq(Statement)
  PROVE  /\ RunEach(r, s) \in Runs /\ RunTransaction(r, s) \in Runs
         /\ RunTransaction(r, s).failed = RunEach(r, s).failed
         /\ RunEach(r, s).failed = None => RunTransaction(r, s) = RunEach(r, s)
         /\ RunEach(r, s).failed # None => RunTransaction(r, s).database = r.database
<1>1. PICK done \in Runs : done = RunEach(r, s)
  BY RunAppend
<1>2. RunTransaction(r, s) = IF done.failed = None THEN done ELSE Run(r.database, done.failed)
  BY <1>1 DEF RunTransaction
<1>3. Run(r.database, done.failed) \in Runs
  BY RunFields, RunType
<1> QED
  BY <1>1, <1>2, <1>3, RunType

(***************************************************************************)
(* Finite sets and the sequences that list them                            *)
(***************************************************************************)

(* A function with a finite domain has finitely many values.               *)
LEMMA FiniteImage ==
  ASSUME NEW S, IsFiniteSet(S), NEW F, DOMAIN F = S, F = [x \in S |-> F[x]]
  PROVE  IsFiniteSet({F[x] : x \in S})
<1> DEFINE T == {F[x] : x \in S}
<1>1. F \in [S -> T] /\ \A t \in T : \E x \in S : F[x] = t
  OBVIOUS
<1> HIDE DEF T
<1>2. F \in Surjection(S, T)
  BY <1>1 DEF Surjection
<1>3. IsFiniteSet(T)
  BY <1>2, FS_Surjection
<1> QED
  BY <1>3 DEF T

LEMMA ListedFacts ==
  ASSUME NEW S, IsFiniteSet(S)
  PROVE  /\ Cardinality(S) \in Nat
         /\ Listed(S) \in [1 .. Cardinality(S) -> S]
         /\ \A x \in S : \E i \in 1 .. Cardinality(S) : Listed(S)[i] = x
         /\ \A i, j \in 1 .. Cardinality(S) : Listed(S)[i] = Listed(S)[j] => i = j
<1> DEFINE C == Cardinality(S)
           Good(s) == /\ \A x \in S : \E i \in DOMAIN s : s[i] = x
                      /\ \A i, j \in DOMAIN s : s[i] = s[j] => i = j
<1>1. C \in Nat /\ ExistsBijection(1 .. C, S)
  BY FS_CardinalityType
<1>2. PICK f : f \in Bijection(1 .. C, S)
  BY <1>1 DEF ExistsBijection
<1>3. f \in [1 .. C -> S] /\ DOMAIN f = 1 .. C
  BY <1>2 DEF Bijection, Injection, Surjection
<1>4. /\ \A x \in S : \E i \in 1 .. C : f[i] = x
      /\ \A i, j \in 1 .. C : f[i] = f[j] => i = j
  BY <1>2 DEF Bijection, Injection, IsInjective, Surjection
<1>5. Good(f)
  BY <1>3, <1>4
<1>6. Listed(S) = CHOOSE s \in [1 .. C -> S] : Good(s)
  BY DEF Listed
<1> HIDE DEF Good
<1>7. Listed(S) \in [1 .. C -> S] /\ Good(Listed(S))
  BY <1>3, <1>5, <1>6
<1> QED
  BY <1>1, <1>7 DEF Good

(* A sequence that has every member of a set and nothing else.             *)
Lists(s, S) ==
  /\ Len(s) \in Nat
  /\ s \in [1 .. Len(s) -> S]
  /\ \A x \in S : \E i \in 1 .. Len(s) : s[i] = x
Once(s) == \A i, j \in 1 .. Len(s) : s[i] = s[j] => i = j

LEMMA ListsType ==
  ASSUME NEW s, NEW S, Lists(s, S), NEW T, S \subseteq T
  PROVE  s \in Seq(T) /\ DOMAIN s = 1 .. Len(s)
BY DEF Lists

LEMMA ListsNothing ==
  ASSUME NEW s, NEW S, Lists(s, S), S = {}
  PROVE  s = <<>>
<1>1. PICK n \in Nat : n = Len(s)
  BY DEF Lists
<1>2. s \in [1 .. n -> S]
  BY <1>1 DEF Lists
<1>3. n = 0
  <2> SUFFICES ASSUME n > 0 PROVE FALSE
    BY <1>1
  <2>1. 1 \in 1 .. n
    OBVIOUS
  <2> QED
    BY <1>2, <2>1
<1>4. s \in Seq({}) /\ Len(s) = 0
  BY <1>1, <1>2, <1>3
<1> QED
  BY <1>4

(* What is made of the members of a finite set.                            *)
LEMMA Mapped ==
  ASSUME NEW S, IsFiniteSet(S), NEW F, F = [x \in S |-> F[x]]
  PROVE  LET s == [i \in 1 .. Cardinality(S) |-> F[Listed(S)[i]]]
         IN  /\ Lists(s, {F[x] : x \in S})
             /\ (\A x, y \in S : F[x] = F[y] => x = y) => Once(s)
<1> DEFINE C == Cardinality(S)
           l == Listed(S)
           s == [i \in 1 .. C |-> F[l[i]]]
           T == {F[x] : x \in S}
<1>1. /\ C \in Nat /\ l \in [1 .. C -> S]
      /\ \A x \in S : \E i \in 1 .. C : l[i] = x
      /\ \A i, j \in 1 .. C : l[i] = l[j] => i = j
  BY ListedFacts
<1> HIDE DEF C, l
<1>2. /\ Len(s) = C /\ s \in [1 .. C -> T]
      /\ \A i \in 1 .. C : s[i] = F[l[i]]
  BY <1>1
<1> HIDE DEF s
<1>3. \A t \in T : \E i \in 1 .. C : s[i] = t
  <2> SUFFICES ASSUME NEW x \in S PROVE \E i \in 1 .. C : s[i] = F[x]
    OBVIOUS
  <2>1. PICK i \in 1 .. C : l[i] = x
    BY <1>1
  <2> QED
    BY <1>2, <2>1
<1>4. (\A x, y \in S : F[x] = F[y] => x = y) => \A i, j \in 1 .. C : s[i] = s[j] => i = j
  <2> SUFFICES ASSUME \A x, y \in S : F[x] = F[y] => x = y,
                      NEW i \in 1 .. C, NEW j \in 1 .. C, s[i] = s[j] PROVE i = j
    OBVIOUS
  <2>1. l[i] \in S /\ l[j] \in S /\ F[l[i]] = F[l[j]]
    BY <1>1, <1>2
  <2>2. l[i] = l[j]
    BY <2>1
  <2> QED
    BY <1>1, <2>2
<1> HIDE DEF T
<1>5. Lists(s, T)
  BY <1>1, <1>2, <1>3 DEF Lists
<1>6. (\A x, y \in S : F[x] = F[y] => x = y) => Once(s)
  BY <1>2, <1>4 DEF Once
<1> QED
  BY <1>5, <1>6 DEF s, T, C, l

LEMMA EachAddColumn ==
  ASSUME NEW S, IsFiniteSet(S)
  PROVE  /\ Lists(Each(AddColumn, S), {AddColumn(x) : x \in S})
<1> DEFINE F == [x \in S |-> AddColumn(x)]
           s == [i \in 1 .. Cardinality(S) |-> F[Listed(S)[i]]]
<1>1. \A x \in S : F[x] = AddColumn(x)
  OBVIOUS
<1>2. F = [x \in S |-> F[x]]
  OBVIOUS
<1>3. Each(AddColumn, S) = [i \in 1 .. Cardinality(S) |-> AddColumn(Listed(S)[i])]
  BY DEF Each
<1> HIDE DEF F
<1>4. \A i \in 1 .. Cardinality(S) : F[Listed(S)[i]] = AddColumn(Listed(S)[i])
  BY <1>1, ListedFacts
<1>5. Each(AddColumn, S) = s
  BY <1>3, <1>4
<1>6. {AddColumn(x) : x \in S} = {F[x] : x \in S}
  BY <1>1
<1>7. Lists(s, {F[x] : x \in S}) /\ ((\A x, y \in S : F[x] = F[y] => x = y) => Once(s))
  BY <1>2, Mapped
<1> QED
  BY <1>1, <1>5, <1>6, <1>7

LEMMA EachCreateIndex ==
  ASSUME NEW S, IsFiniteSet(S)
  PROVE  /\ Lists(Each(CreateIndex, S), {CreateIndex(x) : x \in S})
<1> DEFINE F == [x \in S |-> CreateIndex(x)]
           s == [i \in 1 .. Cardinality(S) |-> F[Listed(S)[i]]]
<1>1. \A x \in S : F[x] = CreateIndex(x)
  OBVIOUS
<1>2. F = [x \in S |-> F[x]]
  OBVIOUS
<1>3. Each(CreateIndex, S) = [i \in 1 .. Cardinality(S) |-> CreateIndex(Listed(S)[i])]
  BY DEF Each
<1> HIDE DEF F
<1>4. \A i \in 1 .. Cardinality(S) : F[Listed(S)[i]] = CreateIndex(Listed(S)[i])
  BY <1>1, ListedFacts
<1>5. Each(CreateIndex, S) = s
  BY <1>3, <1>4
<1>6. {CreateIndex(x) : x \in S} = {F[x] : x \in S}
  BY <1>1
<1>7. Lists(s, {F[x] : x \in S}) /\ ((\A x, y \in S : F[x] = F[y] => x = y) => Once(s))
  BY <1>2, Mapped
<1> QED
  BY <1>1, <1>5, <1>6, <1>7

LEMMA EachRenameColumn ==
  ASSUME NEW S, IsFiniteSet(S)
  PROVE  /\ Lists(Each(RenameColumn, S), {RenameColumn(x) : x \in S})
         /\ (\A x, y \in S : RenameColumn(x) = RenameColumn(y) => x = y) => Once(Each(RenameColumn, S))
<1> DEFINE F == [x \in S |-> RenameColumn(x)]
           s == [i \in 1 .. Cardinality(S) |-> F[Listed(S)[i]]]
<1>1. \A x \in S : F[x] = RenameColumn(x)
  OBVIOUS
<1>2. F = [x \in S |-> F[x]]
  OBVIOUS
<1>3. Each(RenameColumn, S) = [i \in 1 .. Cardinality(S) |-> RenameColumn(Listed(S)[i])]
  BY DEF Each
<1> HIDE DEF F
<1>4. \A i \in 1 .. Cardinality(S) : F[Listed(S)[i]] = RenameColumn(Listed(S)[i])
  BY <1>1, ListedFacts
<1>5. Each(RenameColumn, S) = s
  BY <1>3, <1>4
<1>6. {RenameColumn(x) : x \in S} = {F[x] : x \in S}
  BY <1>1
<1>7. Lists(s, {F[x] : x \in S}) /\ ((\A x, y \in S : F[x] = F[y] => x = y) => Once(s))
  BY <1>2, Mapped
<1> QED
  BY <1>1, <1>5, <1>6, <1>7

LEMMA EachAlterType ==
  ASSUME NEW S, IsFiniteSet(S)
  PROVE  /\ Lists(Each(AlterType, S), {AlterType(x) : x \in S})
<1> DEFINE F == [x \in S |-> AlterType(x)]
           s == [i \in 1 .. Cardinality(S) |-> F[Listed(S)[i]]]
<1>1. \A x \in S : F[x] = AlterType(x)
  OBVIOUS
<1>2. F = [x \in S |-> F[x]]
  OBVIOUS
<1>3. Each(AlterType, S) = [i \in 1 .. Cardinality(S) |-> AlterType(Listed(S)[i])]
  BY DEF Each
<1> HIDE DEF F
<1>4. \A i \in 1 .. Cardinality(S) : F[Listed(S)[i]] = AlterType(Listed(S)[i])
  BY <1>1, ListedFacts
<1>5. Each(AlterType, S) = s
  BY <1>3, <1>4
<1>6. {AlterType(x) : x \in S} = {F[x] : x \in S}
  BY <1>1
<1>7. Lists(s, {F[x] : x \in S}) /\ ((\A x, y \in S : F[x] = F[y] => x = y) => Once(s))
  BY <1>2, Mapped
<1> QED
  BY <1>1, <1>5, <1>6, <1>7

LEMMA EachAlterNullability ==
  ASSUME NEW S, IsFiniteSet(S)
  PROVE  /\ Lists(Each(AlterNullability, S), {AlterNullability(x) : x \in S})
<1> DEFINE F == [x \in S |-> AlterNullability(x)]
           s == [i \in 1 .. Cardinality(S) |-> F[Listed(S)[i]]]
<1>1. \A x \in S : F[x] = AlterNullability(x)
  OBVIOUS
<1>2. F = [x \in S |-> F[x]]
  OBVIOUS
<1>3. Each(AlterNullability, S) = [i \in 1 .. Cardinality(S) |-> AlterNullability(Listed(S)[i])]
  BY DEF Each
<1> HIDE DEF F
<1>4. \A i \in 1 .. Cardinality(S) : F[Listed(S)[i]] = AlterNullability(Listed(S)[i])
  BY <1>1, ListedFacts
<1>5. Each(AlterNullability, S) = s
  BY <1>3, <1>4
<1>6. {AlterNullability(x) : x \in S} = {F[x] : x \in S}
  BY <1>1
<1>7. Lists(s, {F[x] : x \in S}) /\ ((\A x, y \in S : F[x] = F[y] => x = y) => Once(s))
  BY <1>2, Mapped
<1> QED
  BY <1>1, <1>5, <1>6, <1>7

LEMMA EachAddForeignKey ==
  ASSUME NEW S, IsFiniteSet(S)
  PROVE  /\ Lists(Each(AddForeignKey, S), {AddForeignKey(x) : x \in S})
         /\ (\A x, y \in S : AddForeignKey(x) = AddForeignKey(y) => x = y) => Once(Each(AddForeignKey, S))
<1> DEFINE F == [x \in S |-> AddForeignKey(x)]
           s == [i \in 1 .. Cardinality(S) |-> F[Listed(S)[i]]]
<1>1. \A x \in S : F[x] = AddForeignKey(x)
  OBVIOUS
<1>2. F = [x \in S |-> F[x]]
  OBVIOUS
<1>3. Each(AddForeignKey, S) = [i \in 1 .. Cardinality(S) |-> AddForeignKey(Listed(S)[i])]
  BY DEF Each
<1> HIDE DEF F
<1>4. \A i \in 1 .. Cardinality(S) : F[Listed(S)[i]] = AddForeignKey(Listed(S)[i])
  BY <1>1, ListedFacts
<1>5. Each(AddForeignKey, S) = s
  BY <1>3, <1>4
<1>6. {AddForeignKey(x) : x \in S} = {F[x] : x \in S}
  BY <1>1
<1>7. Lists(s, {F[x] : x \in S}) /\ ((\A x, y \in S : F[x] = F[y] => x = y) => Once(s))
  BY <1>2, Mapped
<1> QED
  BY <1>1, <1>5, <1>6, <1>7

LEMMA Halves ==
  /\ \A k \in Nat \ {0} : /\ (2 * k - 1) % 2 = 1 /\ ((2 * k - 1) + 1) \div 2 = k
                          /\ (2 * k) % 2 = 0 /\ (2 * k) \div 2 = k
  /\ \A i \in Nat \ {0} : \E k \in Nat \ {0} : i = 2 * k - 1 \/ i = 2 * k
<1>1. \A k \in Nat \ {0} : /\ (2 * k - 1) % 2 = 1 /\ ((2 * k - 1) + 1) \div 2 = k
                           /\ (2 * k) % 2 = 0 /\ (2 * k) \div 2 = k
  OBVIOUS
<1>2. ASSUME NEW i \in Nat \ {0} PROVE \E k \in Nat \ {0} : i = 2 * k - 1 \/ i = 2 * k
  <2>1. CASE i % 2 = 1
    <3>1. (i + 1) \div 2 \in Nat \ {0} /\ i = 2 * ((i + 1) \div 2) - 1
      BY <2>1
    <3> QED
      BY <3>1
  <2>2. CASE i % 2 = 0
    <3>1. i \div 2 \in Nat \ {0} /\ i = 2 * (i \div 2)
      BY <2>2
    <3> QED
      BY <3>1
  <2>3. i % 2 = 0 \/ i % 2 = 1
    OBVIOUS
  <2> QED
    BY <2>1, <2>2, <2>3
<1> QED
  BY <1>1, <1>2

(* Every index is dropped and created again at once.                       *)
LEMMA RedefineFacts ==
  ASSUME NEW X, IsFiniteSet(X)
  PROVE  LET q == RedefineIndexes(X)
         IN  /\ Lists(q, {DropIndex(x) : x \in X} \cup {CreateIndex(x) : x \in X})
             /\ \A i \in 1 .. Len(q) :
                  \/ \E x \in X : q[i] = DropIndex(x) /\ i + 1 \in 1 .. Len(q) /\ q[i + 1] = CreateIndex(x)
                  \/ \E x \in X : q[i] = CreateIndex(x)
<1> DEFINE C == Cardinality(X)
           l == Listed(X)
           q == RedefineIndexes(X)
           D == {DropIndex(x) : x \in X}
           E == {CreateIndex(x) : x \in X}
<1>1. /\ C \in Nat /\ l \in [1 .. C -> X]
      /\ \A x \in X : \E i \in 1 .. C : l[i] = x
  BY ListedFacts
<1>2. q = [i \in 1 .. 2 * C |->
             IF i % 2 = 1 THEN DropIndex(l[(i + 1) \div 2]) ELSE CreateIndex(l[i \div 2])]
  BY DEF RedefineIndexes
<1> HIDE DEF C, l, q
<1>3. Len(q) = 2 * C /\ Len(q) \in Nat /\ DOMAIN q = 1 .. 2 * C /\ q = [i \in 1 .. 2 * C |-> q[i]]
  BY <1>1, <1>2
<1>4. ASSUME NEW k \in 1 .. C
      PROVE  /\ 2 * k - 1 \in 1 .. 2 * C /\ 2 * k \in 1 .. 2 * C /\ l[k] \in X
             /\ q[2 * k - 1] = DropIndex(l[k]) /\ q[2 * k] = CreateIndex(l[k])
  <2>1. k \in Nat \ {0} /\ 2 * k - 1 \in 1 .. 2 * C /\ 2 * k \in 1 .. 2 * C /\ l[k] \in X
    BY <1>1
  <2>2. /\ (2 * k - 1) % 2 = 1 /\ ((2 * k - 1) + 1) \div 2 = k
        /\ (2 * k) % 2 = 0 /\ (2 * k) \div 2 = k
    BY <2>1, Halves
  <2>3. q[2 * k - 1] = DropIndex(l[k])
    BY <1>2, <2>1, <2>2
  <2>4. q[2 * k] = CreateIndex(l[k])
    BY <1>2, <2>1, <2>2
  <2> QED
    BY <2>1, <2>3, <2>4
<1>5. ASSUME NEW i \in 1 .. 2 * C PROVE \E k \in 1 .. C : i = 2 * k - 1 \/ i = 2 * k
  <2> i \in Nat \ {0}
    BY <1>1
  <2>1. PICK k \in Nat \ {0} : i = 2 * k - 1 \/ i = 2 * k
    BY Halves
  <2>2. k \in 1 .. C
    BY <1>1, <2>1
  <2> QED
    BY <2>1, <2>2
<1>6. ASSUME NEW i \in 1 .. 2 * C
      PROVE  \/ \E x \in X : q[i] = DropIndex(x) /\ i + 1 \in 1 .. 2 * C /\ q[i + 1] = CreateIndex(x)
             \/ \E x \in X : q[i] = CreateIndex(x)
  <2>1. PICK k \in 1 .. C : i = 2 * k - 1 \/ i = 2 * k
    BY <1>5
  <2>2. CASE i = 2 * k - 1
    <3>1. i + 1 = 2 * k
      BY <1>1, <2>2
    <3> QED
      BY <1>4, <2>2, <3>1
  <2>3. CASE i = 2 * k
    BY <1>4, <2>3
  <2> QED
    BY <2>1, <2>2, <2>3
<1>7. \A s \in D \cup E : \E i \in 1 .. 2 * C : q[i] = s
  <2> SUFFICES ASSUME NEW x \in X
               PROVE  /\ \E i \in 1 .. 2 * C : q[i] = DropIndex(x)
                      /\ \E i \in 1 .. 2 * C : q[i] = CreateIndex(x)
    OBVIOUS
  <2>1. PICK k \in 1 .. C : l[k] = x
    BY <1>1
  <2> QED
    BY <1>4, <2>1
<1>8. \A i \in 1 .. 2 * C : q[i] \in D \cup E
  BY <1>6
<1> HIDE DEF D, E
<1>9. Lists(q, D \cup E)
  BY <1>3, <1>7, <1>8 DEF Lists
<1> QED
  BY <1>3, <1>6, <1>9 DEF D, E, q

(***************************************************************************)
(* The rename heuristic                                                    *)
(***************************************************************************)

Pairs == [to: Nat, from: Nat, tier: Nat]

LEMMA EarlierOrder ==
  /\ \A p, q \in Pairs : Earlier(p, q) \/ Earlier(q, p)
  /\ \A p, q \in Pairs : Earlier(p, q) /\ Earlier(q, p) => p = q
  /\ \A p, q, r \in Pairs : Earlier(p, q) /\ Earlier(q, r) => Earlier(p, r)
<1>1. ASSUME NEW p \in Pairs, NEW q \in Pairs, Earlier(p, q), Earlier(q, p) PROVE p = q
  <2>1. p.to = q.to /\ p.from = q.from /\ p.tier = q.tier
    BY <1>1 DEF Pairs, Earlier
  <2> QED
    BY <2>1 DEF Pairs
<1>2. \A p, q \in Pairs : Earlier(p, q) \/ Earlier(q, p)
  BY DEF Pairs, Earlier
<1>3. \A p, q, r \in Pairs : Earlier(p, q) /\ Earlier(q, r) => Earlier(p, r)
  BY DEF Pairs, Earlier
<1> QED
  BY <1>1, <1>2, <1>3

(* A finite set of candidates has a last one ...                           *)
LEMMA LastCandidate ==
  ASSUME NEW C \in SUBSET Pairs, IsFiniteSet(C), C # {}
  PROVE  \E m \in C : \A p \in C : Earlier(p, m)
<1> DEFINE HasLast(D) == \E m \in D : \A p \in D : Earlier(p, m)
           S == {n \in Nat : \A D \in SUBSET Pairs :
                   IsFiniteSet(D) /\ Cardinality(D) = n /\ D # {} => HasLast(D)}
<1>1. 0 \in S
  BY FS_EmptySet
<1>2. ASSUME NEW n \in Nat, n \in S PROVE n + 1 \in S
  <2> SUFFICES ASSUME NEW D \in SUBSET Pairs, IsFiniteSet(D), Cardinality(D) = n + 1, D # {}
               PROVE  HasLast(D)
    OBVIOUS
  <2>1. PICK x \in D : TRUE
    OBVIOUS
  <2>2. IsFiniteSet(D \ {x}) /\ Cardinality(D \ {x}) = n
    <3>1. /\ IsFiniteSet(D \ {x})
          /\ Cardinality(D \ {x}) = IF x \in D THEN Cardinality(D) - 1 ELSE Cardinality(D)
      BY FS_RemoveElement, Zenon
    <3>2. (n + 1) - 1 = n
      OBVIOUS
    <3> QED
      BY <3>1, <3>2
  <2>3. Earlier(x, x)
    BY EarlierOrder
  <2>4. CASE D \ {x} = {}
    BY <2>3, <2>4
  <2>5. CASE D \ {x} # {}
    <3>1. PICK m \in D \ {x} : \A p \in D \ {x} : Earlier(p, m)
      BY <1>2, <2>2, <2>5
    <3>2. CASE Earlier(m, x)
      <4>1. \A p \in D : Earlier(p, x)
        BY <2>3, <3>1, <3>2, EarlierOrder
      <4> QED
        BY <4>1
    <3>3. CASE Earlier(x, m)
      BY <3>1, <3>3
    <3> QED
      BY <3>2, <3>3, EarlierOrder
  <2> QED
    BY <2>4, <2>5
<1> HIDE DEF S
<1>3. Nat \subseteq S
  BY <1>1, <1>2, NatSets
<1>4. Cardinality(C) \in S
  BY <1>3, FS_CardinalityType
<1> QED
  BY <1>4 DEF S

(* ... so the greedy choice has an outcome.                                *)
Greedy(C, taken) ==
  \A p \in C : p \in taken <=> ~ \E q \in taken : q # p /\ Earlier(q, p) /\ Clash(q, p)

LEMMA GreedyExists ==
  ASSUME NEW C \in SUBSET Pairs, IsFiniteSet(C)
  PROVE  \E taken \in SUBSET C : Greedy(C, taken)
<1> DEFINE Has(D) == \E taken \in SUBSET D : Greedy(D, taken)
           S == {n \in Nat : \A D \in SUBSET Pairs : IsFiniteSet(D) /\ Cardinality(D) = n => Has(D)}
<1>1. 0 \in S
  <2> SUFFICES ASSUME NEW D \in SUBSET Pairs, IsFiniteSet(D), Cardinality(D) = 0 PROVE Has(D)
    OBVIOUS
  <2>1. D = {}
    BY FS_EmptySet
  <2> QED
    BY <2>1 DEF Greedy
<1>2. ASSUME NEW n \in Nat, n \in S PROVE n + 1 \in S
  <2> SUFFICES ASSUME NEW D \in SUBSET Pairs, IsFiniteSet(D), Cardinality(D) = n + 1
               PROVE  Has(D)
    OBVIOUS
  <2>1. D # {}
    BY FS_EmptySet
  <2>2. PICK m \in D : \A p \in D : Earlier(p, m)
    BY <2>1, LastCandidate
  <2>3. IsFiniteSet(D \ {m}) /\ Cardinality(D \ {m}) = n
    <3>1. /\ IsFiniteSet(D \ {m})
          /\ Cardinality(D \ {m}) = IF m \in D THEN Cardinality(D) - 1 ELSE Cardinality(D)
      BY FS_RemoveElement, Zenon
    <3>2. (n + 1) - 1 = n
      OBVIOUS
    <3> QED
      BY <3>1, <3>2
  <2>4. PICK t \in SUBSET (D \ {m}) : Greedy(D \ {m}, t)
    BY <1>2, <2>3
  <2>5. \A p \in D : p # m => ~Earlier(m, p)
    BY <2>2, EarlierOrder
  <2>6. CASE \E q \in t : Clash(q, m)
    <3>1. ASSUME NEW p \in D
          PROVE  p \in t <=> ~ \E q \in t : q # p /\ Earlier(q, p) /\ Clash(q, p)
      <4>1. CASE p = m
        BY <2>2, <2>4, <2>6, <4>1
      <4>2. CASE p # m
        BY <2>4, <4>2 DEF Greedy
      <4> QED
        BY <4>1, <4>2
    <3> QED
      BY <3>1 DEF Greedy
  <2>7. CASE ~ \E q \in t : Clash(q, m)
    <3> DEFINE u == t \cup {m}
    <3>1. ASSUME NEW p \in D
          PROVE  p \in u <=> ~ \E q \in u : q # p /\ Earlier(q, p) /\ Clash(q, p)
      <4>1. CASE p = m
        BY <2>4, <2>7, <4>1
      <4>2. CASE p # m
        <5>1. p \in t <=> ~ \E q \in t : q # p /\ Earlier(q, p) /\ Clash(q, p)
          BY <2>4, <4>2 DEF Greedy
        <5> QED
          BY <2>5, <4>2, <5>1
      <4> QED
        BY <4>1, <4>2
    <3>2. u \in SUBSET D
      OBVIOUS
    <3> QED
      BY <3>1, <3>2 DEF Greedy
  <2> QED
    BY <2>6, <2>7
<1> HIDE DEF S
<1>3. Nat \subseteq S
  BY <1>1, <1>2, NatSets
<1>4. Cardinality(C) \in S
  BY <1>3, FS_CardinalityType
<1> QED
  BY <1>4 DEF S

LEMMA CandidateFacts ==
  ASSUME NEW e \in Entities, NEW d, WellFormed(d)
  PROVE  /\ IsFiniteSet(Candidates(e, d)) /\ Candidates(e, d) \in SUBSET Pairs
         /\ \A p \in Candidates(e, d) :
              /\ p.to \in EntityOnly(e, d) /\ p.from \in DatabaseOnly(e, d)
              /\ p.to \in Names /\ p.from \in Names
              /\ p.tier = Tier(e, d, p.to, p.from)
              /\ Compatible(e, d, p.to, p.from)
<1> DEFINE N == NamesOf(e)
           O == NamesOf(d.columns)
           F == [x \in N \X O |-> [to |-> x[1], from |-> x[2], tier |-> Tier(e, d, x[1], x[2])]]
           T == {F[x] : x \in N \X O}
<1>1. IsFiniteSet(N) /\ IsFiniteSet(O)
  <2>1. ASSUME NEW cs, NEW n \in Nat, DOMAIN cs = 1 .. n PROVE IsFiniteSet(NamesOf(cs))
    <3> DEFINE G == [i \in 1 .. n |-> cs[i].name]
    <3>1. IsFiniteSet(1 .. n)
      BY FS_Interval
    <3>2. DOMAIN G = 1 .. n /\ G = [x \in 1 .. n |-> G[x]]
      OBVIOUS
    <3>3. NamesOf(cs) = {G[i] : i \in 1 .. n}
      BY <2>1 DEF NamesOf
    <3> HIDE DEF G
    <3> QED
      BY <3>1, <3>2, <3>3, FiniteImage
  <2> QED
    BY <2>1, EntityFacts, TableFacts
<1>2. IsFiniteSet(N \X O)
  BY <1>1, FS_Product
<1>3. DOMAIN F = N \X O /\ F = [x \in N \X O |-> F[x]]
  OBVIOUS
<1>4. IsFiniteSet(T)
  <2> HIDE DEF F
  <2> QED
    BY <1>2, <1>3, FiniteImage
<1>5. ASSUME NEW p \in Candidates(e, d)
      PROVE  \E n \in EntityOnly(e, d), o \in DatabaseOnly(e, d) :
               /\ p = [to |-> n, from |-> o, tier |-> Tier(e, d, n, o)]
               /\ Compatible(e, d, n, o)
  BY DEF Candidates, Nearby
<1>6. ASSUME NEW n \in EntityOnly(e, d), NEW o \in DatabaseOnly(e, d)
      PROVE  /\ n \in Names /\ n \in Nat /\ o \in Names /\ o \in Nat /\ Tier(e, d, n, o) \in Nat
             /\ <<n, o>> \in N \X O
  <2>1. n \in N /\ o \in O /\ n \in Names /\ o \in Names
    BY EntityFacts, TableFacts DEF EntityOnly, DatabaseOnly
  <2>2. At(e, n) \in DOMAIN e /\ At(d.columns, o) \in DOMAIN d.columns
    BY <2>1, AtFacts
  <2>3. At(e, n) \in Nat /\ At(d.columns, o) \in Nat
    BY <2>2, EntityFacts, TableFacts
  <2>4. Tier(e, d, n, o) \in Nat
    BY <2>3 DEF Tier, Distance
  <2> QED
    BY <2>1, <2>4, NamesAssumption
<1>7. ASSUME NEW p \in Candidates(e, d)
      PROVE  /\ p \in T /\ p \in Pairs
             /\ p.to \in EntityOnly(e, d) /\ p.from \in DatabaseOnly(e, d)
             /\ p.to \in Names /\ p.from \in Names
             /\ p.tier = Tier(e, d, p.to, p.from) /\ Compatible(e, d, p.to, p.from)
  <2>1. PICK n \in EntityOnly(e, d), o \in DatabaseOnly(e, d) :
          /\ p = [to |-> n, from |-> o, tier |-> Tier(e, d, n, o)]
          /\ Compatible(e, d, n, o)
    BY <1>5
  <2>2. F[<<n, o>>] = p /\ <<n, o>> \in N \X O
    BY <1>6, <2>1
  <2>3. p \in T
    BY <2>2
  <2>4. p.to = n /\ p.from = o /\ p.tier = Tier(e, d, n, o) /\ p \in Pairs
    BY <1>6, <2>1 DEF Pairs
  <2> HIDE DEF T
  <2> QED
    BY <1>6, <2>1, <2>3, <2>4
<1>8. IsFiniteSet(Candidates(e, d))
  <2> HIDE DEF T
  <2>1. Candidates(e, d) \in SUBSET T
    BY <1>7
  <2> QED
    BY <1>4, <2>1, FS_Subset
<1> HIDE DEF T
<1> QED
  BY <1>7, <1>8

(* Renames that are taken are candidates, and no two have a column in      *)
(* common.                                                                 *)
LEMMA LikelyFacts ==
  ASSUME NEW e \in Entities, NEW d, WellFormed(d)
  PROVE  /\ LikelyRenames(e, d) \in SUBSET Candidates(e, d) /\ IsFiniteSet(LikelyRenames(e, d))
         /\ \A p, q \in LikelyRenames(e, d) : p # q => p.to # q.to /\ p.from # q.from
<1> DEFINE C == Candidates(e, d)
           L == LikelyRenames(e, d)
<1>1. IsFiniteSet(C) /\ C \in SUBSET Pairs
  BY CandidateFacts
<1>2. L = CHOOSE taken \in SUBSET C : Greedy(C, taken)
  BY DEF LikelyRenames, Greedy
<1> HIDE DEF L, C
<1>3. L \in SUBSET C /\ Greedy(C, L)
  BY <1>1, <1>2, GreedyExists
<1>4. IsFiniteSet(L)
  BY <1>1, <1>3, FS_Subset
<1>5. ASSUME NEW p \in L, NEW q \in L, p # q PROVE ~Clash(p, q)
  <2>1. ~(Earlier(q, p) /\ Clash(q, p)) /\ ~(Earlier(p, q) /\ Clash(p, q))
    BY <1>3, <1>5 DEF Greedy
  <2>2. Earlier(p, q) \/ Earlier(q, p)
    BY <1>1, <1>3, EarlierOrder
  <2> QED
    BY <2>1, <2>2 DEF Clash
<1> QED
  BY <1>3, <1>4, <1>5 DEF C, L, Clash

(***************************************************************************)
(* Differences and patches                                                 *)
(***************************************************************************)

LEMMA DeclarationFacts ==
  ASSUME NEW e \in Entities
  PROVE  /\ IsFiniteSet(EntityIndexes(e)) /\ IsFiniteSet(EntityForeignKeys(e))
         /\ IsFiniteSet(NamesOf(e))
         /\ \A x \in EntityIndexes(e) : x \in DeclaredIndex /\ x.on \in NamesOf(e)
         /\ \A f \in EntityForeignKeys(e) :
              f \in DeclaredForeignKey /\ f.on \in NamesOf(e) /\ f.name = <<f.on, "fkey">>
         /\ \A f, g \in EntityForeignKeys(e) : f.name = g.name => f = g
<1> DEFINE D == DOMAIN e
           I == [i \in D |-> IndexOf(e[i])]
           F == [i \in D |-> ForeignKeyOf(e[i])]
           N == [i \in D |-> e[i].name]
<1>1. IsFiniteSet(D)
  BY EntityFacts, FS_Interval
<1>2. /\ DOMAIN I = D /\ I = [i \in D |-> I[i]] /\ (\A i \in D : I[i] = IndexOf(e[i]))
      /\ DOMAIN F = D /\ F = [i \in D |-> F[i]] /\ (\A i \in D : F[i] = ForeignKeyOf(e[i]))
      /\ DOMAIN N = D /\ N = [i \in D |-> N[i]] /\ (\A i \in D : N[i] = e[i].name)
  OBVIOUS
<1> HIDE DEF I, F, N
<1>3. IsFiniteSet({I[i] : i \in D}) /\ IsFiniteSet({F[i] : i \in D}) /\ IsFiniteSet({N[i] : i \in D})
  BY <1>1, <1>2, FiniteImage
<1>4. /\ EntityIndexes(e) \in SUBSET {I[i] : i \in D}
      /\ EntityForeignKeys(e) \in SUBSET {F[i] : i \in D}
      /\ NamesOf(e) = {N[i] : i \in D}
  BY <1>2 DEF EntityIndexes, EntityForeignKeys, NamesOf
<1>5. IsFiniteSet(EntityIndexes(e)) /\ IsFiniteSet(EntityForeignKeys(e)) /\ IsFiniteSet(NamesOf(e))
  BY <1>3, <1>4, FS_Subset
<1>6. ASSUME NEW x \in EntityIndexes(e) PROVE x \in DeclaredIndex /\ x.on \in NamesOf(e)
  <2>1. PICK i \in D : x = IndexOf(e[i])
    BY <1>6 DEF EntityIndexes
  <2>2. e[i].name \in Names /\ e[i].name \in NamesOf(e)
    BY EntityFacts DEF NamesOf
  <2> QED
    BY <2>1, <2>2 DEF IndexOf, DeclaredIndex, NamedFor
<1>7. ASSUME NEW f \in EntityForeignKeys(e)
      PROVE  /\ f \in DeclaredForeignKey /\ f.on \in NamesOf(e) /\ f.name = <<f.on, "fkey">>
             /\ \E i \in D : f = ForeignKeyOf(e[i]) /\ f.on = e[i].name
  <2>1. PICK i \in D : f = ForeignKeyOf(e[i])
    BY <1>7 DEF EntityForeignKeys
  <2>2. e[i].name \in Names /\ e[i].name \in NamesOf(e) /\ e[i].rule \in Rules
    BY EntityFacts DEF NamesOf
  <2> QED
    BY <2>1, <2>2 DEF ForeignKeyOf, DeclaredForeignKey
<1>8. ASSUME NEW f \in EntityForeignKeys(e), NEW g \in EntityForeignKeys(e), f.name = g.name
      PROVE  f = g
  <2>1. PICK i \in D : f = ForeignKeyOf(e[i]) /\ f.on = e[i].name
    BY <1>7
  <2>2. PICK j \in D : g = ForeignKeyOf(e[j]) /\ g.on = e[j].name
    BY <1>7
  <2>3. <<f.on, "fkey">> = <<g.on, "fkey">>
    BY <1>7, <1>8
  <2>4. i = j
    BY <2>1, <2>2, <2>3, EntityFacts DEF Distinct
  <2> QED
    BY <2>1, <2>2, <2>4
<1> QED
  BY <1>5, <1>6, <1>7, <1>8

LEMMA DeclaredFacts ==
  ASSUME NEW e \in Entities, NEW S \in SUBSET NamesOf(e)
  PROVE  /\ IsFiniteSet(Declared(e, S))
         /\ \A c \in Declared(e, S) : c \in Columns /\ c.name \in S
         /\ \A i \in DOMAIN e : e[i].name \in S => e[i] \in Declared(e, S)
         /\ \A c \in Declared(e, S) : \E i \in DOMAIN e : c = e[i]
         /\ S = {} => Declared(e, S) = {}
<1> DEFINE F == [n \in S |-> e[At(e, n)]]
<1>1. IsFiniteSet(S)
  BY DeclarationFacts, FS_Subset
<1>2. DOMAIN F = S /\ F = [n \in S |-> F[n]] /\ (\A n \in S : F[n] = e[At(e, n)])
  OBVIOUS
<1> HIDE DEF F
<1>3. Declared(e, S) = {F[n] : n \in S}
  BY <1>2 DEF Declared
<1>4. IsFiniteSet(Declared(e, S))
  BY <1>1, <1>2, <1>3, FiniteImage
<1>5. ASSUME NEW c \in Declared(e, S)
      PROVE  c \in Columns /\ c.name \in S /\ \E i \in DOMAIN e : c = e[i]
  <2>1. PICK n \in S : c = e[At(e, n)]
    BY <1>5 DEF Declared
  <2>2. At(e, n) \in DOMAIN e /\ e[At(e, n)].name = n
    BY AtFacts
  <2> QED
    BY <2>1, <2>2, EntityFacts
<1>6. ASSUME NEW i \in DOMAIN e, e[i].name \in S PROVE e[i] \in Declared(e, S)
  <2>1. At(e, e[i].name) = i
    BY AtUnique, EntityFacts
  <2> QED
    BY <1>6, <2>1 DEF Declared
<1> QED
  BY <1>4, <1>5, <1>6 DEF Declared

LEMMA DiffFacts ==
  ASSUME NEW e \in Entities, NEW d, WellFormed(d)
  PROVE  LET diff == Diff(e, d)
         IN  /\ diff.newTable = ~d.exists /\ diff.newTable \in BOOLEAN /\ diff.review \in BOOLEAN
             /\ diff.newColumns \in SUBSET EntityOnly(e, d) /\ diff.newColumns \in SUBSET NamesOf(e)
             /\ diff.renames \in SUBSET LikelyRenames(e, d) /\ IsFiniteSet(diff.renames)
             /\ diff.retyped \in SUBSET (NamesOf(e) \cap NamesOf(d.columns))
             /\ diff.nullability \in SUBSET (NamesOf(e) \cap NamesOf(d.columns))
             /\ diff.newIndexes \in SUBSET EntityIndexes(e) /\ IsFiniteSet(diff.newIndexes)
             /\ diff.indexMismatches \in SUBSET EntityIndexes(e) /\ IsFiniteSet(diff.indexMismatches)
             /\ diff.newForeignKeys \in SUBSET EntityForeignKeys(e) /\ IsFiniteSet(diff.newForeignKeys)
<1> DEFINE diff == Diff(e, d)
<1>1. /\ diff.newTable = ~d.exists /\ diff.review = (d.exists /\ UserReviewRequired(e, d))
      /\ diff.newColumns = (IF d.exists THEN EntityOnly(e, d) \ Renamed(e, d) ELSE {})
      /\ diff.renames = (IF d.exists THEN LikelyRenames(e, d) ELSE {})
      /\ diff.retyped = Retyped(e, d) /\ diff.nullability = NullabilityMismatches(e, d)
      /\ diff.newIndexes = (IF d.exists THEN NewIndexes(e, d) ELSE {})
      /\ diff.indexMismatches = IndexMismatches(e, d)
      /\ diff.newForeignKeys = (IF d.exists
                                THEN {f \in EntityForeignKeys(e) : \A g \in d.foreignKeys : g.name # f.name}
                                ELSE {})
  BY DEF Diff
<1> HIDE DEF diff
<1>2. d.exists \in BOOLEAN
  BY DEF WellFormed
<1>3. diff.newTable \in BOOLEAN /\ diff.review \in BOOLEAN /\ diff.newTable = ~d.exists
  BY <1>1, <1>2 DEF UserReviewRequired
<1>4. diff.newColumns \in SUBSET EntityOnly(e, d) /\ diff.newColumns \in SUBSET NamesOf(e)
  BY <1>1 DEF EntityOnly
<1>5. diff.renames \in SUBSET LikelyRenames(e, d) /\ IsFiniteSet(diff.renames)
  BY <1>1, LikelyFacts, FS_EmptySet
<1>6. diff.retyped \in SUBSET (NamesOf(e) \cap NamesOf(d.columns))
  BY <1>1 DEF Retyped, NamesOf
<1>7. diff.nullability \in SUBSET (NamesOf(e) \cap NamesOf(d.columns))
  BY <1>1 DEF NullabilityMismatches, NamesOf
<1>8. diff.newIndexes \in SUBSET EntityIndexes(e) /\ diff.indexMismatches \in SUBSET EntityIndexes(e)
  BY <1>1 DEF NewIndexes, IndexMismatches
<1>9. diff.newForeignKeys \in SUBSET EntityForeignKeys(e)
  BY <1>1
<1>10. /\ IsFiniteSet(diff.newIndexes) /\ IsFiniteSet(diff.indexMismatches)
       /\ IsFiniteSet(diff.newForeignKeys)
  BY <1>8, <1>9, DeclarationFacts, FS_Subset
<1> QED
  BY <1>3, <1>4, <1>5, <1>6, <1>7, <1>8, <1>9, <1>10 DEF diff

LEMMA StatementTypes ==
  /\ \A e \in Entities : CreateTable(e) \in Statement
  /\ \A c \in Columns : /\ AddColumn(c) \in Statement /\ AlterType(c) \in Statement
                        /\ AlterNullability(c) \in Statement
  /\ \A x \in DeclaredIndex : CreateIndex(x) \in Statement /\ DropIndex(x) \in Statement
  /\ \A p : p.from \in Names /\ p.to \in Names => RenameColumn(p) \in Statement
  /\ \A f \in DeclaredForeignKey : AddForeignKey(f) \in Statement
<1>1. \A e \in Entities : CreateTable(e) \in Statement
  BY DEF CreateTable, Statement
<1>2. \A c \in Columns : AddColumn(c) \in Statement
  BY DEF AddColumn, Statement
<1>3. \A c \in Columns : AlterType(c) \in Statement
  BY ColumnsAssumption DEF AlterType, Statement
<1>4. \A c \in Columns : AlterNullability(c) \in Statement
  BY ColumnsAssumption DEF AlterNullability, Statement
<1>5. \A x \in DeclaredIndex : CreateIndex(x) \in Statement
  BY DEF CreateIndex, Statement
<1>6. \A x \in DeclaredIndex : DropIndex(x) \in Statement
  <2> SUFFICES ASSUME NEW x \in DeclaredIndex PROVE DropIndex(x) \in Statement
    OBVIOUS
  <2>1. x.name \in Names \X {"idx", "uq"}
    BY DEF DeclaredIndex
  <2>2. DropIndex(x) \in [op: {"dropIndex"}, name: Names \X {"idx", "uq"}]
    BY <2>1 DEF DropIndex
  <2> QED
    BY <2>2 DEF Statement
<1>7. \A p : p.from \in Names /\ p.to \in Names => RenameColumn(p) \in Statement
  BY DEF RenameColumn, Statement
<1>8. \A f \in DeclaredForeignKey : AddForeignKey(f) \in Statement
  BY DEF AddForeignKey, Statement
<1> QED
  BY <1>1, <1>2, <1>3, <1>4, <1>5, <1>6, <1>7, <1>8

(* The parts of a patch, by the kind of their statements.                  *)
Parts(e, diff, p, born, adds, types, nulls, redo, keys) ==
  /\ p.safe = (IF diff.newTable THEN <<CreateTable(e)>> \o born ELSE <<>>) \o adds
  /\ p.review = ((types \o nulls) \o redo) \o keys
  /\ born \in Seq(Statement) /\ adds \in Seq(Statement) /\ types \in Seq(Statement)
  /\ nulls \in Seq(Statement) /\ redo \in Seq(Statement) /\ keys \in Seq(Statement)
  /\ Lists(born, {CreateIndex(x) : x \in EntityIndexes(e)})
  /\ Lists(adds, {AddColumn(c) : c \in Declared(e, diff.newColumns)})
  /\ Lists(p.notx, {CreateIndex(x) : x \in diff.newIndexes})
  /\ Lists(p.renames, {RenameColumn(r) : r \in diff.renames}) /\ Once(p.renames)
  /\ Lists(types, {AlterType(c) : c \in Declared(e, diff.retyped)})
  /\ Lists(nulls, {AlterNullability(c) : c \in Declared(e, diff.nullability)})
  /\ Lists(redo, {DropIndex(x) : x \in diff.indexMismatches}
                   \cup {CreateIndex(x) : x \in diff.indexMismatches})
  /\ \A i \in 1 .. Len(redo) :
       \/ \E x \in diff.indexMismatches :
            /\ redo[i] = DropIndex(x) /\ i + 1 \in 1 .. Len(redo)
            /\ redo[i + 1] = CreateIndex(x)
       \/ \E x \in diff.indexMismatches : redo[i] = CreateIndex(x)
  /\ Lists(keys, {AddForeignKey(f) : f \in diff.newForeignKeys}) /\ Once(keys)

PatchType ==
  [safe: Seq(Statement), notx: Seq(Statement), renames: Seq(Statement),
   commented: BOOLEAN, review: Seq(Statement), stale: BOOLEAN]

LEMMA PatchParts ==
  ASSUME NEW e \in Entities, NEW d, WellFormed(d), NEW over \in BOOLEAN
  PROVE  LET diff == Diff(e, d)
             p == Patch(e, diff, over)
         IN  /\ \E born, adds, types, nulls, redo, keys :
                  Parts(e, diff, p, born, adds, types, nulls, redo, keys)
             /\ p \in PatchType /\ p.commented = diff.review /\ p.stale = over
<1> DEFINE diff == Diff(e, d)
           p == Patch(e, diff, over)
           born == Each(CreateIndex, EntityIndexes(e))
           adds == Each(AddColumn, Declared(e, diff.newColumns))
           types == Each(AlterType, Declared(e, diff.retyped))
           nulls == Each(AlterNullability, Declared(e, diff.nullability))
           redo == RedefineIndexes(diff.indexMismatches)
           keys == Each(AddForeignKey, diff.newForeignKeys)
           head == IF diff.newTable THEN <<CreateTable(e)>> \o born ELSE <<>>
<1>1. /\ p.safe = head \o adds /\ p.notx = Each(CreateIndex, diff.newIndexes)
      /\ p.renames = Each(RenameColumn, diff.renames) /\ p.commented = diff.review
      /\ p.review = ((types \o nulls) \o redo) \o keys /\ p.stale = over
      /\ p = [safe |-> p.safe, notx |-> p.notx, renames |-> p.renames,
              commented |-> p.commented, review |-> p.review, stale |-> p.stale]
  BY DEF Patch, NewTable
<1>2. /\ diff.newTable = ~d.exists /\ diff.newTable \in BOOLEAN /\ diff.review \in BOOLEAN
      /\ diff.newColumns \in SUBSET NamesOf(e)
      /\ diff.renames \in SUBSET LikelyRenames(e, d) /\ IsFiniteSet(diff.renames)
      /\ diff.retyped \in SUBSET NamesOf(e) /\ diff.nullability \in SUBSET NamesOf(e)
      /\ diff.newIndexes \in SUBSET EntityIndexes(e) /\ IsFiniteSet(diff.newIndexes)
      /\ diff.indexMismatches \in SUBSET EntityIndexes(e) /\ IsFiniteSet(diff.indexMismatches)
      /\ diff.newForeignKeys \in SUBSET EntityForeignKeys(e) /\ IsFiniteSet(diff.newForeignKeys)
  BY DiffFacts
<1> HIDE DEF p, diff
<1>3. Lists(born, {CreateIndex(x) : x \in EntityIndexes(e)}) /\ born \in Seq(Statement)
  <2>1. Lists(born, {CreateIndex(x) : x \in EntityIndexes(e)})
    BY DeclarationFacts, EachCreateIndex
  <2>2. {CreateIndex(x) : x \in EntityIndexes(e)} \subseteq Statement
    BY DeclarationFacts, StatementTypes
  <2> HIDE DEF born
  <2> QED
    BY <2>1, <2>2, ListsType
<1>4. /\ Lists(adds, {AddColumn(c) : c \in Declared(e, diff.newColumns)})
      /\ adds \in Seq(Statement)
  <2>1. Lists(adds, {AddColumn(c) : c \in Declared(e, diff.newColumns)})
    BY <1>2, DeclaredFacts, EachAddColumn
  <2>2. {AddColumn(c) : c \in Declared(e, diff.newColumns)} \subseteq Statement
    BY <1>2, DeclaredFacts, StatementTypes
  <2> HIDE DEF adds
  <2> QED
    BY <2>1, <2>2, ListsType
<1>5. /\ Lists(types, {AlterType(c) : c \in Declared(e, diff.retyped)})
      /\ types \in Seq(Statement)
  <2>1. Lists(types, {AlterType(c) : c \in Declared(e, diff.retyped)})
    BY <1>2, DeclaredFacts, EachAlterType
  <2>2. {AlterType(c) : c \in Declared(e, diff.retyped)} \subseteq Statement
    BY <1>2, DeclaredFacts, StatementTypes
  <2> HIDE DEF types
  <2> QED
    BY <2>1, <2>2, ListsType
<1>6. /\ Lists(nulls, {AlterNullability(c) : c \in Declared(e, diff.nullability)})
      /\ nulls \in Seq(Statement)
  <2>1. Lists(nulls, {AlterNullability(c) : c \in Declared(e, diff.nullability)})
    BY <1>2, DeclaredFacts, EachAlterNullability
  <2>2. {AlterNullability(c) : c \in Declared(e, diff.nullability)} \subseteq Statement
    BY <1>2, DeclaredFacts, StatementTypes
  <2> HIDE DEF nulls
  <2> QED
    BY <2>1, <2>2, ListsType
<1>7. /\ Lists(p.notx, {CreateIndex(x) : x \in diff.newIndexes}) /\ p.notx \in Seq(Statement)
  <2>1. Lists(p.notx, {CreateIndex(x) : x \in diff.newIndexes})
    BY <1>1, <1>2, EachCreateIndex
  <2>2. {CreateIndex(x) : x \in diff.newIndexes} \subseteq Statement
    BY <1>2, DeclarationFacts, StatementTypes
  <2> QED
    BY <2>1, <2>2, ListsType
<1>8. /\ Lists(p.renames, {RenameColumn(r) : r \in diff.renames}) /\ p.renames \in Seq(Statement)
      /\ Once(p.renames)
  <2>1. Lists(p.renames, {RenameColumn(r) : r \in diff.renames})
    BY <1>1, <1>2, EachRenameColumn
  <2>2. \A r \in diff.renames : r.from \in Names /\ r.to \in Names
    BY <1>2, LikelyFacts, CandidateFacts
  <2>3. {RenameColumn(r) : r \in diff.renames} \subseteq Statement
    BY <2>2, StatementTypes
  <2>4. ASSUME NEW q \in diff.renames, NEW r \in diff.renames, RenameColumn(q) = RenameColumn(r)
        PROVE  q = r
    <3>1. q.to = r.to
      BY <2>4 DEF RenameColumn
    <3> QED
      BY <1>2, <3>1, LikelyFacts
  <2>5. Once(p.renames)
    BY <1>1, <1>2, <2>4, EachRenameColumn
  <2> QED
    BY <2>1, <2>3, <2>5, ListsType
<1>9. /\ Lists(redo, {DropIndex(x) : x \in diff.indexMismatches}
                      \cup {CreateIndex(x) : x \in diff.indexMismatches})
      /\ redo \in Seq(Statement)
      /\ \A i \in 1 .. Len(redo) :
           \/ \E x \in diff.indexMismatches :
                /\ redo[i] = DropIndex(x) /\ i + 1 \in 1 .. Len(redo)
                /\ redo[i + 1] = CreateIndex(x)
           \/ \E x \in diff.indexMismatches : redo[i] = CreateIndex(x)
  <2> DEFINE S == {DropIndex(x) : x \in diff.indexMismatches}
                    \cup {CreateIndex(x) : x \in diff.indexMismatches}
  <2>1. /\ Lists(redo, S)
        /\ \A i \in 1 .. Len(redo) :
             \/ \E x \in diff.indexMismatches :
                  /\ redo[i] = DropIndex(x) /\ i + 1 \in 1 .. Len(redo)
                  /\ redo[i + 1] = CreateIndex(x)
             \/ \E x \in diff.indexMismatches : redo[i] = CreateIndex(x)
    BY <1>2, RedefineFacts
  <2>2. S \subseteq Statement
    BY <1>2, DeclarationFacts, StatementTypes
  <2> HIDE DEF redo, S
  <2>3. redo \in Seq(Statement)
    BY <2>1, <2>2, ListsType
  <2> QED
    BY <2>1, <2>3 DEF S
<1>10. /\ Lists(keys, {AddForeignKey(f) : f \in diff.newForeignKeys}) /\ keys \in Seq(Statement)
       /\ Once(keys)
  <2>1. Lists(keys, {AddForeignKey(f) : f \in diff.newForeignKeys})
    BY <1>2, EachAddForeignKey
  <2>2. {AddForeignKey(f) : f \in diff.newForeignKeys} \subseteq Statement
    BY <1>2, DeclarationFacts, StatementTypes
  <2>3. \A f, g : AddForeignKey(f) = AddForeignKey(g) => f = g
    BY DEF AddForeignKey
  <2>4. Once(keys)
    BY <1>2, <2>3, EachAddForeignKey
  <2> HIDE DEF keys
  <2> QED
    BY <2>1, <2>2, <2>4, ListsType
<1> HIDE DEF born, adds, types, nulls, redo, keys
<1>11. Parts(e, diff, p, born, adds, types, nulls, redo, keys)
  BY <1>1, <1>3, <1>4, <1>5, <1>6, <1>7, <1>8, <1>9, <1>10 DEF Parts
<1>12. head \in Seq(Statement)
  BY <1>2, <1>3, StatementTypes
<1> HIDE DEF head
<1>13. p.safe \in Seq(Statement) /\ p.review \in Seq(Statement)
  BY <1>1, <1>3, <1>4, <1>5, <1>6, <1>9, <1>10, <1>12
<1>14. p \in PatchType
  BY <1>1, <1>2, <1>7, <1>8, <1>13 DEF PatchType
<1> QED
  BY <1>1, <1>11, <1>14 DEF p, diff

(* The review section with the renames in front, if they run.              *)
Review(p, uncommented) ==
  (IF p.commented /\ ~uncommented THEN <<>> ELSE p.renames) \o p.review

LEMMA RunPatchIs ==
  ASSUME NEW d, WellFormed(d), NEW p \in PatchType, NEW u \in BOOLEAN
  PROVE  LET start == Run(d, None)
         IN  /\ start \in Runs /\ start.failed = None /\ start.database = d
             /\ p.safe \in Seq(Statement) /\ p.notx \in Seq(Statement)
             /\ p.renames \in Seq(Statement) /\ p.review \in Seq(Statement)
             /\ Review(p, u) \in Seq(Statement)
             /\ RunPatch(d, p, u) \in Runs
             /\ RunPatch(d, p, u) =
                  IF p.notx = <<>> THEN RunTransaction(start, p.safe \o Review(p, u))
                  ELSE RunTransaction(RunEach(RunTransaction(start, p.safe), p.notx), Review(p, u))
<1> DEFINE start == Run(d, None)
<1>1. start \in Runs /\ start.failed = None /\ start.database = d
  BY RunType
<1>2. /\ p.safe \in Seq(Statement) /\ p.notx \in Seq(Statement)
      /\ p.renames \in Seq(Statement) /\ p.review \in Seq(Statement)
  BY DEF PatchType
<1>3. Review(p, u) \in Seq(Statement)
  BY <1>2 DEF Review
<1>4. RunPatch(d, p, u) =
        IF p.notx = <<>> THEN RunTransaction(start, p.safe \o Review(p, u))
        ELSE RunTransaction(RunEach(RunTransaction(start, p.safe), p.notx), Review(p, u))
  BY DEF RunPatch, Review
<1> HIDE DEF start
<1>5. RunTransaction(start, p.safe \o Review(p, u)) \in Runs
  <2>1. p.safe \o Review(p, u) \in Seq(Statement)
    BY <1>2, <1>3
  <2> QED
    BY <1>1, <2>1, TransactionType
<1>6. RunTransaction(start, p.safe) \in Runs
  BY <1>1, <1>2, TransactionType
<1>7. RunEach(RunTransaction(start, p.safe), p.notx) \in Runs
  BY <1>2, <1>6, TransactionType
<1>8. RunTransaction(RunEach(RunTransaction(start, p.safe), p.notx), Review(p, u)) \in Runs
  BY <1>3, <1>7, TransactionType
<1>9. RunPatch(d, p, u) \in Runs
  BY <1>4, <1>5, <1>8
<1> QED
  BY <1>1, <1>2, <1>3, <1>4, <1>9 DEF start

LEMMA EditedType ==
  ASSUME NEW e \in Entities, NEW i \in 1 .. Len(e) + 1, NEW gone \in {0, 1},
         NEW new \in {<<>>} \cup {<<c>> : c \in Columns}, Distinct(Edited(e, i, gone, new))
  PROVE  Edited(e, i, gone, new) \in Entities
<1> DEFINE f == Edited(e, i, gone, new)
<1>1. e \in Seq(Columns) /\ Len(e) \in Nat
  BY DEF Entities
<1>2. f = SubSeq(e, 1, i - 1) \o new \o SubSeq(e, i + gone, Len(e))
  BY DEF Edited
<1> HIDE DEF f
<1>3. new \in Seq(Columns)
  <2>1. CASE new = <<>>
    BY <2>1
  <2>2. ASSUME NEW c \in Columns, new = <<c>> PROVE new \in Seq(Columns)
    BY <2>2
  <2> QED
    BY <2>1, <2>2
<1>4. \A j \in 1 .. Len(e) : e[j] \in Columns
  BY <1>1
<1>5. ASSUME NEW m \in Int, NEW n \in Int, 1 <= m, n <= Len(e) PROVE SubSeq(e, m, n) \in Seq(Columns)
  BY <1>1, <1>5, SubSeqProperties
<1>6. SubSeq(e, 1, i - 1) \in Seq(Columns) /\ SubSeq(e, i + gone, Len(e)) \in Seq(Columns)
  <2>1. i \in Int /\ gone \in Int /\ i - 1 <= Len(e) /\ 1 <= i + gone
    BY <1>1
  <2> QED
    BY <1>1, <1>5, <2>1
<1>7. f \in Seq(Columns)
  BY <1>2, <1>3, <1>6
<1> QED
  BY <1>7 DEF Entities, f

(***************************************************************************)
(* The shapes of the state                                                 *)
(***************************************************************************)

(* Every patch, whatever it was compared with and whatever it runs on,     *)
(* leaves a table PostgreSQL can hold: columns with different names, and   *)
(* indexes and foreign keys on columns of the table.                       *)
THEOREM TypeCorrect == Spec => []TypeOK
<1>1. Init => TypeOK
  <2> SUFFICES ASSUME Init PROVE TypeOK
    OBVIOUS
  <2>1. WellFormed(NoTable)
    BY DEF WellFormed, NoTable, Distinct
  <2>2. <<>> \in Entities
    BY DEF Entities, Distinct
  <2>3. entity \in Entities /\ snapshot \in Entities /\ WellFormed(database)
    BY <2>1, <2>2, BornAssumption DEF Init
  <2>4. patches = <<>> /\ patches \in Seq(PatchType) /\ Len(patches) = 0 /\ failed = None
    BY DEF Init
  <2>5. edits \in 0 .. MaxEdits /\ Len(patches) <= MaxPending
    BY <2>4, BoundsAssumption DEF Init
  <2>6. {skipped, redefined} \subseteq BOOLEAN
    BY DEF Init
  <2> QED
    BY <2>3, <2>4, <2>5, <2>6 DEF TypeOK, PatchType
<1>2. TypeOK /\ [Next]_vars => TypeOK'
  <2> SUFFICES ASSUME TypeOK, [Next]_vars PROVE TypeOK'
    OBVIOUS
  <2>0. /\ entity \in Entities /\ snapshot \in Entities /\ WellFormed(database)
        /\ patches \in Seq(PatchType) /\ Len(patches) <= MaxPending
        /\ failed \in Statement \cup {None}
        /\ failed # None => patches # <<>>
        /\ edits \in 0 .. MaxEdits /\ {skipped, redefined} \subseteq BOOLEAN
        /\ MaxEdits \in Nat /\ MaxPending \in Nat
    BY BoundsAssumption DEF TypeOK, PatchType
  <2>1. CASE Edit
    <3>1. PICK i \in 1 .. Len(entity) + 1, gone \in {0, 1}, new \in {<<>>} \cup {<<c>> : c \in Columns} :
            entity' = Edited(entity, i, gone, new) /\ Distinct(Edited(entity, i, gone, new))
      BY <2>1 DEF Edit
    <3>2. entity' \in Entities
      BY <2>0, <3>1, EditedType
    <3>3. edits' \in 0 .. MaxEdits
      BY <2>0, <2>1 DEF Edit
    <3> QED
      BY <2>0, <2>1, <3>2, <3>3 DEF Edit, TypeOK, PatchType
  <2>2. CASE Compare
    <3> DEFINE p == Patch(entity, Diff(entity, database), patches # <<>>)
    <3>1. p \in PatchType
      <4>1. (patches # <<>>) \in BOOLEAN
        OBVIOUS
      <4> HIDE DEF p
      <4> QED
        BY <2>0, <4>1, PatchParts DEF p
    <3>2. patches' = patches \/ patches' = Append(patches, p)
      BY <2>2 DEF Compare
    <3> HIDE DEF p
    <3>3. Len(patches) < MaxPending /\ skipped' \in BOOLEAN /\ snapshot' = entity
      BY <2>2 DEF Compare
    <3>4. patches' \in Seq(PatchType) /\ Len(patches') <= MaxPending
      BY <2>0, <3>1, <3>2, <3>3
    <3>5. failed # None => patches' # <<>>
      <4>1. Append(patches, p) # <<>>
        BY <2>0
      <4> QED
        BY <2>0, <3>2, <4>1
    <3> QED
      BY <2>0, <2>2, <3>3, <3>4, <3>5 DEF Compare, TypeOK, PatchType
  <2>3. CASE Apply
    <3>1. PICK u \in BOOLEAN :
            LET run == RunPatch(database, Head(patches), u)
            IN /\ database' = run.database /\ failed' = run.failed
               /\ patches' = IF run.failed = None THEN Tail(patches) ELSE patches
      BY <2>3 DEF Apply
    <3> DEFINE run == RunPatch(database, Head(patches), u)
    <3>2. patches # <<>> /\ Head(patches) \in PatchType
      BY <2>0, <2>3 DEF Apply
    <3>3. run \in Runs
      BY <2>0, <3>2, RunPatchIs
    <3>4. /\ database' = run.database /\ failed' = run.failed
          /\ patches' = IF run.failed = None THEN Tail(patches) ELSE patches
      BY <3>1
    <3> HIDE DEF run
    <3>5. WellFormed(database') /\ failed' \in Statement \cup {None}
      BY <3>3, <3>4, RunFields
    <3>6. patches' \in Seq(PatchType) /\ Len(patches') <= MaxPending
      BY <2>0, <3>2, <3>4
    <3>7. failed' # None => patches' # <<>>
      BY <3>2, <3>4
    <3>8. redefined' \in BOOLEAN
      BY <2>3 DEF Apply
    <3> QED
      BY <2>0, <2>3, <3>5, <3>6, <3>7, <3>8 DEF Apply, TypeOK, PatchType
  <2>4. CASE GiveUp
    <3>1. failed # None /\ patches' = Tail(patches)
      BY <2>4 DEF GiveUp
    <3>3. patches # <<>>
      BY <2>0, <3>1
    <3>2. patches' \in Seq(PatchType) /\ Len(patches') <= MaxPending
      BY <2>0, <3>1, <3>3
    <3> QED
      BY <2>0, <2>4, <3>2 DEF GiveUp, TypeOK, PatchType
  <2>5. CASE UNCHANGED vars
    BY <2>5 DEF vars, TypeOK, WellFormed
  <2> QED
    BY <2>1, <2>2, <2>3, <2>4, <2>5 DEF Next
<1> QED
  BY <1>1, <1>2, PTL DEF Spec

(***************************************************************************)
(* The live drift check                                                    *)
(***************************************************************************)

LEMMA CatalogFacts ==
  ASSUME NEW d, WellFormed(d)
  PROVE  /\ \A y \in CatalogIndexes(d) : \E x \in d.indexes :
              /\ y.name = x.name /\ y.using = x.using /\ y.where = x.where /\ y.unique = x.unique
              /\ x.on \in DOMAIN d.columns /\ y.on = d.columns[x.on].name /\ x \in StoredIndex
         /\ \A x \in d.indexes : \E y \in CatalogIndexes(d) :
              /\ y.name = x.name /\ y.using = x.using /\ y.where = x.where /\ y.unique = x.unique
              /\ x.on \in DOMAIN d.columns /\ y.on = d.columns[x.on].name
<1> DEFINE Of(x) == [x EXCEPT !.on = d.columns[x.on].name]
<1>1. ASSUME NEW x \in d.indexes
      PROVE  /\ Of(x).name = x.name /\ Of(x).using = x.using /\ Of(x).where = x.where
             /\ Of(x).unique = x.unique /\ Of(x).on = d.columns[x.on].name
             /\ x.on \in DOMAIN d.columns /\ x \in StoredIndex
  <2>1. x \in StoredIndex /\ x.on \in DOMAIN d.columns
    BY TableFacts
  <2>2. x \in [name: Names \X {"idx", "uq"}, on: Nat, using: {"btree", "hash"},
               where: {"", "(predicate)"}, unique: BOOLEAN]
    BY <2>1 DEF StoredIndex
  <2> QED
    BY <2>1, <2>2
<1>2. CatalogIndexes(d) = {Of(x) : x \in d.indexes}
  BY DEF CatalogIndexes
<1> HIDE DEF Of
<1> QED
  BY <1>1, <1>2

(* What two comparable types have in common.                               *)
LEMMA SameType ==
  ASSUME NEW hint \in Types, NEW type \in StoredType, Comparable(hint) = Comparable(type)
  PROVE  /\ type.base = hint.base
         /\ hint.base = "vector" => type.typmod = hint.typmod
         /\ hint.typmod # "" => hint.base \in {"varchar", "vector"}
<1>1. hint.at = "typname" /\ type.at = "formatType"
  BY StoredFacts DEF StoredType
<1>2. type.base = hint.base
  BY DEF Comparable
<1>3. Comparable(hint).typmod = Comparable(type).typmod
  OBVIOUS
<1>4. CASE hint.base = "vector"
  BY <1>2, <1>3, <1>4 DEF Comparable
<1>5. CASE hint.base = "varchar"
  BY <1>2, <1>5
<1>6. CASE hint.base # "vector" /\ hint.base # "varchar"
  BY <1>1, <1>2, <1>3, <1>6 DEF Comparable
<1> QED
  BY <1>4, <1>5, <1>6

(* A live check without drift tells the truth as far as comparablePgType   *)
(* lets it: bases and the size of a vector, not the length of a varchar;   *)
(* and it is never clean for other modifiers (isDriftClean,                *)
(* schema-diff.ts; compareSnapshots).  The same for indexes, also when one *)
(* is present under another name, and although redefinition compares the   *)
(* predicate verbatim.                                                     *)
THEOREM CleanIsIntended == Spec => []CleanMeansIntended
<1> DEFINE diff == Diff(entity, database)
<1>1. TypeOK => CleanMeansIntended
  <2> SUFFICES ASSUME TypeOK, IsDriftClean(diff)
               PROVE  /\ \A i \in DOMAIN entity : \E j \in DOMAIN database.columns :
                           LET declared == IndexOf(entity[i])
                               hint == entity[i].type
                               type == database.columns[j].type
                           IN /\ database.columns[j].name = entity[i].name
                              /\ type.base = hint.base
                              /\ hint.base = "vector" => type.typmod = hint.typmod
                              /\ hint.typmod # "" => hint.base \in {"varchar", "vector"}
                              /\ database.columns[j].nullable = entity[i].nullable
                              /\ entity[i].index # "none" =>
                                   \E x \in database.indexes :
                                     /\ x.on = j /\ x.using = declared.using
                                     /\ x.unique = declared.unique
                                     /\ x.where = Printed(declared.where)
                      /\ \A f \in EntityForeignKeys(entity) :
                           \E g \in database.foreignKeys : g.name = f.name /\ g.rule = f.rule
    BY DEF CleanMeansIntended
  <2>1. entity \in Entities /\ WellFormed(database) /\ database.exists \in BOOLEAN
    BY DEF TypeOK, WellFormed
  <2>2. /\ ~diff.newTable /\ diff.newColumns = {} /\ diff.renames = {}
        /\ diff.retyped = {} /\ diff.nullability = {} /\ diff.newIndexes = {}
        /\ diff.newForeignKeys = {} /\ diff.indexMismatches = {}
        /\ diff.foreignKeyMismatches = {}
    BY DEF IsDriftClean, Noop
  <2>3. database.exists /\ LikelyRenames(entity, database) = {}
    BY <2>1, <2>2 DEF Diff
  <2>4. Renamed(entity, database) = {}
    BY <2>3 DEF Renamed
  <2>5. EntityOnly(entity, database) = {}
    BY <2>2, <2>3, <2>4 DEF Diff
  <2>6. /\ Retyped(entity, database) = {} /\ NullabilityMismatches(entity, database) = {}
        /\ NewIndexes(entity, database) = {} /\ IndexMismatches(entity, database) = {}
        /\ \A f \in EntityForeignKeys(entity) :
             /\ \E g \in database.foreignKeys : g.name = f.name
             /\ ~ \E g \in database.foreignKeys : g.name = f.name /\ g.rule # f.rule
    BY <2>2, <2>3 DEF Diff
  <2> HIDE DEF diff
  <2>7. ASSUME NEW i \in DOMAIN entity
        PROVE  \E j \in DOMAIN database.columns :
                 LET declared == IndexOf(entity[i])
                     hint == entity[i].type
                     type == database.columns[j].type
                 IN /\ database.columns[j].name = entity[i].name
                    /\ type.base = hint.base
                    /\ hint.base = "vector" => type.typmod = hint.typmod
                    /\ hint.typmod # "" => hint.base \in {"varchar", "vector"}
                    /\ database.columns[j].nullable = entity[i].nullable
                    /\ entity[i].index # "none" =>
                         \E x \in database.indexes :
                           /\ x.on = j /\ x.using = declared.using
                           /\ x.unique = declared.unique
                           /\ x.where = Printed(declared.where)
    <3>1. entity[i].name \in NamesOf(database.columns)
      BY <2>5 DEF EntityOnly, NamesOf
    <3>2. PICK j \in DOMAIN database.columns : database.columns[j].name = entity[i].name
      BY <3>1 DEF NamesOf
    <3>3. LET hint == entity[i].type
              type == database.columns[j].type
          IN  /\ type.base = hint.base
              /\ hint.base = "vector" => type.typmod = hint.typmod
              /\ hint.typmod # "" => hint.base \in {"varchar", "vector"}
      <4>1. Comparable(entity[i].type) = Comparable(database.columns[j].type)
        BY <2>6, <3>2 DEF Retyped
      <4>2. entity[i].type \in Types /\ database.columns[j].type \in StoredType
        BY <2>1, EntityFacts, TableFacts
      <4> QED
        BY <4>1, <4>2, SameType
    <3>4. database.columns[j].nullable = entity[i].nullable
      BY <2>6, <3>2 DEF NullabilityMismatches
    <3>5. ASSUME entity[i].index # "none"
          PROVE  \E x \in database.indexes :
                   LET declared == IndexOf(entity[i])
                   IN /\ x.on = j /\ x.using = declared.using /\ x.unique = declared.unique
                      /\ x.where = Printed(declared.where)
      <4>1. PICK declared \in EntityIndexes(entity) : declared = IndexOf(entity[i])
        BY <3>5 DEF EntityIndexes
      <4>2. PICK y \in CatalogIndexes(database) : y.name = declared.name \/ Equivalent(declared, y)
        BY <2>6 DEF NewIndexes
      <4>3. y.name = declared.name => ~Redefined(declared, y)
        BY <2>6 DEF IndexMismatches
      <4>4. PICK x \in database.indexes :
              /\ y.name = x.name /\ y.using = x.using /\ y.where = x.where /\ y.unique = x.unique
              /\ x.on \in DOMAIN database.columns /\ y.on = database.columns[x.on].name
              /\ x \in StoredIndex
        BY <2>1, CatalogFacts
      <4>5. declared \in DeclaredIndex /\ declared.on = entity[i].name
        BY <2>1, <4>1, DeclarationFacts DEF IndexOf
      <4>6. /\ declared.where \in {"", "predicate"} /\ declared.unique \in BOOLEAN /\ NamedFor(declared)
            /\ x.where \in {"", "(predicate)"} /\ x.unique \in BOOLEAN /\ NamedFor(x)
        BY <4>4, <4>5 DEF DeclaredIndex, StoredIndex
      <4>7. y.using = declared.using /\ y.on = declared.on
        BY <4>2, <4>3 DEF Equivalent, Redefined
      <4>8. y.unique = declared.unique
        BY <4>2, <4>4, <4>6 DEF Equivalent, NamedFor
      <4>9. y.where = Printed(declared.where)
        <5>1. CASE y.name = declared.name
          BY <4>3, <4>4, <4>6, <5>1 DEF Redefined, Printed
        <5>2. CASE Equivalent(declared, y)
          BY <4>4, <4>6, <5>2 DEF Equivalent, Normal, Printed
        <5> QED
          BY <4>2, <5>1, <5>2
      <4>10. x.on = j
        <5>1. Distinct(database.columns)
          BY <2>1, TableFacts
        <5>2. database.columns[x.on].name = database.columns[j].name
          BY <3>2, <4>4, <4>5, <4>7
        <5> QED
          BY <4>4, <5>1, <5>2 DEF Distinct
      <4> QED
        BY <4>1, <4>4, <4>7, <4>8, <4>9, <4>10
    <3> QED
      BY <3>2, <3>3, <3>4, <3>5
  <2> QED
    BY <2>6, <2>7
<1> QED
  BY <1>1, TypeCorrect, PTL

(***************************************************************************)
(* What a patch may not take away                                          *)
(***************************************************************************)

Keeps(d, u) ==
  /\ DOMAIN d.columns \subseteq DOMAIN u.columns
  /\ \A x \in d.indexes : \E y \in u.indexes : y.name = x.name
  /\ d.foreignKeys \subseteq u.foreignKeys

LEMMA KeepsTransitive ==
  ASSUME NEW c, NEW d, NEW u
  PROVE  Keeps(d, d) /\ (Keeps(c, d) /\ Keeps(d, u) => Keeps(c, u))
<1>1. Keeps(d, d)
  BY DEF Keeps
<1>2. ASSUME Keeps(c, d), Keeps(d, u) PROVE Keeps(c, u)
  <2>1. ASSUME NEW x \in c.indexes PROVE \E y \in u.indexes : y.name = x.name
    <3>1. PICK y \in d.indexes : y.name = x.name
      BY <1>2 DEF Keeps
    <3>2. PICK z \in u.indexes : z.name = y.name
      BY <1>2 DEF Keeps
    <3> QED
      BY <3>1, <3>2
  <2> QED
    BY <1>2, <2>1 DEF Keeps
<1> QED
  BY <1>1, <1>2

(* Only DROP INDEX takes something away, and only that index.              *)
LEMMA EffectKeeps ==
  ASSUME NEW d, WellFormed(d), NEW s \in Statement, Accepts(d, s)
  PROVE  LET u == Effect(d, s)
         IN  /\ DOMAIN d.columns \subseteq DOMAIN u.columns /\ d.foreignKeys \subseteq u.foreignKeys
             /\ \A x \in d.indexes :
                  \/ \E y \in u.indexes : y.name = x.name
                  \/ s.op = "dropIndex" /\ s.name = x.name
             /\ s.op = "createIndex" => \E y \in u.indexes : y.name = s.index.name
<1> DEFINE u == Effect(d, s)
           Goal == /\ DOMAIN d.columns \subseteq DOMAIN u.columns
                   /\ d.foreignKeys \subseteq u.foreignKeys
                   /\ \A x \in d.indexes :
                        \/ \E y \in u.indexes : y.name = x.name
                        \/ s.op = "dropIndex" /\ s.name = x.name
                   /\ s.op = "createIndex" => \E y \in u.indexes : y.name = s.index.name
<1> SUFFICES Goal
  OBVIOUS
<1> HIDE DEF u
<1>1. CASE s.op = "createTable"
  <2>1. CASE d.exists
    <3>1. u = d
      BY <1>1, <2>1 DEF Effect, u
    <3> QED
      BY <1>1, <3>1
  <2>2. CASE ~d.exists
    <3>1. d = NoTable
      BY <2>2 DEF WellFormed
    <3>2. DOMAIN d.columns = {} /\ d.indexes = {} /\ d.foreignKeys = {}
      BY <3>1 DEF NoTable
    <3> QED
      BY <1>1, <3>2
  <2> QED
    BY <2>1, <2>2
<1>2. CASE s.op = "addColumn"
  <2>1. /\ u.indexes = d.indexes /\ u.foreignKeys = d.foreignKeys
        /\ \A i \in DOMAIN d.columns : i \in DOMAIN u.columns
    BY <1>2, AddColumnEffect DEF u
  <2> QED
    BY <1>2, <2>1
<1>3. CASE s.op = "createIndex"
  <2>1. /\ u.columns = d.columns /\ u.foreignKeys = d.foreignKeys /\ d.indexes \subseteq u.indexes
        /\ \E x \in u.indexes : x.name = s.index.name
    BY <1>3, CreateIndexEffect DEF u
  <2> QED
    BY <2>1
<1>4. CASE s.op = "dropIndex"
  <2>1. /\ u.columns = d.columns /\ u.foreignKeys = d.foreignKeys
        /\ u.indexes = {x \in d.indexes : x.name # s.name}
    BY <1>4, DropIndexEffect DEF u
  <2> QED
    BY <1>4, <2>1
<1>5. CASE s.op = "rename"
  <2>1. u.indexes = d.indexes /\ u.foreignKeys = d.foreignKeys /\ DOMAIN u.columns = DOMAIN d.columns
    BY <1>5, RenameEffect DEF u
  <2> QED
    BY <1>5, <2>1
<1>6. CASE s.op \in {"alterType", "alterNullability"}
  <2>1. u.indexes = d.indexes /\ u.foreignKeys = d.foreignKeys /\ DOMAIN u.columns = DOMAIN d.columns
    BY <1>6, AlterEffect DEF u
  <2> QED
    BY <1>6, <2>1
<1>7. CASE s.op = "addForeignKey"
  <2>1. u.indexes = d.indexes /\ d.foreignKeys \subseteq u.foreignKeys /\ u.columns = d.columns
    BY <1>7, ForeignKeyEffect DEF u
  <2> QED
    BY <1>7, <2>1
<1> QED
  BY <1>1, <1>2, <1>3, <1>4, <1>5, <1>6, <1>7, StatementFields

(* An index that is dropped is created again by the next statement.        *)
ReplacesDrops(s) ==
  \A i \in 1 .. Len(s) :
    s[i].op = "dropIndex" =>
      /\ i + 1 \in 1 .. Len(s) /\ s[i + 1].op = "createIndex" /\ s[i + 1].index.name = s[i].name
NoDrops(s) == \A i \in 1 .. Len(s) : s[i].op # "dropIndex"

LEMMA ReplacesAppend ==
  ASSUME NEW s \in Seq(Statement), NEW t \in Seq(Statement), ReplacesDrops(s), ReplacesDrops(t)
  PROVE  ReplacesDrops(s \o t) /\ s \o t \in Seq(Statement)
<1>1. PICK m \in Nat, n \in Nat : m = Len(s) /\ n = Len(t)
  OBVIOUS
<1>2. /\ s \o t \in Seq(Statement) /\ Len(s \o t) = m + n
      /\ \A i \in 1 .. m : (s \o t)[i] = s[i]
      /\ \A i \in 1 .. m + n : i > m => (s \o t)[i] = t[i - m]
  BY <1>1
<1>3. ASSUME NEW i \in 1 .. m + n, (s \o t)[i].op = "dropIndex"
      PROVE  /\ i + 1 \in 1 .. m + n /\ (s \o t)[i + 1].op = "createIndex"
             /\ (s \o t)[i + 1].index.name = (s \o t)[i].name
  <2>1. CASE i <= m
    <3>1. i \in 1 .. m /\ (s \o t)[i] = s[i]
      BY <1>1, <1>2, <2>1
    <3>2. i + 1 \in 1 .. m /\ s[i + 1].op = "createIndex" /\ s[i + 1].index.name = s[i].name
      BY <1>1, <1>3, <3>1 DEF ReplacesDrops
    <3> QED
      BY <1>1, <1>2, <3>1, <3>2
  <2>2. CASE i > m
    <3>1. i - m \in 1 .. n /\ (s \o t)[i] = t[i - m]
      BY <1>1, <1>2, <2>2
    <3>2. /\ (i - m) + 1 \in 1 .. n /\ t[(i - m) + 1].op = "createIndex"
          /\ t[(i - m) + 1].index.name = t[i - m].name
      BY <1>1, <1>3, <3>1 DEF ReplacesDrops
    <3>3. i + 1 \in 1 .. m + n /\ i + 1 > m /\ (i + 1) - m = (i - m) + 1
      BY <1>1, <2>2, <3>2
    <3>4. (s \o t)[i + 1] = t[(i - m) + 1]
      BY <1>2, <3>3
    <3> QED
      BY <3>1, <3>2, <3>3, <3>4
  <2>3. i <= m \/ i > m
    OBVIOUS
  <2> QED
    BY <2>1, <2>2, <2>3
<1> QED
  BY <1>2, <1>3 DEF ReplacesDrops

(* A transaction that succeeds has created again what it dropped, one that *)
(* fails is rolled back.                                                   *)
LEMMA TransactionKeeps ==
  ASSUME NEW r \in Runs, NEW s \in Seq(Statement), ReplacesDrops(s)
  PROVE  Keeps(r.database, RunTransaction(r, s).database)
<1>1. PICK n \in Nat : n = Len(s) /\ \A i \in 1 .. n : s[i] \in Statement
  OBVIOUS
<1> DEFINE d == r.database
           Between(i, u) ==
             /\ DOMAIN d.columns \subseteq DOMAIN u.columns /\ d.foreignKeys \subseteq u.foreignKeys
             /\ \A x \in d.indexes :
                  \/ \E y \in u.indexes : y.name = x.name
                  \/ i \in 1 .. n /\ s[i].op = "dropIndex" /\ s[i].name = x.name
           Reached == [i \in 0 .. n |-> {x \in Runs : x.failed = None => Between(i, x.database)}]
<1>2. \A i \in 0 .. n, x \in Runs : x \in Reached[i] <=> (x.failed = None => Between(i, x.database))
  OBVIOUS
<1>3. Between(0, d)
  OBVIOUS
<1>4. r \in Reached[0]
  BY <1>2, <1>3
<1> HIDE DEF Reached
<1>5. ASSUME NEW i \in 1 .. n, NEW x \in Runs, x \in Reached[i - 1]
      PROVE  Execute(x, s[i]) \in Reached[i]
  <2> DEFINE y == Execute(x, s[i])
  <2>1. i \in 0 .. n /\ i - 1 \in 0 .. n /\ (i - 1) + 1 = i /\ s[i] \in Statement
    BY <1>1
  <2>2. y \in Runs
    BY <2>1, ExecuteFacts
  <2>3. ASSUME y.failed = None PROVE Between(i, y.database)
    <3>1. x.failed = None /\ Accepts(x.database, s[i]) /\ y.database = Effect(x.database, s[i])
      <4>1. s[i] # None
        BY <2>1, StatementFields
      <4> QED
        BY <2>1, <2>3, <4>1, ExecuteFacts
    <3>2. Between(i - 1, x.database)
      BY <1>2, <1>5, <2>1, <3>1
    <3>3. WellFormed(x.database)
      BY RunFields
    <3>4. /\ DOMAIN x.database.columns \subseteq DOMAIN y.database.columns
          /\ x.database.foreignKeys \subseteq y.database.foreignKeys
          /\ \A z \in x.database.indexes :
               \/ \E w \in y.database.indexes : w.name = z.name
               \/ s[i].op = "dropIndex" /\ s[i].name = z.name
          /\ s[i].op = "createIndex" => \E w \in y.database.indexes : w.name = s[i].index.name
      BY <2>1, <3>1, <3>3, EffectKeeps
    <3> HIDE DEF y
    <3>5. ASSUME NEW z \in d.indexes
          PROVE  \/ \E w \in y.database.indexes : w.name = z.name
                 \/ s[i].op = "dropIndex" /\ s[i].name = z.name
      <4>1. CASE \E w \in x.database.indexes : w.name = z.name
        BY <3>4, <4>1
      <4>2. CASE i - 1 \in 1 .. n /\ s[i - 1].op = "dropIndex" /\ s[i - 1].name = z.name
        <5>1. s[i].op = "createIndex" /\ s[i].index.name = z.name
          BY <1>1, <2>1, <4>2 DEF ReplacesDrops
        <5> QED
          BY <3>4, <5>1
      <4> QED
        BY <3>2, <4>1, <4>2
    <3> QED
      BY <3>2, <3>4, <3>5
  <2> QED
    BY <1>2, <2>1, <2>2, <2>3
<1>6. \A i \in 1 .. Len(s) : \A x \in Runs : x \in Reached[i - 1] => Execute(x, s[i]) \in Reached[i]
  BY <1>1, <1>5
<1>7. RunEach(r, s) \in Runs /\ RunEach(r, s) \in Reached[Len(s)]
  BY <1>4, <1>6, Reach
<1>8. CASE RunEach(r, s).failed = None
  <2>1. RunTransaction(r, s) = RunEach(r, s)
    BY <1>8, TransactionType
  <2>2. n \in 0 .. n /\ ~(n \in 1 .. n /\ n + 1 \in 1 .. n)
    OBVIOUS
  <2>3. Between(n, RunEach(r, s).database)
    BY <1>1, <1>2, <1>7, <1>8, <2>2
  <2>4. ~(n \in 1 .. n /\ s[n].op = "dropIndex")
    BY <1>1, <2>2 DEF ReplacesDrops
  <2> QED
    BY <2>1, <2>3, <2>4 DEF Keeps
<1>9. CASE RunEach(r, s).failed # None
  <2>1. RunTransaction(r, s).database = d
    BY <1>9, TransactionType
  <2> QED
    BY <2>1, KeepsTransitive
<1> QED
  BY <1>8, <1>9

LEMMA RunKeeps ==
  ASSUME NEW r \in Runs, NEW s \in Seq(Statement), NoDrops(s)
  PROVE  Keeps(r.database, RunEach(r, s).database)
<1>1. PICK n \in Nat : n = Len(s) /\ \A i \in 1 .. n : s[i] \in Statement
  OBVIOUS
<1> DEFINE d == r.database
           Reached == [i \in 0 .. n |-> {x \in Runs : Keeps(d, x.database)}]
<1>2. \A i \in 0 .. n, x \in Runs : x \in Reached[i] <=> Keeps(d, x.database)
  OBVIOUS
<1>3. r \in Reached[0]
  BY <1>2, KeepsTransitive
<1> HIDE DEF Reached
<1>4. ASSUME NEW i \in 1 .. n, NEW x \in Runs, x \in Reached[i - 1]
      PROVE  Execute(x, s[i]) \in Reached[i]
  <2> DEFINE y == Execute(x, s[i])
  <2>1. i \in 0 .. n /\ i - 1 \in 0 .. n /\ s[i] \in Statement /\ s[i].op # "dropIndex"
    BY <1>1 DEF NoDrops
  <2>2. y \in Runs
    BY <2>1, ExecuteFacts
  <2>3. CASE x.failed = None /\ Accepts(x.database, s[i])
    <3>1. y.database = Effect(x.database, s[i]) /\ WellFormed(x.database)
      BY <2>1, <2>3, ExecuteFacts, RunFields
    <3> HIDE DEF y
    <3>2. Keeps(x.database, y.database)
      BY <2>1, <2>3, <3>1, EffectKeeps DEF Keeps
    <3> QED
      BY <1>2, <1>4, <2>1, <2>2, <3>2, KeepsTransitive DEF y
  <2>4. CASE ~(x.failed = None /\ Accepts(x.database, s[i]))
    <3>1. y.database = x.database
      BY <2>1, <2>4, ExecuteFacts
    <3> QED
      BY <1>2, <1>4, <2>1, <2>2, <3>1
  <2> QED
    BY <2>3, <2>4
<1>5. \A i \in 1 .. Len(s) : \A x \in Runs : x \in Reached[i - 1] => Execute(x, s[i]) \in Reached[i]
  BY <1>1, <1>4
<1>6. RunEach(r, s) \in Runs /\ RunEach(r, s) \in Reached[n]
  BY <1>1, <1>3, <1>5, Reach
<1> QED
  BY <1>2, <1>6

ReplacesItsDrops(p) ==
  /\ ReplacesDrops(p.safe) /\ NoDrops(p.notx) /\ ReplacesDrops(p.renames)
  /\ ReplacesDrops(p.review)

LEMMA PatchKeeps ==
  ASSUME NEW d, WellFormed(d), NEW p \in PatchType, ReplacesItsDrops(p), NEW u \in BOOLEAN
  PROVE  Keeps(d, RunPatch(d, p, u).database)
<1>1. PICK start \in Runs : start = Run(d, None) /\ start.database = d
  BY RunPatchIs
<1>2. /\ p.safe \in Seq(Statement) /\ p.notx \in Seq(Statement)
      /\ p.renames \in Seq(Statement) /\ p.review \in Seq(Statement)
      /\ Review(p, u) \in Seq(Statement)
      /\ RunPatch(d, p, u) =
           IF p.notx = <<>> THEN RunTransaction(start, p.safe \o Review(p, u))
           ELSE RunTransaction(RunEach(RunTransaction(start, p.safe), p.notx), Review(p, u))
  BY <1>1, RunPatchIs
<1>3. ReplacesDrops(Review(p, u))
  <2>1. ReplacesDrops(<<>>)
    BY DEF ReplacesDrops
  <2>2. ReplacesDrops(p.renames \o p.review)
    BY <1>2, ReplacesAppend DEF ReplacesItsDrops
  <2>3. ReplacesDrops(<<>> \o p.review)
    BY <1>2, <2>1, ReplacesAppend DEF ReplacesItsDrops
  <2> QED
    BY <2>2, <2>3 DEF Review
<1>4. CASE p.notx = <<>>
  <2>1. ReplacesDrops(p.safe \o Review(p, u)) /\ p.safe \o Review(p, u) \in Seq(Statement)
    BY <1>2, <1>3, ReplacesAppend DEF ReplacesItsDrops
  <2>2. Keeps(d, RunTransaction(start, p.safe \o Review(p, u)).database)
    BY <1>1, <2>1, TransactionKeeps
  <2> QED
    BY <1>2, <1>4, <2>2
<1>5. CASE p.notx # <<>>
  <2>1. PICK first \in Runs : first = RunTransaction(start, p.safe)
    BY <1>2, TransactionType
  <2>2. PICK second \in Runs : second = RunEach(first, p.notx)
    BY <1>2, TransactionType
  <2>3. PICK third \in Runs : third = RunTransaction(second, Review(p, u))
    BY <1>2, TransactionType
  <2>4. RunPatch(d, p, u) = third
    BY <1>2, <1>5, <2>1, <2>2, <2>3
  <2>5. Keeps(d, first.database)
    BY <1>1, <1>2, <2>1, TransactionKeeps DEF ReplacesItsDrops
  <2>6. Keeps(first.database, second.database)
    BY <1>2, <2>2, RunKeeps DEF ReplacesItsDrops
  <2>7. Keeps(second.database, third.database)
    BY <1>2, <1>3, <2>3, TransactionKeeps
  <2> QED
    BY <2>4, <2>5, <2>6, <2>7, KeepsTransitive
<1> QED
  BY <1>4, <1>5

LEMMA NoDropsReplaces ==
  ASSUME NEW s, NoDrops(s)
  PROVE  ReplacesDrops(s)
BY DEF NoDrops, ReplacesDrops

LEMMA ListsNoDrops ==
  ASSUME NEW s, NEW S, Lists(s, S), \A t \in S : t.op # "dropIndex"
  PROVE  NoDrops(s)
BY DEF Lists, NoDrops

LEMMA PatchReplaces ==
  ASSUME NEW e \in Entities, NEW d, WellFormed(d), NEW over \in BOOLEAN
  PROVE  ReplacesItsDrops(Patch(e, Diff(e, d), over))
<1> DEFINE diff == Diff(e, d)
           p == Patch(e, diff, over)
<1>1. PICK born, adds, types, nulls, redo, keys : Parts(e, diff, p, born, adds, types, nulls, redo, keys)
  BY PatchParts
<1> HIDE DEF p, diff
<1> USE <1>1
<1>2. NoDrops(born)
  <2>1. Lists(born, {CreateIndex(x) : x \in EntityIndexes(e)})
    BY DEF Parts
  <2>2. \A x : CreateIndex(x).op # "dropIndex"
    BY DEF CreateIndex
  <2> QED
    BY <2>1, <2>2, ListsNoDrops
<1>3. NoDrops(adds)
  <2>1. Lists(adds, {AddColumn(c) : c \in Declared(e, diff.newColumns)})
    BY DEF Parts
  <2>2. \A c : AddColumn(c).op # "dropIndex"
    BY DEF AddColumn
  <2> QED
    BY <2>1, <2>2, ListsNoDrops
<1>4. NoDrops(p.notx)
  <2>1. Lists(p.notx, {CreateIndex(x) : x \in diff.newIndexes})
    BY DEF Parts
  <2>2. \A x : CreateIndex(x).op # "dropIndex"
    BY DEF CreateIndex
  <2> QED
    BY <2>1, <2>2, ListsNoDrops
<1>5. NoDrops(p.renames)
  <2>1. Lists(p.renames, {RenameColumn(r) : r \in diff.renames})
    BY DEF Parts
  <2>2. \A r : RenameColumn(r).op # "dropIndex"
    BY DEF RenameColumn
  <2> QED
    BY <2>1, <2>2, ListsNoDrops
<1>6. NoDrops(types)
  <2>1. Lists(types, {AlterType(c) : c \in Declared(e, diff.retyped)})
    BY DEF Parts
  <2>2. \A c : AlterType(c).op # "dropIndex"
    BY DEF AlterType
  <2> QED
    BY <2>1, <2>2, ListsNoDrops
<1>7. NoDrops(nulls)
  <2>1. Lists(nulls, {AlterNullability(c) : c \in Declared(e, diff.nullability)})
    BY DEF Parts
  <2>2. \A c : AlterNullability(c).op # "dropIndex"
    BY DEF AlterNullability
  <2> QED
    BY <2>1, <2>2, ListsNoDrops
<1>8. NoDrops(keys)
  <2>1. Lists(keys, {AddForeignKey(f) : f \in diff.newForeignKeys})
    BY DEF Parts
  <2>2. \A f : AddForeignKey(f).op # "dropIndex"
    BY DEF AddForeignKey
  <2> QED
    BY <2>1, <2>2, ListsNoDrops
<1>9. ReplacesDrops(redo)
  <2> SUFFICES ASSUME NEW i \in 1 .. Len(redo), redo[i].op = "dropIndex"
               PROVE  /\ i + 1 \in 1 .. Len(redo) /\ redo[i + 1].op = "createIndex"
                      /\ redo[i + 1].index.name = redo[i].name
    BY DEF ReplacesDrops
  <2>1. PICK x \in diff.indexMismatches :
          \/ redo[i] = DropIndex(x) /\ i + 1 \in 1 .. Len(redo) /\ redo[i + 1] = CreateIndex(x)
          \/ redo[i] = CreateIndex(x)
    BY DEF Parts
  <2>2. CreateIndex(x).op = "createIndex" /\ CreateIndex(x).index = x /\ DropIndex(x).name = x.name
    BY DEF CreateIndex, DropIndex
  <2> QED
    BY <2>1, <2>2
<1>10. /\ born \in Seq(Statement) /\ adds \in Seq(Statement) /\ types \in Seq(Statement)
       /\ nulls \in Seq(Statement) /\ redo \in Seq(Statement) /\ keys \in Seq(Statement)
       /\ p.safe = (IF diff.newTable THEN <<CreateTable(e)>> \o born ELSE <<>>) \o adds
       /\ p.review = ((types \o nulls) \o redo) \o keys
  BY DEF Parts
<1>11. ReplacesDrops(p.review)
  <2>1. ReplacesDrops(types \o nulls) /\ types \o nulls \in Seq(Statement)
    BY <1>6, <1>7, <1>10, NoDropsReplaces, ReplacesAppend
  <2>2. ReplacesDrops((types \o nulls) \o redo) /\ (types \o nulls) \o redo \in Seq(Statement)
    BY <1>9, <1>10, <2>1, ReplacesAppend
  <2> QED
    BY <1>8, <1>10, <2>2, NoDropsReplaces, ReplacesAppend
<1>12. ReplacesDrops(p.safe)
  <2>1. <<CreateTable(e)>> \in Seq(Statement) /\ NoDrops(<<CreateTable(e)>>)
    BY StatementTypes DEF NoDrops, CreateTable
  <2>2. /\ ReplacesDrops(<<CreateTable(e)>> \o born)
        /\ <<CreateTable(e)>> \o born \in Seq(Statement)
    BY <1>2, <1>10, <2>1, NoDropsReplaces, ReplacesAppend
  <2>3. <<>> \in Seq(Statement) /\ NoDrops(<<>>)
    BY DEF NoDrops
  <2>4. ReplacesDrops((<<CreateTable(e)>> \o born) \o adds)
    BY <1>3, <1>10, <2>2, NoDropsReplaces, ReplacesAppend
  <2>5. ReplacesDrops(<<>> \o adds)
    BY <1>3, <1>10, <2>3, NoDropsReplaces, ReplacesAppend
  <2> QED
    BY <1>10, <2>4, <2>5
<1>13. ReplacesItsDrops(p)
  BY <1>4, <1>5, <1>11, <1>12, NoDropsReplaces DEF ReplacesItsDrops
<1> QED
  BY <1>13 DEF p, diff

PatchesReplaceDrops == \A i \in 1 .. Len(patches) : ReplacesItsDrops(patches[i])

(* Whatever patch runs, on whatever table, uncommented or not and wherever *)
(* it fails: no column, index or foreign key is gone after it.  A patch    *)
(* drops an index only to create it again by its next statement, in the    *)
(* same transaction (buildSqlPatchFromMetaDiff), which is rolled back when *)
(* it fails; the sections before are kept, and drop nothing.               *)
THEOREM NothingIsLost == Spec => NothingIsDropped
<1>1. Init => PatchesReplaceDrops
  BY DEF Init, PatchesReplaceDrops
<1>2. TypeOK /\ PatchesReplaceDrops /\ [Next]_vars => PatchesReplaceDrops'
  <2> SUFFICES ASSUME TypeOK, PatchesReplaceDrops, [Next]_vars PROVE PatchesReplaceDrops'
    OBVIOUS
  <2>0. entity \in Entities /\ WellFormed(database) /\ patches \in Seq(PatchType)
    BY DEF TypeOK, PatchType
  <2>1. CASE UNCHANGED patches
    BY <2>1 DEF PatchesReplaceDrops
  <2>2. CASE Compare
    <3> DEFINE p == Patch(entity, Diff(entity, database), patches # <<>>)
    <3>1. (patches # <<>>) \in BOOLEAN
      OBVIOUS
    <3>2. ReplacesItsDrops(p)
      BY <2>0, <3>1, PatchReplaces
    <3>3. patches' = patches \/ patches' = Append(patches, p)
      BY <2>2 DEF Compare
    <3> HIDE DEF p
    <3>4. CASE patches' = Append(patches, p)
      <4>1. Len(patches') = Len(patches) + 1 /\ Len(patches) \in Nat
        BY <2>0, <3>4
      <4>2. ASSUME NEW i \in 1 .. Len(patches') PROVE ReplacesItsDrops(patches'[i])
        <5>1. CASE i <= Len(patches)
          <6>1. patches'[i] = patches[i] /\ i \in 1 .. Len(patches)
            BY <2>0, <3>4, <4>1, <5>1
          <6> QED
            BY <6>1 DEF PatchesReplaceDrops
        <5>2. CASE i = Len(patches) + 1
          BY <2>0, <3>2, <3>4, <5>2
        <5> QED
          BY <4>1, <5>1, <5>2
      <4> QED
        BY <4>2 DEF PatchesReplaceDrops
    <3> QED
      BY <2>1, <3>3, <3>4
  <2>3. CASE patches # <<>> /\ patches' = Tail(patches)
    <3>1. \A i \in 1 .. Len(patches') : patches'[i] = patches[i + 1] /\ i + 1 \in 1 .. Len(patches)
      BY <2>0, <2>3
    <3> QED
      BY <3>1 DEF PatchesReplaceDrops
  <2>4. CASE GiveUp
    <3>1. patches # <<>>
      BY <2>4 DEF GiveUp, TypeOK
    <3> QED
      BY <2>3, <2>4, <3>1 DEF GiveUp
  <2> QED
    BY <2>1, <2>2, <2>3, <2>4 DEF Next, Edit, Apply, vars
<1>3. TypeOK /\ PatchesReplaceDrops /\ [Next]_vars =>
        [/\ DOMAIN database.columns \subseteq DOMAIN database'.columns
         /\ \A x \in database.indexes : \E y \in database'.indexes : y.name = x.name
         /\ database.foreignKeys \subseteq database'.foreignKeys]_vars
  <2> SUFFICES ASSUME TypeOK, PatchesReplaceDrops, Next PROVE Keeps(database, database')
    BY DEF Keeps
  <2>1. CASE UNCHANGED database
    BY <2>1, KeepsTransitive
  <2>2. CASE Apply
    <3>1. /\ WellFormed(database) /\ patches # <<>> /\ patches \in Seq(PatchType)
      BY <2>2 DEF TypeOK, PatchType, Apply
    <3>2. Head(patches) \in PatchType /\ ReplacesItsDrops(Head(patches))
      <4>1. Head(patches) = patches[1] /\ 1 \in 1 .. Len(patches)
        BY <3>1
      <4> QED
        BY <3>1, <4>1 DEF PatchesReplaceDrops
    <3>3. PICK u \in BOOLEAN : database' = RunPatch(database, Head(patches), u).database
      BY <2>2 DEF Apply
    <3> QED
      BY <3>1, <3>2, <3>3, PatchKeeps
  <2> QED
    BY <2>1, <2>2 DEF Next, Edit, Compare, GiveUp
<1> QED
  BY <1>1, <1>2, <1>3, TypeCorrect, PTL DEF Spec, NothingIsDropped

(***************************************************************************)
(* Why a patch fails                                                       *)
(***************************************************************************)

(* A run has come to one of the tables of G, or failed at one of the       *)
(* statements of R.                                                        *)
Stage(r, G, R) ==
  /\ r.failed = None => r.database \in G
  /\ r.failed # None => r.failed \in R

LEMMA Phase ==
  ASSUME NEW r \in Runs, NEW s \in Seq(Statement), NEW G, NEW R, Stage(r, G[0], R),
         \A i \in 1 .. Len(s) : \A d \in G[i - 1] :
           WellFormed(d) => IF Accepts(d, s[i]) THEN Effect(d, s[i]) \in G[i] ELSE s[i] \in R
  PROVE  RunEach(r, s) \in Runs /\ Stage(RunEach(r, s), G[Len(s)], R)
<1>1. PICK n \in Nat : n = Len(s) /\ \A i \in 1 .. n : s[i] \in Statement
  OBVIOUS
<1> DEFINE Reached == [i \in 0 .. n |-> {x \in Runs : Stage(x, G[i], R)}]
<1>2. \A i \in 0 .. n, x \in Runs : x \in Reached[i] <=> Stage(x, G[i], R)
  OBVIOUS
<1>3. r \in Reached[0]
  BY <1>2
<1> HIDE DEF Reached
<1>4. ASSUME NEW i \in 1 .. n, NEW x \in Runs, x \in Reached[i - 1]
      PROVE  Execute(x, s[i]) \in Reached[i]
  <2>1. i \in 0 .. n /\ i - 1 \in 0 .. n /\ s[i] \in Statement /\ i \in 1 .. Len(s)
    BY <1>1
  <2>2. PICK y \in Runs : y = Execute(x, s[i])
    BY <2>1, ExecuteFacts
  <2>3. Stage(x, G[i - 1], R) /\ WellFormed(x.database) /\ s[i] # None
    BY <1>2, <1>4, <2>1, RunFields, StatementFields
  <2>4. CASE x.failed # None
    BY <2>1, <2>2, <2>3, <2>4, <1>2, ExecuteFacts DEF Stage
  <2>5. CASE x.failed = None
    <3>1. x.database \in G[i - 1]
      BY <2>3, <2>5 DEF Stage
    <3>2. IF Accepts(x.database, s[i]) THEN Effect(x.database, s[i]) \in G[i] ELSE s[i] \in R
      BY <2>1, <2>3, <3>1
    <3>3. CASE Accepts(x.database, s[i])
      <4>1. y.failed = None /\ y.database = Effect(x.database, s[i])
        BY <2>1, <2>2, <2>5, <3>3, ExecuteFacts
      <4> QED
        BY <1>2, <2>1, <2>2, <3>2, <3>3, <4>1 DEF Stage
    <3>4. CASE ~Accepts(x.database, s[i])
      <4>1. y.failed = s[i]
        BY <2>1, <2>2, <2>5, <3>4, ExecuteFacts
      <4> QED
        BY <1>2, <2>1, <2>2, <2>3, <3>2, <3>4, <4>1 DEF Stage
    <3> QED
      BY <3>3, <3>4
  <2> QED
    BY <2>4, <2>5
<1>5. \A i \in 1 .. Len(s) : \A x \in Runs : x \in Reached[i - 1] => Execute(x, s[i]) \in Reached[i]
  BY <1>1, <1>4
<1>6. RunEach(r, s) \in Runs /\ RunEach(r, s) \in Reached[n]
  BY <1>1, <1>3, <1>5, Reach
<1> QED
  BY <1>1, <1>2, <1>6

(* The same where nothing changes from statement to statement.             *)
LEMMA Steady ==
  ASSUME NEW r \in Runs, NEW s \in Seq(Statement), NEW G, NEW R, Stage(r, G, R),
         \A i \in 1 .. Len(s) : \A d \in G :
           WellFormed(d) => IF Accepts(d, s[i]) THEN Effect(d, s[i]) \in G ELSE s[i] \in R
  PROVE  RunEach(r, s) \in Runs /\ Stage(RunEach(r, s), G, R)
<1> DEFINE H == [i \in 0 .. Len(s) |-> G]
<1>1. Len(s) \in Nat
  OBVIOUS
<1>2. H[0] = G /\ H[Len(s)] = G /\ \A i \in 1 .. Len(s) : H[i] = G /\ H[i - 1] = G
  BY <1>1
<1> HIDE DEF H
<1>3. \A i \in 1 .. Len(s) : \A d \in H[i - 1] :
        WellFormed(d) => IF Accepts(d, s[i]) THEN Effect(d, s[i]) \in H[i] ELSE s[i] \in R
  BY <1>2
<1>4. Stage(r, H[0], R)
  BY <1>2
<1>5. RunEach(r, s) \in Runs /\ Stage(RunEach(r, s), H[Len(s)], R)
  BY <1>3, <1>4, Phase
<1> QED
  BY <1>2, <1>5

(* After a failure nothing runs.                                           *)
LEMMA Stuck ==
  ASSUME NEW r \in Runs, NEW s \in Seq(Statement), r.failed # None
  PROVE  RunEach(r, s) = r
<1>1. PICK n \in Nat : n = Len(s) /\ \A i \in 1 .. n : s[i] \in Statement
  OBVIOUS
<1> DEFINE Reached == [i \in 0 .. n |-> {r}]
<1>2. \A i \in 0 .. n : Reached[i] = {r}
  OBVIOUS
<1>3. r \in Reached[0]
  BY <1>2
<1> HIDE DEF Reached
<1>4. \A i \in 1 .. Len(s) : \A x \in Runs : x \in Reached[i - 1] => Execute(x, s[i]) \in Reached[i]
  <2> SUFFICES ASSUME NEW i \in 1 .. n, NEW x \in Runs, x \in Reached[i - 1]
               PROVE  Execute(x, s[i]) \in Reached[i]
    BY <1>1
  <2>1. i \in 0 .. n /\ i - 1 \in 0 .. n /\ s[i] \in Statement
    BY <1>1
  <2>2. x = r
    BY <1>2, <2>1
  <2>3. Execute(r, s[i]) = r
    BY <2>1, ExecuteFacts
  <2> QED
    BY <1>2, <2>1, <2>2, <2>3
<1>5. RunEach(r, s) \in Reached[n]
  BY <1>1, <1>3, <1>4, Reach
<1> QED
  BY <1>2, <1>5

(* Sections decide how much is rolled back, not where a patch fails nor    *)
(* what it does when it succeeds.                                          *)
Whole(p, u) == (p.safe \o p.notx) \o Review(p, u)

LEMMA WholeRun ==
  ASSUME NEW d, WellFormed(d), NEW p \in PatchType, NEW u \in BOOLEAN
  PROVE  LET whole == RunEach(Run(d, None), Whole(p, u))
             run == RunPatch(d, p, u)
         IN  run.failed = whole.failed /\ (run.failed = None => run = whole)
<1>1. PICK start \in Runs : start = Run(d, None) /\ start.database = d
  BY RunPatchIs
<1>2. /\ p.safe \in Seq(Statement) /\ p.notx \in Seq(Statement) /\ Review(p, u) \in Seq(Statement)
      /\ RunPatch(d, p, u) =
           IF p.notx = <<>> THEN RunTransaction(start, p.safe \o Review(p, u))
           ELSE RunTransaction(RunEach(RunTransaction(start, p.safe), p.notx), Review(p, u))
  BY <1>1, RunPatchIs
<1>3. PICK s, t, v : s = p.safe /\ t = p.notx /\ v = Review(p, u)
  OBVIOUS
<1>4. s \in Seq(Statement) /\ t \in Seq(Statement) /\ v \in Seq(Statement)
  BY <1>2, <1>3
<1>5. PICK whole \in Runs : whole = RunEach(start, (s \o t) \o v)
  <2>1. (s \o t) \o v \in Seq(Statement)
    BY <1>4
  <2> QED
    BY <2>1, TransactionType
<1>6. PICK run : run = RunPatch(d, p, u)
  OBVIOUS
<1>7. CASE t = <<>>
  <2>1. s \o t = s /\ s \o v \in Seq(Statement)
    BY <1>4, <1>7
  <2>2. run = RunTransaction(start, s \o v) /\ whole = RunEach(start, s \o v)
    BY <1>2, <1>3, <1>5, <1>6, <1>7, <2>1
  <2>3. run.failed = whole.failed /\ (run.failed = None => run = whole)
    BY <2>1, <2>2, TransactionType
  <2> QED
    BY <1>1, <1>3, <1>5, <1>6, <2>3 DEF Whole
<1>8. CASE t # <<>>
  <2>1. PICK f \in Runs, first \in Runs : f = RunEach(start, s) /\ first = RunTransaction(start, s)
    BY <1>4, TransactionType
  <2>2. /\ first.failed = f.failed /\ (f.failed = None => first = f)
    BY <1>4, <2>1, TransactionType
  <2>3. PICK second \in Runs : second = RunEach(first, t)
    BY <1>4, TransactionType
  <2>4. run = RunTransaction(second, v)
    BY <1>2, <1>3, <1>6, <1>8, <2>1, <2>3
  <2>5. /\ run.failed = RunEach(second, v).failed
        /\ RunEach(second, v).failed = None => run = RunEach(second, v)
    BY <1>4, <2>4, TransactionType
  <2>6. whole = RunEach(RunEach(f, t), v)
    <3>1. RunEach(start, s \o t) = RunEach(f, t) /\ s \o t \in Seq(Statement)
      BY <1>4, <2>1, RunAppend
    <3>2. PICK st \in Seq(Statement) : st = s \o t
      BY <3>1
    <3>3. RunEach(start, st \o v) = RunEach(RunEach(start, st), v)
      BY <1>4, RunAppend
    <3> QED
      BY <1>5, <3>1, <3>2, <3>3
  <2>7. CASE f.failed = None
    <3>1. whole = RunEach(second, v)
      BY <2>2, <2>3, <2>6, <2>7
    <3> QED
      BY <1>1, <1>3, <1>5, <1>6, <2>5, <3>1 DEF Whole
  <2>8. CASE f.failed # None
    <3>1. RunEach(f, t) = f /\ RunEach(f, v) = f /\ whole = f
      BY <1>4, <2>6, <2>8, Stuck
    <3>2. second = first
      BY <1>4, <2>2, <2>3, <2>8, Stuck
    <3>3. RunEach(second, v) = second
      BY <1>4, <2>2, <2>8, <3>2, Stuck
    <3>4. run.failed = whole.failed /\ run.failed # None
      BY <2>2, <2>5, <2>8, <3>1, <3>2, <3>3
    <3> QED
      BY <1>1, <1>3, <1>5, <1>6, <3>4 DEF Whole
  <2> QED
    BY <2>7, <2>8
<1> QED
  BY <1>7, <1>8

(* What the rest of a patch needs: the columns of the entity are there or  *)
(* about to be renamed, and no foreign key that is to be added is there.   *)
Ready(e, diff, Q, x) ==
  /\ x.exists
  /\ \A n \in NamesOf(e) : n \in NamesOf(x.columns) \/ \E r \in Q : r.to = n
  /\ \A r \in Q : r.from \in NamesOf(x.columns) /\ r.to \notin NamesOf(x.columns)
  /\ \A f \in diff.newForeignKeys, g \in x.foreignKeys : g.name # f.name
ReadyTables(e, diff, Q) == {x \in Tables : Ready(e, diff, Q, x)}
Unreviewed(diff) == IF diff.review THEN {} ELSE diff.renames

LEMMA TablesAre ==
  ASSUME NEW x
  PROVE  x \in Tables <=> WellFormed(x)
BY DEF Tables, WellFormed

LEMMA OneStatement ==
  ASSUME NEW r \in Runs, NEW s \in Statement, r.failed = None, Accepts(r.database, s)
  PROVE  /\ RunEach(r, <<s>>) \in Runs /\ RunEach(r, <<s>>).failed = None
         /\ RunEach(r, <<s>>).database = Effect(r.database, s)
<1>1. <<s>> \in Seq(Statement) /\ Len(<<s>>) = 1 /\ <<s>>[1] = s
  OBVIOUS
<1>2. PICK a : Trace(a, r, <<s>>) /\ RunEach(r, <<s>>) = a[1]
  BY <1>1, TraceExists
<1>3. a[0] = r /\ a[1] = Execute(a[1 - 1], s)
  BY <1>1, <1>2 DEF Trace
<1>4. a[1] = Execute(r, s)
  BY <1>3
<1> QED
  BY <1>2, <1>4, ExecuteFacts

(* The safe section never fails.                                           *)
LEMMA SafeStage ==
  ASSUME NEW e \in Entities, NEW d, WellFormed(d), NEW over \in BOOLEAN
  PROVE  LET diff == Diff(e, d)
             run == RunEach(Run(d, None), Patch(e, diff, over).safe)
         IN  run \in Runs /\ Stage(run, ReadyTables(e, diff, Unreviewed(diff)), {})
<1> DEFINE diff == Diff(e, d)
           p == Patch(e, diff, over)
<1>1. PICK born, adds, types, nulls, redo, keys : Parts(e, diff, p, born, adds, types, nulls, redo, keys)
  BY PatchParts
<1>2. PICK start \in Runs : start = Run(d, None) /\ start.database = d /\ start.failed = None
  BY RunType
<1>3. /\ diff.newTable = ~d.exists /\ diff.review = (d.exists /\ UserReviewRequired(e, d))
      /\ diff.newColumns = (IF d.exists THEN EntityOnly(e, d) \ Renamed(e, d) ELSE {})
      /\ diff.renames = (IF d.exists THEN LikelyRenames(e, d) ELSE {})
      /\ diff.newForeignKeys = (IF d.exists
                                THEN {f \in EntityForeignKeys(e) : \A g \in d.foreignKeys : g.name # f.name}
                                ELSE {})
  BY DEF Diff
<1>4. diff.newColumns \in SUBSET NamesOf(e) /\ d.exists \in BOOLEAN
  BY DiffFacts DEF WellFormed
<1>5. /\ born \in Seq(Statement) /\ adds \in Seq(Statement)
      /\ Lists(born, {CreateIndex(x) : x \in EntityIndexes(e)})
      /\ Lists(adds, {AddColumn(c) : c \in Declared(e, diff.newColumns)})
      /\ p.safe = (IF diff.newTable THEN <<CreateTable(e)>> \o born ELSE <<>>) \o adds
  BY <1>1 DEF Parts
<1> HIDE DEF p, diff
<1> DEFINE Good == ReadyTables(e, diff, Unreviewed(diff))
           run == RunEach(start, p.safe)
<1>6. CASE ~d.exists
  <2> DEFINE T == {x \in Tables : x.exists /\ NamesOf(x.columns) = NamesOf(e)}
  <2>1. PICK first \in Runs : first = RunEach(start, <<CreateTable(e)>>)
                              /\ first.failed = None /\ first.database \in T
    <3>1. CreateTable(e) \in Statement /\ CreateTable(e).op = "createTable" /\ CreateTable(e).columns = e
      BY StatementTypes DEF CreateTable
    <3>2. Accepts(d, CreateTable(e)) /\ Effect(d, CreateTable(e)) = Created(e)
      BY <1>6, <3>1 DEF Accepts, Effect
    <3>3. Created(e) \in T
      BY CreatedFacts, TablesAre
    <3> HIDE DEF T
    <3> QED
      BY <1>2, <3>1, <3>2, <3>3, OneStatement
  <2>2. PICK second \in Runs : second = RunEach(first, born) /\ Stage(second, T, {})
    <3>1. ASSUME NEW i \in 1 .. Len(born), NEW x \in T, WellFormed(x)
          PROVE  Accepts(x, born[i]) /\ Effect(x, born[i]) \in T
      <4>1. PICK y \in EntityIndexes(e) : born[i] = CreateIndex(y)
        <5>1. born[i] \in {CreateIndex(z) : z \in EntityIndexes(e)}
          BY <1>5 DEF Lists
        <5> QED
          BY <5>1
      <4>2. born[i] \in Statement /\ born[i].op = "createIndex" /\ born[i].index = y
        BY <1>5, <4>1 DEF CreateIndex
      <4>3. y.on \in NamesOf(x.columns)
        BY DeclarationFacts
      <4>4. Accepts(x, born[i])
        BY <4>2, <4>3 DEF Accepts
      <4>5. /\ WellFormed(Effect(x, born[i])) /\ Effect(x, born[i]).exists = x.exists
            /\ Effect(x, born[i]).columns = x.columns
        BY <3>1, <4>2, <4>4, CreateIndexEffect
      <4> QED
        BY <4>4, <4>5, TablesAre
    <3>2. Stage(first, T, {})
      BY <2>1 DEF Stage
    <3> HIDE DEF T
    <3> QED
      BY <1>5, <3>1, <3>2, Steady
  <2>3. adds = <<>>
    <3>1. Declared(e, diff.newColumns) = {}
      BY <1>3, <1>4, <1>6, DeclaredFacts
    <3>2. {AddColumn(c) : c \in Declared(e, diff.newColumns)} = {}
      BY <3>1
    <3> QED
      BY <1>5, <3>2, ListsNothing
  <2>4. run = second
    <3>1. <<CreateTable(e)>> \in Seq(Statement)
      BY StatementTypes
    <3>2. PICK q \in Seq(Statement) : q = <<CreateTable(e)>> \o born
      <4>1. <<CreateTable(e)>> \o born \in Seq(Statement)
        BY <1>5, <3>1
      <4> QED
        BY <4>1
    <3>3. q \o <<>> = q
      OBVIOUS
    <3>4. p.safe = q
      BY <1>3, <1>5, <1>6, <2>3, <3>2, <3>3
    <3>5. RunEach(start, <<CreateTable(e)>> \o born) = RunEach(RunEach(start, <<CreateTable(e)>>), born)
      BY <1>5, <3>1, RunAppend
    <3> QED
      BY <2>1, <2>2, <3>2, <3>4, <3>5
  <2>5. \A x \in T : x \in Good
    BY <1>3, <1>6 DEF ReadyTables, Ready, Unreviewed
  <2> HIDE DEF T, Good
  <2>6. Stage(second, Good, {})
    BY <2>2, <2>5 DEF Stage
  <2> QED
    BY <1>2, <2>4, <2>6 DEF Good, p, diff
<1>7. CASE d.exists
  <2> DEFINE Adding(i, x) ==
               /\ x.exists /\ x.foreignKeys = d.foreignKeys
               /\ NamesOf(d.columns) \subseteq NamesOf(x.columns)
               /\ NamesOf(x.columns) \subseteq NamesOf(d.columns) \cup diff.newColumns
               /\ \A j \in 1 .. i : adds[j].column.name \in NamesOf(x.columns)
             G == [i \in 0 .. Len(adds) |-> {x \in Tables : Adding(i, x)}]
  <2>1. PICK n \in Nat : n = Len(adds)
    BY <1>5
  <2>2. \A i \in 0 .. n : G[i] = {x \in Tables : Adding(i, x)}
    BY <2>1
  <2>3. d \in G[0]
    BY <1>7, <2>2, TablesAre
  <2> HIDE DEF G
  <2>4. ASSUME NEW i \in 1 .. Len(adds), NEW x \in G[i - 1], WellFormed(x)
        PROVE  Accepts(x, adds[i]) /\ Effect(x, adds[i]) \in G[i]
    <3>1. i - 1 \in 0 .. n /\ i \in 0 .. n /\ i \in 1 .. n /\ \A j \in 1 .. i : j \in 1 .. i - 1 \/ j = i
      BY <2>1
    <3>2. Adding(i - 1, x)
      BY <2>2, <2>4, <3>1
    <3>3. PICK c \in Declared(e, diff.newColumns) : adds[i] = AddColumn(c)
      <4>1. adds[i] \in {AddColumn(c) : c \in Declared(e, diff.newColumns)}
        BY <1>5 DEF Lists
      <4> QED
        BY <4>1
    <3>4. /\ adds[i] \in Statement /\ adds[i].op = "addColumn" /\ adds[i].column = c
          /\ c.name \in diff.newColumns
      BY <1>4, <1>5, <3>3, DeclaredFacts DEF AddColumn
    <3>5. Accepts(x, adds[i])
      BY <3>2, <3>4 DEF Accepts
    <3>6. PICK y : y = Effect(x, adds[i])
      OBVIOUS
    <3>7. /\ WellFormed(y) /\ y.exists /\ y.foreignKeys = x.foreignKeys
          /\ NamesOf(y.columns) = NamesOf(x.columns) \cup {c.name}
      <4>1. LET u == Effect(x, adds[i])
            IN  /\ WellFormed(u) /\ u.exists /\ u.foreignKeys = x.foreignKeys
                /\ NamesOf(u.columns) = NamesOf(x.columns) \cup {adds[i].column.name}
        BY <2>4, <3>4, <3>5, AddColumnEffect
      <4> QED
        BY <3>4, <3>6, <4>1
    <3>8. Adding(i, y)
      BY <3>1, <3>2, <3>4, <3>7
    <3> QED
      BY <2>2, <3>1, <3>5, <3>6, <3>7, <3>8, TablesAre
  <2>5. Stage(start, G[0], {})
    BY <1>2, <2>3 DEF Stage
  <2>6. RunEach(start, adds) \in Runs /\ Stage(RunEach(start, adds), G[Len(adds)], {})
    BY <1>5, <2>4, <2>5, Phase
  <2>7. p.safe = adds
    <3>1. <<>> \o adds = adds
      BY <1>5
    <3> QED
      BY <1>3, <1>5, <1>7, <3>1
  <2>8. ASSUME NEW x \in G[Len(adds)] PROVE x \in Good
    <3>1. x \in Tables /\ Adding(n, x)
      BY <2>1, <2>2
    <3>2. diff.newColumns \subseteq NamesOf(x.columns)
      <4> SUFFICES ASSUME NEW m \in diff.newColumns PROVE m \in NamesOf(x.columns)
        OBVIOUS
      <4>1. PICK k \in DOMAIN e : e[k].name = m
        BY <1>4 DEF NamesOf
      <4>2. e[k] \in Declared(e, diff.newColumns)
        BY <1>4, <4>1, DeclaredFacts
      <4>3. PICK j \in 1 .. n : adds[j] = AddColumn(e[k])
        BY <1>5, <2>1, <4>2 DEF Lists
      <4>4. adds[j].column = e[k]
        BY <4>3 DEF AddColumn
      <4> QED
        BY <3>1, <4>1, <4>4
    <3>3. ASSUME NEW m \in NamesOf(e)
          PROVE  m \in NamesOf(x.columns) \/ \E r \in Unreviewed(diff) : r.to = m
      <4>1. CASE m \in NamesOf(d.columns) \/ m \in diff.newColumns
        BY <3>1, <3>2, <4>1
      <4>2. CASE m \notin NamesOf(d.columns) /\ m \notin diff.newColumns
        <5>1. m \in Renamed(e, d)
          BY <1>3, <1>7, <4>2 DEF EntityOnly
        <5>2. ~UserReviewRequired(e, d) /\ \E r \in LikelyRenames(e, d) : r.to = m
          BY <5>1 DEF Renamed
        <5> QED
          BY <1>3, <1>7, <5>2 DEF Unreviewed
      <4> QED
        BY <4>1, <4>2
    <3>4. ASSUME NEW r \in Unreviewed(diff)
          PROVE  r.from \in NamesOf(x.columns) /\ r.to \notin NamesOf(x.columns)
      <4>1. ~UserReviewRequired(e, d) /\ r \in LikelyRenames(e, d)
        BY <1>3, <1>7 DEF Unreviewed
      <4>2. r.to \in EntityOnly(e, d) /\ r.from \in DatabaseOnly(e, d)
        BY <4>1, LikelyFacts, CandidateFacts
      <4>3. r.to \in Renamed(e, d)
        BY <4>1 DEF Renamed
      <4> QED
        BY <1>3, <1>7, <3>1, <4>2, <4>3 DEF EntityOnly, DatabaseOnly
    <3>5. \A f \in diff.newForeignKeys, g \in x.foreignKeys : g.name # f.name
      BY <1>3, <1>7, <3>1
    <3> QED
      BY <3>1, <3>3, <3>4, <3>5 DEF ReadyTables, Ready
  <2> HIDE DEF Good
  <2>9. Stage(run, Good, {}) /\ run \in Runs
    BY <2>6, <2>7, <2>8 DEF Stage
  <2> QED
    BY <1>2, <2>9 DEF Good, p, diff
<1> QED
  BY <1>4, <1>6, <1>7

LEMMA ListsMember ==
  ASSUME NEW s, NEW S, Lists(s, S), NEW i \in 1 .. Len(s)
  PROVE  s[i] \in S
BY DEF Lists

(* The statements a fresh patch may fail at.                               *)
Renames(p) == {p.renames[i] : i \in DOMAIN p.renames}
Reason(p, s) ==
  \/ s.op = "createIndex" /\ \E r \in Renames(p) : r.to = s.index.on
  \/ s \in Renames(p) /\ p.commented
  \/ s.op = "alterType"
Reasons(p) == {s \in Statement : Reason(p, s)}

LEMMA RenamesAre ==
  ASSUME NEW e, NEW diff, NEW p, NEW born, NEW adds, NEW types, NEW nulls, NEW redo, NEW keys,
         Parts(e, diff, p, born, adds, types, nulls, redo, keys)
  PROVE  Renames(p) = {RenameColumn(r) : r \in diff.renames}
<1>1. Lists(p.renames, {RenameColumn(r) : r \in diff.renames})
  BY DEF Parts
<1>2. DOMAIN p.renames = 1 .. Len(p.renames)
  BY <1>1, ListsType
<1> QED
  BY <1>1, <1>2 DEF Lists, Renames

(* An index fails only on a column that is to be renamed.                  *)
LEMMA IndexStage ==
  ASSUME NEW e \in Entities, NEW d, WellFormed(d), NEW over \in BOOLEAN, NEW r \in Runs,
         Stage(r, ReadyTables(e, Diff(e, d), Unreviewed(Diff(e, d))), Reasons(Patch(e, Diff(e, d), over)))
  PROVE  LET diff == Diff(e, d)
             p == Patch(e, diff, over)
             run == RunEach(r, p.notx)
         IN  run \in Runs /\ Stage(run, ReadyTables(e, diff, Unreviewed(diff)), Reasons(p))
<1> DEFINE diff == Diff(e, d)
           p == Patch(e, diff, over)
           Q == Unreviewed(diff)
           Good == ReadyTables(e, diff, Q)
           Bad == Reasons(p)
<1>1. PICK born, adds, types, nulls, redo, keys : Parts(e, diff, p, born, adds, types, nulls, redo, keys)
  BY PatchParts
<1>2. p \in PatchType /\ diff.newIndexes \in SUBSET EntityIndexes(e)
  BY PatchParts, DiffFacts
<1>3. Stage(r, Good, Bad)
  OBVIOUS
<1> HIDE DEF diff, p
<1>4. Lists(p.notx, {CreateIndex(x) : x \in diff.newIndexes}) /\ p.notx \in Seq(Statement)
  BY <1>1, <1>2 DEF Parts, PatchType
<1>5. Renames(p) = {RenameColumn(q) : q \in diff.renames}
  BY <1>1, RenamesAre
<1> HIDE DEF Bad, Good, Q
<1>6. ASSUME NEW i \in 1 .. Len(p.notx), NEW x \in Good, WellFormed(x)
      PROVE  IF Accepts(x, p.notx[i]) THEN Effect(x, p.notx[i]) \in Good ELSE p.notx[i] \in Bad
  <2>1. PICK y \in diff.newIndexes : p.notx[i] = CreateIndex(y)
    <3>1. p.notx[i] \in {CreateIndex(z) : z \in diff.newIndexes}
      BY <1>4, ListsMember
    <3> QED
      BY <3>1
  <2>2. /\ p.notx[i] \in Statement /\ p.notx[i].op = "createIndex" /\ p.notx[i].index = y
        /\ y.on \in NamesOf(e)
    BY <1>2, <1>4, <2>1, DeclarationFacts DEF CreateIndex
  <2>3. Ready(e, diff, Q, x)
    BY DEF Good, ReadyTables
  <2>4. CASE Accepts(x, p.notx[i])
    <3>1. LET u == Effect(x, p.notx[i])
          IN  /\ WellFormed(u) /\ u.exists = x.exists /\ u.columns = x.columns
              /\ u.foreignKeys = x.foreignKeys
      BY <1>6, <2>2, <2>4, CreateIndexEffect
    <3>2. PICK u : u = Effect(x, p.notx[i]) /\ WellFormed(u) /\ u.exists = x.exists
                   /\ u.columns = x.columns /\ u.foreignKeys = x.foreignKeys
      BY <3>1
    <3>3. Ready(e, diff, Q, u) /\ u \in Tables
      BY <2>3, <3>2, TablesAre DEF Ready
    <3> QED
      BY <2>4, <3>2, <3>3 DEF Good, ReadyTables
  <2>5. CASE ~Accepts(x, p.notx[i])
    <3>1. y.on \notin NamesOf(x.columns)
      BY <2>2, <2>5 DEF Accepts
    <3>2. PICK q \in Q : q.to = y.on
      BY <2>2, <2>3, <3>1 DEF Ready
    <3>3. RenameColumn(q) \in Renames(p) /\ RenameColumn(q).to = y.on
      BY <1>5, <3>2 DEF Unreviewed, Q, RenameColumn
    <3> QED
      BY <2>2, <2>5, <3>3 DEF Bad, Reasons, Reason
  <2> QED
    BY <2>4, <2>5
<1>7. RunEach(r, p.notx) \in Runs /\ Stage(RunEach(r, p.notx), Good, Bad)
  BY <1>3, <1>4, <1>6, Steady
<1> QED
  BY <1>7 DEF Good, Bad, Q, p, diff

(* Renames fail only if the reviewer uncommented them.                     *)
LEMMA RenameStage ==
  ASSUME NEW e \in Entities, NEW d, WellFormed(d), NEW over \in BOOLEAN, NEW r \in Runs,
         Stage(r, ReadyTables(e, Diff(e, d), Unreviewed(Diff(e, d))), Reasons(Patch(e, Diff(e, d), over)))
  PROVE  LET diff == Diff(e, d)
             p == Patch(e, diff, over)
             run == RunEach(r, p.renames)
         IN  run \in Runs /\ Stage(run, ReadyTables(e, diff, {}), Reasons(p))
<1> DEFINE diff == Diff(e, d)
           p == Patch(e, diff, over)
           Bad == Reasons(p)
           Pending(i) == {q \in Unreviewed(diff) :
                            \E j \in 1 .. Len(p.renames) : j > i /\ p.renames[j] = RenameColumn(q)}
           G == [i \in 0 .. Len(p.renames) |-> ReadyTables(e, diff, Pending(i))]
<1>1. PICK born, adds, types, nulls, redo, keys : Parts(e, diff, p, born, adds, types, nulls, redo, keys)
  BY PatchParts
<1>2. p \in PatchType /\ diff.renames \in SUBSET LikelyRenames(e, d) /\ p.commented = diff.review
  BY PatchParts, DiffFacts
<1>3. Stage(r, ReadyTables(e, diff, Unreviewed(diff)), Bad)
  OBVIOUS
<1> HIDE DEF diff, p
<1>4. /\ Lists(p.renames, {RenameColumn(q) : q \in diff.renames}) /\ p.renames \in Seq(Statement)
      /\ Once(p.renames)
  BY <1>1, <1>2 DEF Parts, PatchType
<1>5. Renames(p) = {RenameColumn(q) : q \in diff.renames}
  BY <1>1, RenamesAre
<1>6. PICK n \in Nat : n = Len(p.renames)
  BY <1>4
<1>7. \A i \in 0 .. n : G[i] = ReadyTables(e, diff, Pending(i))
  BY <1>6
<1>8. Pending(0) = Unreviewed(diff) /\ Pending(n) = {}
  <2>1. ASSUME NEW q \in Unreviewed(diff) PROVE q \in Pending(0)
    <3>1. q \in diff.renames
      BY DEF Unreviewed
    <3>2. PICK j \in 1 .. n : p.renames[j] = RenameColumn(q)
      BY <1>4, <1>6, <3>1 DEF Lists
    <3>3. j > 0 /\ j \in 1 .. Len(p.renames)
      BY <1>6
    <3> QED
      BY <3>2, <3>3
  <2>2. \A j \in 1 .. Len(p.renames) : ~(j > n)
    BY <1>6
  <2> QED
    BY <2>1, <2>2
<1> HIDE DEF G, Bad
<1>9. ASSUME NEW i \in 1 .. Len(p.renames), NEW x \in G[i - 1], WellFormed(x)
      PROVE  IF Accepts(x, p.renames[i]) THEN Effect(x, p.renames[i]) \in G[i] ELSE p.renames[i] \in Bad
  <2>1. i - 1 \in 0 .. n /\ i \in 0 .. n /\ i \in 1 .. n
    BY <1>6
  <2>2. x \in Tables /\ Ready(e, diff, Pending(i - 1), x)
    BY <1>7, <2>1 DEF ReadyTables
  <2>3. PICK q \in diff.renames : p.renames[i] = RenameColumn(q)
    <3>1. p.renames[i] \in {RenameColumn(q) : q \in diff.renames}
      BY <1>4, ListsMember
    <3> QED
      BY <3>1
  <2>4. /\ p.renames[i] \in Statement /\ p.renames[i].op = "rename"
        /\ p.renames[i].from = q.from /\ p.renames[i].to = q.to
    BY <1>4, <2>3 DEF RenameColumn
  <2>5. q \in LikelyRenames(e, d) /\ q.to \in EntityOnly(e, d) /\ q.from \in DatabaseOnly(e, d)
    BY <1>2, LikelyFacts, CandidateFacts
  <2>6. q.to \in NamesOf(e) /\ q.from \notin NamesOf(e)
    BY <2>5 DEF EntityOnly, DatabaseOnly
  <2>7. CASE diff.review
    <3>1. Pending(i - 1) = {}
      BY <2>7 DEF Unreviewed
    <3>2. q.to \in NamesOf(x.columns)
      BY <2>2, <2>6, <3>1 DEF Ready
    <3>3. ~Accepts(x, p.renames[i])
      BY <2>4, <3>2 DEF Accepts
    <3>4. p.renames[i] \in Renames(p) /\ p.commented
      BY <1>2, <1>5, <2>3, <2>7
    <3> QED
      BY <2>4, <3>3, <3>4 DEF Bad, Reasons, Reason
  <2>8. CASE ~diff.review
    <3>1. q \in Unreviewed(diff)
      BY <2>8 DEF Unreviewed
    <3>2. q \in Pending(i - 1)
      <4>1. i > i - 1 /\ i \in 1 .. Len(p.renames)
        BY <1>6
      <4> QED
        BY <2>3, <3>1, <4>1
    <3>3. q.from \in NamesOf(x.columns) /\ q.to \notin NamesOf(x.columns)
      BY <2>2, <3>2 DEF Ready
    <3>4. Accepts(x, p.renames[i])
      BY <2>4, <3>3 DEF Accepts
    <3>5. LET u == Effect(x, p.renames[i])
          IN  /\ WellFormed(u) /\ u.exists /\ u.foreignKeys = x.foreignKeys
              /\ NamesOf(u.columns) = (NamesOf(x.columns) \ {q.from}) \cup {q.to}
      <4>1. PICK t \in Statement : t = p.renames[i]
        BY <2>4
      <4>2. t.op = "rename" /\ t.from = q.from /\ t.to = q.to /\ Accepts(x, t)
        BY <2>4, <3>4, <4>1
      <4>3. LET u == Effect(x, t)
            IN  /\ WellFormed(u) /\ u.exists /\ u.foreignKeys = x.foreignKeys
                /\ NamesOf(u.columns) = (NamesOf(x.columns) \ {t.from}) \cup {t.to}
        BY <1>9, <4>2, RenameNames
      <4> QED
        BY <4>1, <4>2, <4>3
    <3>6. PICK u : u = Effect(x, p.renames[i]) /\ WellFormed(u) /\ u.exists
                   /\ u.foreignKeys = x.foreignKeys
                   /\ NamesOf(u.columns) = (NamesOf(x.columns) \ {q.from}) \cup {q.to}
      BY <2>4, <3>5
    <3>7. ASSUME NEW o \in Pending(i)
          PROVE  o \in Pending(i - 1) /\ o # q /\ o.from # q.from /\ o.to # q.to
      <4>1. PICK j \in 1 .. Len(p.renames) : j > i /\ p.renames[j] = RenameColumn(o)
        OBVIOUS
      <4>2. o \in Unreviewed(diff) /\ o \in diff.renames
        BY DEF Unreviewed
      <4>3. j > i - 1
        BY <1>6, <4>1
      <4>4. j # i
        BY <1>6, <4>1
      <4>5. o # q
        BY <1>4, <2>3, <4>1, <4>4 DEF Once
      <4>6. o \in LikelyRenames(e, d)
        BY <1>2, <4>2
      <4> QED
        BY <2>5, <4>1, <4>2, <4>3, <4>5, <4>6, LikelyFacts
    <3>8. ASSUME NEW o \in Pending(i - 1), o # q PROVE o \in Pending(i)
      <4>1. PICK j \in 1 .. Len(p.renames) : j > i - 1 /\ p.renames[j] = RenameColumn(o)
        OBVIOUS
      <4>2. j # i
        <5>1. o \in diff.renames /\ o \in LikelyRenames(e, d)
          BY <1>2 DEF Unreviewed
        <5>2. o.to # q.to
          BY <2>5, <3>8, <5>1, LikelyFacts
        <5> QED
          BY <2>3, <4>1, <5>2 DEF RenameColumn
      <4>3. j > i
        BY <1>6, <4>1, <4>2
      <4> QED
        BY <4>1, <4>3
    <3> HIDE DEF Pending
    <3>9. Ready(e, diff, Pending(i), u)
      <4>1. ASSUME NEW m \in NamesOf(e)
            PROVE  m \in NamesOf(u.columns) \/ \E o \in Pending(i) : o.to = m
        <5>1. m # q.from
          BY <2>6
        <5>2. CASE m \in NamesOf(x.columns)
          BY <3>6, <5>1, <5>2
        <5>3. CASE m \notin NamesOf(x.columns)
          <6>1. PICK o \in Pending(i - 1) : o.to = m
            BY <2>2, <5>3 DEF Ready
          <6> QED
            BY <3>6, <3>8, <6>1
        <5> QED
          BY <5>2, <5>3
      <4>2. ASSUME NEW o \in Pending(i)
            PROVE  o.from \in NamesOf(u.columns) /\ o.to \notin NamesOf(u.columns)
        <5>1. o \in Pending(i - 1) /\ o.from # q.from /\ o.to # q.to
          BY <3>7
        <5>2. o.from \in NamesOf(x.columns) /\ o.to \notin NamesOf(x.columns)
          BY <2>2, <5>1 DEF Ready
        <5> QED
          BY <3>6, <5>1, <5>2
      <4> QED
        BY <2>2, <3>6, <4>1, <4>2 DEF Ready
    <3> QED
      BY <1>7, <2>1, <3>4, <3>6, <3>9, TablesAre DEF ReadyTables
  <2> QED
    BY <2>7, <2>8
<1> HIDE DEF Pending
<1>10. Stage(r, G[0], Bad)
  BY <1>3, <1>7, <1>8
<1>11. RunEach(r, p.renames) \in Runs /\ Stage(RunEach(r, p.renames), G[Len(p.renames)], Bad)
  BY <1>4, <1>9, <1>10, Phase
<1>12. G[Len(p.renames)] = ReadyTables(e, diff, {})
  <2>1. n \in 0 .. n
    OBVIOUS
  <2> QED
    BY <1>6, <1>7, <1>8, <2>1
<1> QED
  BY <1>11, <1>12 DEF Bad, p, diff

Arrived(e) == {x \in Tables : x.exists /\ NamesOf(e) \subseteq NamesOf(x.columns)}

(* Nullability, redefinitions and foreign keys never fail.                 *)
LEMMA ReviewStage ==
  ASSUME NEW e \in Entities, NEW d, WellFormed(d), NEW over \in BOOLEAN, NEW r \in Runs,
         Stage(r, ReadyTables(e, Diff(e, d), {}), Reasons(Patch(e, Diff(e, d), over)))
  PROVE  LET p == Patch(e, Diff(e, d), over)
             run == RunEach(r, p.review)
         IN  run \in Runs /\ Stage(run, Arrived(e), Reasons(p))
<1> DEFINE diff == Diff(e, d)
           p == Patch(e, diff, over)
           Bad == Reasons(p)
           Good == ReadyTables(e, diff, {})
<1>1. PICK born, adds, types, nulls, redo, keys : Parts(e, diff, p, born, adds, types, nulls, redo, keys)
  BY PatchParts
<1>2. /\ diff.retyped \in SUBSET NamesOf(e) /\ diff.nullability \in SUBSET NamesOf(e)
      /\ diff.indexMismatches \in SUBSET EntityIndexes(e)
      /\ diff.newForeignKeys \in SUBSET EntityForeignKeys(e)
  BY DiffFacts
<1>3. Stage(r, Good, Bad)
  OBVIOUS
<1> HIDE DEF diff, p
<1>4. /\ types \in Seq(Statement) /\ nulls \in Seq(Statement) /\ redo \in Seq(Statement)
      /\ keys \in Seq(Statement) /\ Once(keys)
      /\ Lists(types, {AlterType(c) : c \in Declared(e, diff.retyped)})
      /\ Lists(nulls, {AlterNullability(c) : c \in Declared(e, diff.nullability)})
      /\ Lists(redo, {DropIndex(x) : x \in diff.indexMismatches}
                       \cup {CreateIndex(x) : x \in diff.indexMismatches})
      /\ Lists(keys, {AddForeignKey(f) : f \in diff.newForeignKeys})
      /\ p.review = ((types \o nulls) \o redo) \o keys
  BY <1>1 DEF Parts
<1> HIDE DEF Bad, Good
<1>5. ASSUME NEW x \in Good, NEW s \in Statement,
             \/ s.op \in {"alterType", "alterNullability"} /\ s.name \in NamesOf(e)
             \/ s.op = "dropIndex"
             \/ s.op = "createIndex" /\ s.index.on \in NamesOf(e)
      PROVE  IF Accepts(x, s) THEN Effect(x, s) \in Good ELSE s \in Bad
  <2>1. WellFormed(x) /\ Ready(e, diff, {}, x)
    BY TablesAre DEF Good, ReadyTables
  <2>2. NamesOf(e) \subseteq NamesOf(x.columns)
    BY <2>1 DEF Ready
  <2>0. s.op # "alterType" => Accepts(x, s)
    BY <1>5, <2>2 DEF Accepts
  <2>7. ~Accepts(x, s) => s \in Bad
    BY <2>0 DEF Bad, Reasons, Reason
  <2> SUFFICES ASSUME Accepts(x, s) PROVE Effect(x, s) \in Good
    BY <2>7
  <2>3. Accepts(x, s)
    OBVIOUS
  <2>4. LET u == Effect(x, s)
        IN  /\ WellFormed(u) /\ u.exists = x.exists /\ u.foreignKeys = x.foreignKeys
            /\ NamesOf(u.columns) = NamesOf(x.columns)
    <3>1. CASE s.op \in {"alterType", "alterNullability"}
      <4>1. LET u == Effect(x, s)
            IN  /\ WellFormed(u) /\ u.exists /\ u.foreignKeys = x.foreignKeys
                /\ NamesOf(u.columns) = NamesOf(x.columns)
        BY <2>1, <2>3, <3>1, AlterEffect
      <4> QED
        BY <2>1, <4>1 DEF Ready
    <3>2. CASE s.op = "dropIndex"
      BY <2>1, <3>2, DropIndexEffect
    <3>3. CASE s.op = "createIndex"
      BY <2>1, <2>3, <3>3, CreateIndexEffect
    <3> QED
      BY <1>5, <3>1, <3>2, <3>3
  <2>5. PICK u : /\ u = Effect(x, s) /\ WellFormed(u) /\ u.exists = x.exists
                 /\ u.foreignKeys = x.foreignKeys /\ NamesOf(u.columns) = NamesOf(x.columns)
    BY <2>4
  <2>6. Ready(e, diff, {}, u)
    BY <2>1, <2>5 DEF Ready
  <2> QED
    BY <2>5, <2>6, TablesAre DEF Good, ReadyTables
<1>6. ASSUME NEW i \in 1 .. Len(types), NEW x \in Good
      PROVE  IF Accepts(x, types[i]) THEN Effect(x, types[i]) \in Good ELSE types[i] \in Bad
  <2>1. types[i] \in {AlterType(c) : c \in Declared(e, diff.retyped)}
    BY <1>4, ListsMember
  <2>2. PICK c \in Declared(e, diff.retyped) : types[i] = AlterType(c)
    BY <2>1
  <2>3. types[i] \in Statement /\ types[i].op = "alterType" /\ types[i].name \in NamesOf(e)
    BY <1>2, <1>4, <2>2, DeclaredFacts DEF AlterType
  <2> QED
    BY <1>5, <2>3
<1>7. ASSUME NEW i \in 1 .. Len(nulls), NEW x \in Good
      PROVE  IF Accepts(x, nulls[i]) THEN Effect(x, nulls[i]) \in Good ELSE nulls[i] \in Bad
  <2>1. nulls[i] \in {AlterNullability(c) : c \in Declared(e, diff.nullability)}
    BY <1>4, ListsMember
  <2>2. PICK c \in Declared(e, diff.nullability) : nulls[i] = AlterNullability(c)
    BY <2>1
  <2>3. nulls[i] \in Statement /\ nulls[i].op = "alterNullability" /\ nulls[i].name \in NamesOf(e)
    BY <1>2, <1>4, <2>2, DeclaredFacts DEF AlterNullability
  <2> QED
    BY <1>5, <2>3
<1>8. ASSUME NEW i \in 1 .. Len(redo), NEW x \in Good
      PROVE  IF Accepts(x, redo[i]) THEN Effect(x, redo[i]) \in Good ELSE redo[i] \in Bad
  <2>1. PICK y \in diff.indexMismatches : redo[i] = DropIndex(y) \/ redo[i] = CreateIndex(y)
    <3>1. redo[i] \in {DropIndex(y) : y \in diff.indexMismatches}
                       \cup {CreateIndex(y) : y \in diff.indexMismatches}
      BY <1>4, ListsMember
    <3> QED
      BY <3>1
  <2>2. /\ DropIndex(y).op = "dropIndex" /\ CreateIndex(y).op = "createIndex"
        /\ CreateIndex(y).index.on \in NamesOf(e)
    BY <1>2, DeclarationFacts DEF DropIndex, CreateIndex
  <2>3. redo[i] \in Statement
    BY <1>4
  <2> QED
    BY <1>5, <2>1, <2>2, <2>3
<1>9. PICK first \in Runs : first = RunEach(r, types) /\ Stage(first, Good, Bad)
  BY <1>3, <1>4, <1>6, Steady
<1>10. PICK second \in Runs : second = RunEach(first, nulls) /\ Stage(second, Good, Bad)
  BY <1>4, <1>7, <1>9, Steady
<1>11. PICK third \in Runs : third = RunEach(second, redo) /\ Stage(third, Good, Bad)
  BY <1>4, <1>8, <1>10, Steady
<1> DEFINE Adding(i, x) ==
             /\ x.exists /\ NamesOf(e) \subseteq NamesOf(x.columns)
             /\ \A j \in 1 .. Len(keys), g \in x.foreignKeys : j > i => g.name # keys[j].foreignKey.name
           G == [i \in 0 .. Len(keys) |-> {x \in Tables : Adding(i, x)}]
<1>12. PICK n \in Nat : n = Len(keys)
  BY <1>4
<1>13. \A i \in 0 .. n : G[i] = {x \in Tables : Adding(i, x)}
  BY <1>12
<1> HIDE DEF G
<1>14. ASSUME NEW i \in 1 .. n
       PROVE  \E f \in diff.newForeignKeys :
                /\ keys[i] = AddForeignKey(f) /\ keys[i] \in Statement /\ keys[i].op = "addForeignKey"
                /\ keys[i].foreignKey = f /\ f.on \in NamesOf(e) /\ f \in EntityForeignKeys(e)
  <2>1. keys[i] \in {AddForeignKey(f) : f \in diff.newForeignKeys} /\ keys[i] \in Statement
    BY <1>4, <1>12, ListsMember
  <2>2. PICK f \in diff.newForeignKeys : keys[i] = AddForeignKey(f)
    BY <2>1
  <2> QED
    BY <1>2, <2>1, <2>2, DeclarationFacts DEF AddForeignKey
<1>15. ASSUME NEW i \in 1 .. Len(keys), NEW x \in G[i - 1], WellFormed(x)
       PROVE  Accepts(x, keys[i]) /\ Effect(x, keys[i]) \in G[i]
  <2>1. i - 1 \in 0 .. n /\ i \in 0 .. n /\ i \in 1 .. n
    BY <1>12
  <2>2. Adding(i - 1, x)
    BY <1>13, <1>15, <2>1
  <2>3. PICK f \in diff.newForeignKeys :
          /\ keys[i] = AddForeignKey(f) /\ keys[i] \in Statement /\ keys[i].op = "addForeignKey"
          /\ keys[i].foreignKey = f /\ f.on \in NamesOf(e) /\ f \in EntityForeignKeys(e)
    BY <1>14, <2>1
  <2>4. i > i - 1
    BY <2>1
  <2>5. Accepts(x, keys[i])
    <3>1. f.on \in NamesOf(x.columns) /\ \A g \in x.foreignKeys : g.name # f.name
      BY <2>2, <2>3, <2>4
    <3> QED
      BY <2>3, <3>1 DEF Accepts
  <2>6. LET u == Effect(x, keys[i])
        IN  /\ WellFormed(u) /\ u.exists /\ u.columns = x.columns
            /\ \A g \in u.foreignKeys : g \in x.foreignKeys \/ g.name = keys[i].foreignKey.name
    <3>1. LET u == Effect(x, keys[i])
          IN  /\ WellFormed(u) /\ u.exists /\ u.columns = x.columns
              /\ u.foreignKeys = x.foreignKeys \cup {PlaceForeignKey(x.columns, keys[i].foreignKey)}
      BY <1>15, <2>3, <2>5, ForeignKeyEffect
    <3>2. PlaceForeignKey(x.columns, keys[i].foreignKey).name = keys[i].foreignKey.name
      BY DEF PlaceForeignKey
    <3> QED
      BY <3>1, <3>2
  <2>7. PICK u : /\ u = Effect(x, keys[i]) /\ WellFormed(u) /\ u.exists /\ u.columns = x.columns
                 /\ \A g \in u.foreignKeys : g \in x.foreignKeys \/ g.name = f.name
    BY <2>3, <2>6
  <2>8. ASSUME NEW j \in 1 .. Len(keys), NEW g \in u.foreignKeys, j > i
        PROVE  g.name # keys[j].foreignKey.name
    <3>1. j > i - 1 /\ j # i /\ j \in 1 .. n
      BY <1>12, <2>8
    <3>2. CASE g \in x.foreignKeys
      BY <2>2, <3>1, <3>2
    <3>3. CASE g.name = f.name
      <4>1. PICK h \in diff.newForeignKeys :
              keys[j] = AddForeignKey(h) /\ keys[j].foreignKey = h /\ h \in EntityForeignKeys(e)
        BY <1>14, <3>1
      <4>2. h # f
        BY <1>4, <1>12, <2>1, <2>3, <3>1, <4>1 DEF Once
      <4>3. h.name # f.name
        BY <2>3, <4>1, <4>2, DeclarationFacts
      <4> QED
        BY <3>3, <4>1, <4>3
    <3> QED
      BY <2>7, <3>2, <3>3
  <2>9. Adding(i, u)
    BY <2>2, <2>7, <2>8
  <2> QED
    BY <1>13, <2>1, <2>5, <2>7, <2>9, TablesAre
<1>16. ASSUME NEW x \in Good PROVE x \in G[0]
  <2>1. x \in Tables /\ Ready(e, diff, {}, x)
    BY DEF Good, ReadyTables
  <2>2. ASSUME NEW j \in 1 .. Len(keys), NEW g \in x.foreignKeys PROVE g.name # keys[j].foreignKey.name
    BY <1>12, <1>14, <2>1, <2>2 DEF Ready
  <2>3. Adding(0, x)
    BY <2>1, <2>2 DEF Ready
  <2> QED
    BY <1>13, <2>1, <2>3
<1>17. Stage(third, G[0], Bad)
  BY <1>11, <1>16 DEF Stage
<1>18. PICK last \in Runs : last = RunEach(third, keys) /\ Stage(last, G[Len(keys)], Bad)
  BY <1>4, <1>15, <1>17, Phase
<1>19. Stage(last, Arrived(e), Bad)
  <2>1. n \in 0 .. n
    OBVIOUS
  <2>2. \A x \in G[n] : x \in Arrived(e)
    BY <1>13, <2>1 DEF Arrived
  <2> QED
    BY <1>12, <1>18, <2>2 DEF Stage
<1>20. RunEach(r, p.review) = last
  <2>1. types \o nulls \in Seq(Statement) /\ (types \o nulls) \o redo \in Seq(Statement)
    BY <1>4
  <2>2. PICK tn \in Seq(Statement), tr \in Seq(Statement) : tn = types \o nulls /\ tr = tn \o redo
    BY <2>1
  <2>3. RunEach(r, types \o nulls) = RunEach(RunEach(r, types), nulls)
    BY <1>4, RunAppend
  <2>4. RunEach(r, tn \o redo) = RunEach(RunEach(r, tn), redo)
    BY <1>4, RunAppend
  <2>5. RunEach(r, tr \o keys) = RunEach(RunEach(r, tr), keys)
    BY <1>4, RunAppend
  <2> QED
    BY <1>4, <1>9, <1>10, <1>11, <1>18, <2>2, <2>3, <2>4, <2>5
<1> QED
  BY <1>19, <1>20 DEF Bad, p, diff

LEMMA WholeStage ==
  ASSUME NEW e \in Entities, NEW d, WellFormed(d), NEW over \in BOOLEAN, NEW u \in BOOLEAN
  PROVE  LET p == Patch(e, Diff(e, d), over)
             run == RunEach(Run(d, None), Whole(p, u))
         IN  run \in Runs /\ Stage(run, Arrived(e), Reasons(p))
<1> DEFINE diff == Diff(e, d)
           p == Patch(e, diff, over)
           Q == Unreviewed(diff)
<1>1. p \in PatchType /\ p.commented = diff.review
  BY PatchParts
<1>2. PICK start \in Runs : start = Run(d, None)
  BY RunType
<1>3. RunEach(start, p.safe) \in Runs /\ Stage(RunEach(start, p.safe), ReadyTables(e, diff, Q), {})
  BY <1>2, SafeStage
<1> HIDE DEF diff, p, Q
<1>4. /\ p.safe \in Seq(Statement) /\ p.notx \in Seq(Statement) /\ p.renames \in Seq(Statement)
      /\ p.review \in Seq(Statement)
  BY <1>1 DEF PatchType
<1>5. PICK first \in Runs : /\ first = RunEach(start, p.safe)
                            /\ Stage(first, ReadyTables(e, diff, Q), Reasons(p))
  BY <1>3 DEF Stage
<1>6. PICK second \in Runs : /\ second = RunEach(first, p.notx)
                             /\ Stage(second, ReadyTables(e, diff, Q), Reasons(p))
  BY <1>5, IndexStage DEF diff, p, Q
<1>7. PICK ren \in Seq(Statement) : ren = IF p.commented /\ ~u THEN <<>> ELSE p.renames
  <2>1. <<>> \in Seq(Statement)
    OBVIOUS
  <2>2. (IF p.commented /\ ~u THEN <<>> ELSE p.renames) \in Seq(Statement)
    BY <1>4, <2>1
  <2> QED
    BY <2>2
<1>8. PICK third \in Runs : /\ third = RunEach(second, ren)
                            /\ Stage(third, ReadyTables(e, diff, {}), Reasons(p))
  <2>1. CASE p.commented /\ ~u
    <3>1. ren = <<>> /\ Q = {}
      BY <1>1, <1>7, <2>1 DEF Q, Unreviewed
    <3>2. RunEach(second, ren) = second
      BY <3>1, RunEmpty
    <3> QED
      BY <1>6, <3>1, <3>2
  <2>2. CASE ~(p.commented /\ ~u)
    <3>1. ren = p.renames
      BY <1>7, <2>2
    <3>2. /\ RunEach(second, p.renames) \in Runs
          /\ Stage(RunEach(second, p.renames), ReadyTables(e, diff, {}), Reasons(p))
      BY <1>6, RenameStage DEF diff, p, Q
    <3> QED
      BY <3>1, <3>2
  <2> QED
    BY <2>1, <2>2
<1>9. PICK last \in Runs : last = RunEach(third, p.review) /\ Stage(last, Arrived(e), Reasons(p))
  BY <1>8, ReviewStage DEF diff, p
<1>10. RunEach(start, Whole(p, u)) = last
  <2>1. p.safe \o p.notx \in Seq(Statement) /\ ren \o p.review \in Seq(Statement)
    BY <1>4
  <2>2. RunEach(start, p.safe \o p.notx) = second
    BY <1>4, <1>5, <1>6, RunAppend
  <2>3. RunEach(second, ren \o p.review) = last
    BY <1>4, <1>8, <1>9, RunAppend
  <2>4. RunEach(start, (p.safe \o p.notx) \o (ren \o p.review)) =
          RunEach(RunEach(start, p.safe \o p.notx), ren \o p.review)
    BY <2>1, RunAppend
  <2> QED
    BY <1>7, <2>2, <2>3, <2>4 DEF Whole, Review
<1> QED
  BY <1>2, <1>9, <1>10 DEF diff, p

(***************************************************************************)
(* What a patch brings                                                     *)
(***************************************************************************)

Values(s) == {s[i] : i \in 1 .. Len(s)}

LEMMA ValuesAppend ==
  ASSUME NEW s \in Seq(Statement), NEW t \in Seq(Statement)
  PROVE  s \o t \in Seq(Statement) /\ Values(s \o t) = Values(s) \cup Values(t)
<1>1. PICK m \in Nat, n \in Nat : m = Len(s) /\ n = Len(t)
  OBVIOUS
<1>2. /\ s \o t \in Seq(Statement) /\ Len(s \o t) = m + n
      /\ \A i \in 1 .. m : (s \o t)[i] = s[i]
      /\ \A i \in 1 .. m + n : i > m => (s \o t)[i] = t[i - m]
  BY <1>1
<1>3. ASSUME NEW i \in 1 .. m + n PROVE (s \o t)[i] \in Values(s) \cup Values(t)
  <2>1. CASE i <= m
    <3>1. i \in 1 .. m
      BY <2>1
    <3> QED
      BY <1>1, <1>2, <3>1 DEF Values
  <2>2. CASE i > m
    <3>1. i - m \in 1 .. n
      BY <2>2
    <3> QED
      BY <1>1, <1>2, <2>2, <3>1 DEF Values
  <2>3. i <= m \/ i > m
    OBVIOUS
  <2> QED
    BY <2>1, <2>2, <2>3
<1>4. ASSUME NEW i \in 1 .. m PROVE s[i] \in Values(s \o t)
  <2>1. i \in 1 .. m + n
    OBVIOUS
  <2> QED
    BY <1>2, <2>1 DEF Values
<1>5. ASSUME NEW i \in 1 .. n PROVE t[i] \in Values(s \o t)
  <2>1. i + m \in 1 .. m + n /\ i + m > m /\ (i + m) - m = i
    OBVIOUS
  <2>2. (s \o t)[i + m] = t[i]
    BY <1>2, <2>1
  <2> QED
    BY <1>2, <2>1, <2>2 DEF Values
<1>6. Values(s \o t) \subseteq Values(s) \cup Values(t)
  BY <1>2, <1>3 DEF Values
<1>7. Values(s) \subseteq Values(s \o t) /\ Values(t) \subseteq Values(s \o t)
  <2>1. Values(s) = {s[i] : i \in 1 .. m} /\ Values(t) = {t[i] : i \in 1 .. n}
    BY <1>1 DEF Values
  <2> QED
    BY <1>4, <1>5, <2>1
<1> QED
  BY <1>2, <1>6, <1>7

LEMMA ListsValues ==
  ASSUME NEW s, NEW S, Lists(s, S)
  PROVE  Values(s) = S
BY DEF Lists, Values

(* The statements of a patch, in any order; renames may be commented out.  *)
Made(e, d, diff) ==
  (IF d.exists THEN {} ELSE {CreateTable(e)})
    \cup (IF d.exists THEN {} ELSE {CreateIndex(x) : x \in EntityIndexes(e)})
    \cup {AddColumn(c) : c \in Declared(e, diff.newColumns)}
    \cup {CreateIndex(x) : x \in diff.newIndexes}
    \cup {AlterType(c) : c \in Declared(e, diff.retyped)}
    \cup {AlterNullability(c) : c \in Declared(e, diff.nullability)}
    \cup {DropIndex(x) : x \in diff.indexMismatches}
    \cup {CreateIndex(x) : x \in diff.indexMismatches}
    \cup {AddForeignKey(f) : f \in diff.newForeignKeys}

LEMMA WholeValues ==
  ASSUME NEW e \in Entities, NEW d, WellFormed(d), NEW over \in BOOLEAN, NEW u \in BOOLEAN
  PROVE  LET diff == Diff(e, d)
             p == Patch(e, diff, over)
         IN  /\ Whole(p, u) \in Seq(Statement)
             /\ Made(e, d, diff) \subseteq Values(Whole(p, u))
             /\ Values(Whole(p, u)) \subseteq Made(e, d, diff) \cup {RenameColumn(r) : r \in diff.renames}
             /\ \A x \in diff.indexMismatches : \E i \in DOMAIN p.review : p.review[i].op = "dropIndex"
<1> DEFINE diff == Diff(e, d)
           p == Patch(e, diff, over)
<1>1. PICK born, adds, types, nulls, redo, keys : Parts(e, diff, p, born, adds, types, nulls, redo, keys)
  BY PatchParts
<1>2. p \in PatchType /\ diff.newTable = ~d.exists /\ d.exists \in BOOLEAN
  BY PatchParts, DiffFacts DEF WellFormed
<1> HIDE DEF p, diff
<1>3. /\ p.safe = (IF diff.newTable THEN <<CreateTable(e)>> \o born ELSE <<>>) \o adds
      /\ p.review = ((types \o nulls) \o redo) \o keys
      /\ born \in Seq(Statement) /\ adds \in Seq(Statement) /\ types \in Seq(Statement)
      /\ nulls \in Seq(Statement) /\ redo \in Seq(Statement) /\ keys \in Seq(Statement)
  BY <1>1 DEF Parts
<1>4. /\ Values(born) = {CreateIndex(x) : x \in EntityIndexes(e)}
      /\ Values(adds) = {AddColumn(c) : c \in Declared(e, diff.newColumns)}
      /\ Values(p.notx) = {CreateIndex(x) : x \in diff.newIndexes}
      /\ Values(p.renames) = {RenameColumn(r) : r \in diff.renames}
      /\ Values(types) = {AlterType(c) : c \in Declared(e, diff.retyped)}
      /\ Values(nulls) = {AlterNullability(c) : c \in Declared(e, diff.nullability)}
      /\ Values(redo) = {DropIndex(x) : x \in diff.indexMismatches}
                           \cup {CreateIndex(x) : x \in diff.indexMismatches}
      /\ Values(keys) = {AddForeignKey(f) : f \in diff.newForeignKeys}
  BY <1>1, ListsValues DEF Parts
<1>5. <<>> \in Seq(Statement) /\ Values(<<>>) = {}
  BY DEF Values
<1>6. <<CreateTable(e)>> \in Seq(Statement) /\ Values(<<CreateTable(e)>>) = {CreateTable(e)}
  <2>1. CreateTable(e) \in Statement
    BY StatementTypes
  <2>2. /\ <<CreateTable(e)>> \in Seq(Statement) /\ Len(<<CreateTable(e)>>) = 1
        /\ <<CreateTable(e)>>[1] = CreateTable(e) /\ 1 .. 1 = {1}
    BY <2>1
  <2> QED
    BY <2>2 DEF Values
<1>7. p.notx \in Seq(Statement) /\ p.renames \in Seq(Statement)
  BY <1>2 DEF PatchType
<1>8. PICK head \in Seq(Statement) :
        /\ head = (IF diff.newTable THEN <<CreateTable(e)>> \o born ELSE <<>>)
        /\ Values(head) = (IF d.exists THEN {} ELSE {CreateTable(e)})
                             \cup (IF d.exists THEN {} ELSE {CreateIndex(x) : x \in EntityIndexes(e)})
  <2>1. CASE d.exists
    BY <1>2, <1>5, <2>1
  <2>2. CASE ~d.exists
    <3>1. /\ <<CreateTable(e)>> \o born \in Seq(Statement)
          /\ Values(<<CreateTable(e)>> \o born) = Values(<<CreateTable(e)>>) \cup Values(born)
      BY <1>3, <1>6, ValuesAppend
    <3> QED
      BY <1>2, <1>4, <1>6, <2>2, <3>1
  <2> QED
    BY <1>2, <2>1, <2>2
<1>9. p.safe \in Seq(Statement) /\ Values(p.safe) = Values(head) \cup Values(adds)
  <2>1. p.safe = head \o adds
    BY <1>3, <1>8
  <2> QED
    BY <1>3, <2>1, ValuesAppend
<1>10. /\ p.review \in Seq(Statement)
       /\ Values(p.review) = ((Values(types) \cup Values(nulls)) \cup Values(redo)) \cup Values(keys)
  <2>1. types \o nulls \in Seq(Statement) /\ Values(types \o nulls) = Values(types) \cup Values(nulls)
    BY <1>3, ValuesAppend
  <2>2. /\ (types \o nulls) \o redo \in Seq(Statement)
        /\ Values((types \o nulls) \o redo) = Values(types \o nulls) \cup Values(redo)
    BY <1>3, <2>1, ValuesAppend
  <2>3. /\ ((types \o nulls) \o redo) \o keys \in Seq(Statement)
        /\ Values(((types \o nulls) \o redo) \o keys) = Values((types \o nulls) \o redo) \cup Values(keys)
    BY <1>3, <2>2, ValuesAppend
  <2> QED
    BY <1>3, <2>1, <2>2, <2>3
<1>11. PICK ren \in Seq(Statement) : /\ ren = (IF p.commented /\ ~u THEN <<>> ELSE p.renames)
                                     /\ Values(ren) \subseteq Values(p.renames)
  <2>1. CASE p.commented /\ ~u
    BY <1>5, <2>1
  <2>2. CASE ~(p.commented /\ ~u)
    BY <1>7, <2>2
  <2> QED
    BY <2>1, <2>2
<1>12. /\ Whole(p, u) \in Seq(Statement)
       /\ Values(Whole(p, u)) = (Values(p.safe) \cup Values(p.notx)) \cup (Values(ren) \cup Values(p.review))
  <2>1. p.safe \o p.notx \in Seq(Statement) /\ Values(p.safe \o p.notx) = Values(p.safe) \cup Values(p.notx)
    BY <1>7, <1>9, ValuesAppend
  <2>2. ren \o p.review \in Seq(Statement) /\ Values(ren \o p.review) = Values(ren) \cup Values(p.review)
    BY <1>10, ValuesAppend
  <2>3. Whole(p, u) = (p.safe \o p.notx) \o (ren \o p.review)
    BY <1>11 DEF Whole, Review
  <2>4. /\ (p.safe \o p.notx) \o (ren \o p.review) \in Seq(Statement)
        /\ Values((p.safe \o p.notx) \o (ren \o p.review)) =
             Values(p.safe \o p.notx) \cup Values(ren \o p.review)
    BY <2>1, <2>2, ValuesAppend
  <2> QED
    BY <2>1, <2>2, <2>3, <2>4
<1>13. Made(e, d, diff) = Values(p.safe) \cup Values(p.notx) \cup Values(p.review)
  <2>1. Made(e, d, diff) =
          Values(head) \cup Values(adds) \cup Values(p.notx) \cup Values(types) \cup Values(nulls)
            \cup Values(redo) \cup Values(keys)
    BY <1>4, <1>8, Zenon DEF Made
  <2> QED
    BY <1>9, <1>10, <2>1
<1>14. ASSUME NEW x \in diff.indexMismatches
       PROVE  \E i \in DOMAIN p.review : p.review[i].op = "dropIndex"
  <2>1. DropIndex(x) \in Values(p.review)
    BY <1>4, <1>10
  <2>2. PICK i \in 1 .. Len(p.review) : p.review[i] = DropIndex(x)
    BY <2>1 DEF Values
  <2>3. i \in DOMAIN p.review
    BY <1>10
  <2> QED
    BY <2>2, <2>3 DEF DropIndex
<1> QED
  BY <1>4, <1>11, <1>12, <1>13, <1>14 DEF p, diff

(* What every statement leaves alone.                                      *)
LEMMA EffectFacts ==
  ASSUME NEW x, WellFormed(x), NEW s \in Statement, Accepts(x, s)
  PROVE  LET u == Effect(x, s)
         IN  /\ WellFormed(u)
             /\ s.op # "dropIndex" => x.indexes \subseteq u.indexes
             /\ s.op = "createIndex" => \E z \in u.indexes : z.name = s.index.name
             /\ x.foreignKeys \subseteq u.foreignKeys
             /\ s.op = "addForeignKey" => \E g \in u.foreignKeys : g.name = s.foreignKey.name
             /\ \A k \in DOMAIN x.columns :
                  /\ k \in DOMAIN u.columns
                  /\ \/ u.columns[k].name = x.columns[k].name
                     \/ s.op = "rename" /\ x.columns[k].name = s.from
             /\ u.exists /\ ~x.exists => s.op = "createTable" /\ u = Created(s.columns)
             /\ x.exists => u.exists
             /\ s.op \in {"createIndex", "dropIndex", "addForeignKey"} => u.columns = x.columns
<1> DEFINE u == Effect(x, s)
           Goal == /\ WellFormed(u)
                   /\ s.op # "dropIndex" => x.indexes \subseteq u.indexes
                   /\ s.op = "createIndex" => \E z \in u.indexes : z.name = s.index.name
                   /\ x.foreignKeys \subseteq u.foreignKeys
                   /\ s.op = "addForeignKey" => \E g \in u.foreignKeys : g.name = s.foreignKey.name
                   /\ \A k \in DOMAIN x.columns :
                        /\ k \in DOMAIN u.columns
                        /\ \/ u.columns[k].name = x.columns[k].name
                           \/ s.op = "rename" /\ x.columns[k].name = s.from
                   /\ u.exists /\ ~x.exists => s.op = "createTable" /\ u = Created(s.columns)
                   /\ x.exists => u.exists
                   /\ s.op \in {"createIndex", "dropIndex", "addForeignKey"} => u.columns = x.columns
<1> SUFFICES Goal
  OBVIOUS
<1>0. WellFormed(u)
  BY EffectType
<1> HIDE DEF u
<1>1. CASE s.op = "createTable"
  <2>1. CASE x.exists
    <3>1. u = x
      BY <1>1, <2>1 DEF Effect, u
    <3> QED
      BY <1>0, <1>1, <2>1, <3>1
  <2>2. CASE ~x.exists
    <3>1. x = NoTable
      BY <2>2 DEF WellFormed
    <3>2. DOMAIN x.columns = {} /\ x.indexes = {} /\ x.foreignKeys = {}
      BY <3>1 DEF NoTable
    <3>3. u = Created(s.columns)
      BY <1>1, <2>2 DEF Effect, u
    <3> QED
      BY <1>0, <1>1, <2>2, <3>2, <3>3
  <2> QED
    BY <2>1, <2>2
<1>2. CASE s.op = "addColumn"
  <2>1. /\ u.indexes = x.indexes /\ u.foreignKeys = x.foreignKeys /\ u.exists /\ x.exists
        /\ \A i \in DOMAIN x.columns : i \in DOMAIN u.columns /\ u.columns[i] = x.columns[i]
    BY <1>2, AddColumnEffect DEF u
  <2> QED
    BY <1>0, <1>2, <2>1
<1>3. CASE s.op = "createIndex"
  <2>1. /\ u.columns = x.columns /\ u.foreignKeys = x.foreignKeys /\ x.indexes \subseteq u.indexes
        /\ u.exists = x.exists /\ \E z \in u.indexes : z.name = s.index.name
    BY <1>3, CreateIndexEffect DEF u
  <2> QED
    BY <1>0, <1>3, <2>1
<1>4. CASE s.op = "dropIndex"
  <2>1. u.columns = x.columns /\ u.foreignKeys = x.foreignKeys /\ u.exists = x.exists
    BY <1>4, DropIndexEffect DEF u
  <2> QED
    BY <1>0, <1>4, <2>1
<1>5. CASE s.op = "rename"
  <2>1. /\ u.indexes = x.indexes /\ u.foreignKeys = x.foreignKeys
        /\ DOMAIN u.columns = DOMAIN x.columns /\ u.exists /\ x.exists
        /\ x.columns[At(x.columns, s.from)].name = s.from
        /\ \A i \in DOMAIN x.columns : i # At(x.columns, s.from) => u.columns[i] = x.columns[i]
    BY <1>5, RenameEffect DEF u
  <2> QED
    BY <1>0, <1>5, <2>1
<1>6. CASE s.op \in {"alterType", "alterNullability"}
  <2>1. /\ u.indexes = x.indexes /\ u.foreignKeys = x.foreignKeys
        /\ DOMAIN u.columns = DOMAIN x.columns /\ u.exists /\ x.exists
        /\ x.columns[At(x.columns, s.name)].name = s.name
        /\ u.columns[At(x.columns, s.name)].name = s.name
        /\ \A i \in DOMAIN x.columns : i # At(x.columns, s.name) => u.columns[i] = x.columns[i]
    BY <1>6, AlterEffect DEF u
  <2> QED
    BY <1>0, <1>6, <2>1
<1>7. CASE s.op = "addForeignKey"
  <2>1. /\ u.indexes = x.indexes /\ u.columns = x.columns /\ u.exists /\ x.exists
        /\ u.foreignKeys = x.foreignKeys \cup {PlaceForeignKey(x.columns, s.foreignKey)}
    BY <1>7, ForeignKeyEffect DEF u
  <2>2. PlaceForeignKey(x.columns, s.foreignKey).name = s.foreignKey.name
    BY DEF PlaceForeignKey
  <2> QED
    BY <1>0, <1>7, <2>1, <2>2
<1> QED
  BY <1>1, <1>2, <1>3, <1>4, <1>5, <1>6, <1>7, StatementFields

(* A run that succeeds has come through all of G.                          *)
LEMMA Success ==
  ASSUME NEW d, WellFormed(d), NEW s \in Seq(Statement), NEW G, d \in G[0],
         \A i \in 1 .. Len(s) : \A x \in G[i - 1] :
           WellFormed(x) /\ Accepts(x, s[i]) => Effect(x, s[i]) \in G[i]
  PROVE  LET run == RunEach(Run(d, None), s)
         IN  run \in Runs /\ (run.failed = None => run.database \in G[Len(s)])
<1>1. PICK r \in Runs : r = Run(d, None) /\ r.failed = None /\ r.database = d
  BY RunType
<1>2. Stage(r, G[0], Statement)
  BY <1>1 DEF Stage
<1>3. \A i \in 1 .. Len(s) : \A x \in G[i - 1] :
        WellFormed(x) => IF Accepts(x, s[i]) THEN Effect(x, s[i]) \in G[i] ELSE s[i] \in Statement
  OBVIOUS
<1>4. RunEach(r, s) \in Runs /\ Stage(RunEach(r, s), G[Len(s)], Statement)
  BY <1>2, <1>3, Phase
<1> QED
  BY <1>1, <1>4 DEF Stage

(* What each kind of statement of a patch is about.                        *)
LEMMA MadeFacts ==
  ASSUME NEW e \in Entities, NEW d, WellFormed(d), NEW diff, diff = Diff(e, d),
         NEW s, s \in Made(e, d, diff) \cup {RenameColumn(r) : r \in diff.renames}
  PROVE  /\ s.op = "createTable" => s.columns = e
         /\ s.op = "addColumn" => \E i \in DOMAIN e : s.column = e[i]
         /\ s.op = "rename" => \E r \in diff.renames : s.from = r.from /\ s.to = r.to
         /\ s.op = "alterType" => \E i \in DOMAIN e : s = AlterType(e[i])
         /\ s.op = "dropIndex" => diff.indexMismatches # {}
<1>1. diff.newColumns \in SUBSET NamesOf(e) /\ diff.retyped \in SUBSET NamesOf(e)
  BY DiffFacts
<1>2. /\ \A c \in Declared(e, diff.newColumns) : \E i \in DOMAIN e : c = e[i]
      /\ \A c \in Declared(e, diff.retyped) : \E i \in DOMAIN e : c = e[i]
  BY <1>1, DeclaredFacts
<1> DEFINE Goal == /\ s.op = "createTable" => s.columns = e
                   /\ s.op = "addColumn" => \E i \in DOMAIN e : s.column = e[i]
                   /\ s.op = "rename" => \E r \in diff.renames : s.from = r.from /\ s.to = r.to
                   /\ s.op = "alterType" => \E i \in DOMAIN e : s = AlterType(e[i])
                   /\ s.op = "dropIndex" => diff.indexMismatches # {}
<1>3. CASE s = CreateTable(e)
  BY <1>3 DEF CreateTable
<1>4. ASSUME NEW x, s = CreateIndex(x) PROVE Goal
  BY <1>4 DEF CreateIndex
<1>5. ASSUME NEW c \in Declared(e, diff.newColumns), s = AddColumn(c) PROVE Goal
  BY <1>2, <1>5 DEF AddColumn
<1>6. ASSUME NEW c \in Declared(e, diff.retyped), s = AlterType(c) PROVE Goal
  <2>1. \E i \in DOMAIN e : s = AlterType(e[i])
    BY <1>2, <1>6
  <2>2. s.op = "alterType"
    BY <1>6 DEF AlterType
  <2> QED
    BY <2>1, <2>2
<1>7. ASSUME NEW c, s = AlterNullability(c) PROVE Goal
  BY <1>7 DEF AlterNullability
<1>8. ASSUME NEW x \in diff.indexMismatches, s = DropIndex(x) PROVE Goal
  BY <1>8 DEF DropIndex
<1>9. ASSUME NEW f, s = AddForeignKey(f) PROVE Goal
  BY <1>9 DEF AddForeignKey
<1>10. ASSUME NEW r \in diff.renames, s = RenameColumn(r) PROVE Goal
  BY <1>10 DEF RenameColumn
<1>11. \/ s = CreateTable(e)
       \/ \E x : s = CreateIndex(x)
       \/ \E c \in Declared(e, diff.newColumns) : s = AddColumn(c)
       \/ \E c \in Declared(e, diff.retyped) : s = AlterType(c)
       \/ \E c : s = AlterNullability(c)
       \/ \E x \in diff.indexMismatches : s = DropIndex(x)
       \/ \E f : s = AddForeignKey(f)
       \/ \E r \in diff.renames : s = RenameColumn(r)
  BY Zenon DEF Made
<1> HIDE DEF Goal
<1>12. Goal
  BY <1>3, <1>4, <1>5, <1>6, <1>7, <1>8, <1>9, <1>10, <1>11 DEF Goal
<1> QED
  BY <1>12 DEF Goal

(* Where the name and the type of a column come from.                      *)
ColumnOrigin(x, s, u, j) ==
  \/ /\ j \in DOMAIN x.columns /\ u.columns[j].name = x.columns[j].name
     /\ u.columns[j].type = x.columns[j].type
     /\ s.op = "alterType" => x.columns[j].name # s.name
  \/ /\ s.op = "createTable" /\ j \in DOMAIN s.columns
     /\ u.columns[j].name = s.columns[j].name /\ u.columns[j].type = Stored(s.columns[j].type)
  \/ /\ s.op = "addColumn"
     /\ u.columns[j].name = s.column.name /\ u.columns[j].type = Stored(s.column.type)
  \/ /\ s.op = "rename" /\ j \in DOMAIN x.columns /\ x.columns[j].name = s.from
     /\ u.columns[j].name = s.to /\ u.columns[j].type = x.columns[j].type
  \/ s.op = "alterType" /\ u.columns[j].name = s.name /\ u.columns[j].type = Stored(s.type)

LEMMA ColumnOrigins ==
  ASSUME NEW x, WellFormed(x), NEW s \in Statement, Accepts(x, s), NEW j \in DOMAIN Effect(x, s).columns
  PROVE  ColumnOrigin(x, s, Effect(x, s), j)
<1> DEFINE u == Effect(x, s)
<1>0. j \in DOMAIN u.columns
  OBVIOUS
<1> SUFFICES ColumnOrigin(x, s, u, j)
  OBVIOUS
<1> HIDE DEF u
<1>1. CASE u.columns = x.columns /\ s.op # "alterType"
  BY <1>0, <1>1 DEF ColumnOrigin
<1>2. CASE s.op = "createTable"
  <2>1. CASE x.exists
    <3>1. u = x
      BY <1>2, <2>1 DEF Effect, u
    <3> QED
      BY <1>1, <1>2, <3>1
  <2>2. CASE ~x.exists
    <3>1. u = Created(s.columns) /\ s.columns \in Entities
      BY <1>2, <2>2, StatementFields DEF Effect, u
    <3>2. /\ DOMAIN u.columns = DOMAIN s.columns
          /\ \A i \in DOMAIN s.columns :
               u.columns[i] = Column(s.columns[i].name, Stored(s.columns[i].type), s.columns[i].nullable)
      BY <3>1, CreatedFacts
    <3>3. u.columns[j].name = s.columns[j].name /\ u.columns[j].type = Stored(s.columns[j].type)
      <4>1. j \in DOMAIN s.columns
        BY <1>0, <3>2
      <4>2. PICK n, t, l : n = s.columns[j].name /\ t = Stored(s.columns[j].type) /\ l = s.columns[j].nullable
        OBVIOUS
      <4>3. u.columns[j] = Column(n, t, l)
        BY <3>2, <4>1, <4>2
      <4> QED
        BY <4>2, <4>3 DEF Column
    <3> QED
      BY <1>0, <1>2, <3>2, <3>3 DEF ColumnOrigin
  <2> QED
    BY <2>1, <2>2
<1>3. CASE s.op = "addColumn"
  <2>1. /\ \A i \in DOMAIN x.columns : u.columns[i] = x.columns[i]
        /\ j \in DOMAIN x.columns
           \/ u.columns[j] = Column(s.column.name, Stored(s.column.type), s.column.nullable)
    BY <1>0, <1>3, AddColumnEffect DEF u
  <2>2. CASE j \in DOMAIN x.columns
    BY <1>3, <2>1, <2>2 DEF ColumnOrigin
  <2>3. CASE u.columns[j] = Column(s.column.name, Stored(s.column.type), s.column.nullable)
    BY <1>3, <2>3 DEF ColumnOrigin, Column
  <2> QED
    BY <2>1, <2>2, <2>3
<1>4. CASE s.op \in {"createIndex", "dropIndex", "addForeignKey"}
  <2>1. u.columns = x.columns
    BY <1>4, EffectFacts DEF u
  <2> QED
    BY <1>1, <1>4, <2>1
<1>5. CASE s.op = "rename"
  <2> DEFINE k == At(x.columns, s.from)
  <2>1. /\ DOMAIN u.columns = DOMAIN x.columns /\ x.columns[k].name = s.from /\ k \in DOMAIN x.columns
        /\ u.columns[k] = Column(s.to, x.columns[k].type, x.columns[k].nullable)
        /\ \A i \in DOMAIN x.columns : i # k => u.columns[i] = x.columns[i]
    BY <1>5, RenameEffect DEF u
  <2> HIDE DEF k
  <2>2. CASE j = k
    BY <1>0, <1>5, <2>1, <2>2 DEF ColumnOrigin, Column
  <2>3. CASE j # k
    BY <1>0, <1>5, <2>1, <2>3 DEF ColumnOrigin
  <2> QED
    BY <2>2, <2>3
<1>6. CASE s.op \in {"alterType", "alterNullability"}
  <2> DEFINE k == At(x.columns, s.name)
  <2>1. /\ DOMAIN u.columns = DOMAIN x.columns /\ x.columns[k].name = s.name /\ k \in DOMAIN x.columns
        /\ u.columns[k].name = s.name
        /\ s.op = "alterType" => u.columns[k].type = Stored(s.type)
        /\ s.op = "alterNullability" => u.columns[k].type = x.columns[k].type
        /\ \A i \in DOMAIN x.columns : i # k => u.columns[i] = x.columns[i]
    BY <1>6, AlterEffect DEF u
  <2>2. Distinct(x.columns)
    BY DEF WellFormed
  <2> HIDE DEF k
  <2>3. CASE j = k
    BY <1>0, <1>6, <2>1, <2>3 DEF ColumnOrigin
  <2>4. CASE j # k
    <3>1. x.columns[j].name # s.name
      BY <1>0, <2>1, <2>2, <2>4 DEF Distinct
    <3> QED
      BY <1>0, <1>6, <2>1, <2>4, <3>1 DEF ColumnOrigin
  <2> QED
    BY <2>3, <2>4
<1> QED
  BY <1>2, <1>3, <1>4, <1>5, <1>6, StatementFields

(***************************************************************************)
(* A failed patch runs again                                               *)
(***************************************************************************)

Adds(op) == op \in {"createTable", "addColumn", "createIndex"}
Additive(s) == \A i \in 1 .. Len(s) : Adds(s[i].op)

(* A statement with IF NOT EXISTS that has nothing left to do.             *)
Done(d, s) ==
  /\ d.exists /\ Adds(s.op)
  /\ s.op = "addColumn" => s.column.name \in NamesOf(d.columns)
  /\ s.op = "createIndex" => /\ s.index.on \in NamesOf(d.columns)
                             /\ \E x \in d.indexes : x.name = s.index.name

Extends(d, x) ==
  /\ d.exists => x.exists
  /\ \A j \in DOMAIN d.columns : j \in DOMAIN x.columns /\ x.columns[j] = d.columns[j]
  /\ d.indexes \subseteq x.indexes

LEMMA ExtendsFacts ==
  ASSUME NEW d, NEW x, NEW y
  PROVE  /\ Extends(d, d)
         /\ Extends(d, x) /\ Extends(x, y) => Extends(d, y)
         /\ \A s : Done(d, s) /\ Extends(d, x) => Done(x, s)
<1>1. Extends(d, d)
  BY DEF Extends
<1>2. ASSUME Extends(d, x), Extends(x, y) PROVE Extends(d, y)
  <2>1. \A j \in DOMAIN d.columns : j \in DOMAIN y.columns /\ y.columns[j] = d.columns[j]
    BY <1>2 DEF Extends
  <2> QED
    BY <1>2, <2>1 DEF Extends
<1>3. ASSUME NEW s, Done(d, s), Extends(d, x) PROVE Done(x, s)
  <2>1. NamesOf(d.columns) \subseteq NamesOf(x.columns)
    BY <1>3 DEF Extends, NamesOf
  <2>2. d.indexes \subseteq x.indexes /\ x.exists
    BY <1>3 DEF Extends, Done
  <2> QED
    BY <1>3, <2>1, <2>2 DEF Done
<1> QED
  BY <1>1, <1>2, <1>3

LEMMA DoneNothing ==
  ASSUME NEW d, WellFormed(d), NEW s \in Statement, Done(d, s)
  PROVE  Accepts(d, s) /\ Effect(d, s) = d
<1>1. CASE s.op = "createTable"
  BY <1>1 DEF Done, Accepts, Effect
<1>2. CASE s.op = "addColumn"
  BY <1>2 DEF Done, Accepts, Effect
<1>3. CASE s.op = "createIndex"
  BY <1>3 DEF Done, Accepts, Effect
<1> QED
  BY <1>1, <1>2, <1>3 DEF Done, Adds

LEMMA AddsEffect ==
  ASSUME NEW d, WellFormed(d), NEW s \in Statement, Adds(s.op), Accepts(d, s)
  PROVE  Extends(d, Effect(d, s)) /\ Done(Effect(d, s), s)
<1> DEFINE u == Effect(d, s)
<1>1. CASE s.op = "createTable"
  <2>1. CASE d.exists
    <3>1. u = d
      BY <1>1, <2>1 DEF Effect
    <3> HIDE DEF u
    <3>2. Extends(d, u) /\ Done(u, s)
      BY <1>1, <2>1, <3>1, ExtendsFacts DEF Done, Adds
    <3> QED
      BY <3>2 DEF u
  <2>2. CASE ~d.exists
    <3>1. u = Created(s.columns) /\ s.columns \in Entities
      BY <1>1, <2>2, StatementFields DEF Effect
    <3>2. u.exists
      BY <3>1, CreatedFacts
    <3>3. d.columns = <<>> /\ d.indexes = {}
      BY <2>2 DEF WellFormed, NoTable
    <3>4. \A j \in DOMAIN d.columns : FALSE
      BY <3>3
    <3> HIDE DEF u
    <3>5. Extends(d, u) /\ Done(u, s)
      BY <1>1, <3>2, <3>3, <3>4 DEF Extends, Done, Adds
    <3> QED
      BY <3>5 DEF u
  <2> QED
    BY <2>1, <2>2
<1>2. CASE s.op = "addColumn"
  <2>1. /\ u.exists /\ u.indexes = d.indexes
        /\ \A i \in DOMAIN d.columns : i \in DOMAIN u.columns /\ u.columns[i] = d.columns[i]
        /\ NamesOf(u.columns) = NamesOf(d.columns) \cup {s.column.name}
    BY <1>2, AddColumnEffect
  <2> HIDE DEF u
  <2>2. Extends(d, u) /\ Done(u, s)
    BY <1>2, <2>1 DEF Extends, Done, Adds
  <2> QED
    BY <2>2 DEF u
<1>3. CASE s.op = "createIndex"
  <2>1. /\ u.exists = d.exists /\ u.columns = d.columns /\ d.indexes \subseteq u.indexes
        /\ \E x \in u.indexes : x.name = s.index.name
    BY <1>3, CreateIndexEffect
  <2>2. s.index.on \in NamesOf(d.columns)
    BY <1>3 DEF Accepts
  <2>3. d.exists
    <3>1. DOMAIN d.columns # {}
      BY <2>2, AtFacts
    <3> QED
      BY <3>1 DEF WellFormed, NoTable
  <2> HIDE DEF u
  <2>4. Extends(d, u) /\ Done(u, s)
    BY <1>3, <2>1, <2>2, <2>3 DEF Extends, Done, Adds
  <2> QED
    BY <2>4 DEF u
<1> QED
  BY <1>1, <1>2, <1>3 DEF Adds

LEMMA DoneRun ==
  ASSUME NEW x, WellFormed(x), NEW s \in Seq(Statement), \A i \in 1 .. Len(s) : Done(x, s[i])
  PROVE  RunEach(Run(x, None), s) = Run(x, None)
<1>1. PICK n \in Nat : n = Len(s) /\ \A i \in 1 .. n : s[i] \in Statement
  OBVIOUS
<1>2. PICK r \in Runs : r = Run(x, None) /\ r.database = x /\ r.failed = None
  BY RunType
<1> DEFINE Reached == [i \in 0 .. n |-> {r}]
<1>3. \A i \in 0 .. n : Reached[i] = {r}
  OBVIOUS
<1>4. r \in Reached[0]
  BY <1>3
<1> HIDE DEF Reached
<1>5. ASSUME NEW i \in 1 .. Len(s), NEW y \in Runs, y \in Reached[i - 1]
      PROVE  Execute(y, s[i]) \in Reached[i]
  <2>1. i \in 0 .. n /\ i - 1 \in 0 .. n /\ s[i] \in Statement
    BY <1>1
  <2>2. y = r
    BY <1>3, <1>5, <2>1
  <2>3. Accepts(x, s[i]) /\ Effect(x, s[i]) = x
    BY <2>1, DoneNothing
  <2>4. Execute(r, s[i]) \in Runs /\ Execute(r, s[i]).failed = None /\ Execute(r, s[i]).database = x
    BY <1>2, <2>1, <2>3, ExecuteFacts
  <2>5. Execute(r, s[i]) = r
    BY <1>2, <2>4, RunFields
  <2> QED
    BY <1>3, <2>1, <2>2, <2>5
<1>6. RunEach(r, s) \in Reached[n]
  BY <1>1, <1>4, <1>5, Reach
<1> QED
  BY <1>2, <1>3, <1>6

(* Statements that only add: run once more where they have got, they come  *)
(* to the same table, or fail at the same statement.                       *)
LEMMA AdditiveRun ==
  ASSUME NEW r \in Runs, r.failed = None, NEW s \in Seq(Statement), Additive(s),
         NEW run, run = RunEach(r, s)
  PROVE  /\ run \in Runs /\ Extends(r.database, run.database)
         /\ run.failed = None => \A i \in 1 .. Len(s) : Done(run.database, s[i])
         /\ RunEach(Run(run.database, None), s) = run
<1>1. PICK n \in Nat : n = Len(s) /\ \A i \in 1 .. n : s[i] \in Statement /\ Adds(s[i].op)
  BY DEF Additive
<1>2. PICK a : Trace(a, r, s) /\ run = a[n]
  BY <1>1, TraceExists
<1>3. /\ a[0] = r /\ \A i \in 0 .. n : a[i] \in Runs
      /\ \A i \in 1 .. n : a[i] = Execute(a[i - 1], s[i])
  BY <1>1, <1>2 DEF Trace
<1>4. ASSUME NEW i \in 1 .. n
      PROVE  /\ Extends(a[i - 1].database, a[i].database)
             /\ a[i - 1].failed # None => a[i] = a[i - 1]
             /\ a[i].failed = None => a[i - 1].failed = None /\ Done(a[i].database, s[i])
             /\ a[i - 1].failed = None /\ a[i].failed # None =>
                  /\ a[i].failed = s[i] /\ a[i].database = a[i - 1].database
                  /\ ~Accepts(a[i].database, s[i])
  <2>1. i - 1 \in 0 .. n /\ i \in 0 .. n
    OBVIOUS
  <2>2. PICK x \in Runs, t \in Statement : x = a[i - 1] /\ t = s[i] /\ Adds(t.op)
    BY <1>1, <1>3, <2>1
  <2>3. a[i] = Execute(x, t) /\ WellFormed(x.database)
    BY <1>3, <2>2, RunFields
  <2>4. CASE x.failed # None
    <3>1. a[i] = x
      BY <2>3, <2>4, ExecuteFacts
    <3> QED
      BY <2>2, <2>4, <3>1, ExtendsFacts
  <2>5. CASE x.failed = None /\ Accepts(x.database, t)
    <3>1. a[i].failed = None /\ a[i].database = Effect(x.database, t)
      BY <2>3, <2>5, ExecuteFacts
    <3>2. Extends(x.database, a[i].database) /\ Done(a[i].database, t)
      BY <2>2, <2>3, <2>5, <3>1, AddsEffect
    <3> QED
      BY <2>2, <2>5, <3>1, <3>2
  <2>6. CASE x.failed = None /\ ~Accepts(x.database, t)
    <3>1. a[i].failed = t /\ a[i].database = x.database /\ t # None
      BY <2>3, <2>6, ExecuteFacts, StatementFields
    <3> QED
      BY <2>2, <2>6, <3>1, ExtendsFacts
  <2> QED
    BY <2>4, <2>5, <2>6
<1> DEFINE After(j, m) == /\ Extends(a[j].database, a[m].database)
                          /\ a[j].failed # None => a[m] = a[j]
           S == {m \in 0 .. n : \A j \in 0 .. m : After(j, m)}
<1>5. \A m \in 0 .. n : \A j \in 0 .. m : After(j, m)
  <2>1. 0 \in S
    <3>1. \A j \in 0 .. 0 : j = 0
      OBVIOUS
    <3> QED
      BY <3>1, ExtendsFacts
  <2>2. ASSUME NEW m \in 0 .. n - 1, m \in S PROVE m + 1 \in S
    <3>1. m + 1 \in 1 .. n /\ m + 1 \in 0 .. n /\ (m + 1) - 1 = m
      OBVIOUS
    <3>2. Extends(a[m].database, a[m + 1].database) /\ (a[m].failed # None => a[m + 1] = a[m])
      BY <1>4, <3>1
    <3>3. ASSUME NEW j \in 0 .. m + 1 PROVE After(j, m + 1)
      <4>1. CASE j = m + 1
        BY <4>1, ExtendsFacts
      <4>2. CASE j # m + 1
        <5>1. j \in 0 .. m
          BY <4>2
        <5>2. After(j, m)
          BY <2>2, <5>1
        <5> QED
          BY <3>2, <5>2, ExtendsFacts
      <4> QED
        BY <4>1, <4>2
    <3> HIDE DEF After
    <3> QED
      BY <3>1, <3>3
  <2> HIDE DEF S
  <2>3. 0 .. n \subseteq S
    BY <2>1, <2>2, UpTo
  <2> HIDE DEF After
  <2> QED
    BY <2>3 DEF S
<1> HIDE DEF S
<1>6. ASSUME NEW i \in 0 .. n PROVE After(i, n)
  <2>1. n \in 0 .. n /\ i \in 0 .. n
    OBVIOUS
  <2> HIDE DEF After
  <2> QED
    BY <1>5, <2>1
<1>7. PICK w : w = run.database /\ WellFormed(w)
  BY <1>2, <1>3, RunFields
<1>8. run \in Runs /\ run = Run(w, run.failed) /\ run.failed \in Statement \cup {None}
  BY <1>2, <1>3, <1>7, RunFields
<1>9. Extends(r.database, w)
  BY <1>2, <1>3, <1>6, <1>7
<1>10. ASSUME NEW i \in 1 .. n, a[i].failed = None PROVE Done(w, s[i])
  <2>1. Done(a[i].database, s[i]) /\ Extends(a[i].database, w)
    BY <1>2, <1>4, <1>6, <1>7, <1>10
  <2> QED
    BY <2>1, ExtendsFacts
<1>11. ASSUME run.failed = None, NEW i \in 1 .. n PROVE Done(w, s[i])
  <2>1. a[i].failed = None
    BY <1>2, <1>6, <1>11
  <2> QED
    BY <1>10, <2>1
<1>12. PICK start \in Runs : start = Run(w, None) /\ start.database = w /\ start.failed = None
  BY <1>7, RunType
<1> DEFINE b == [i \in 0 .. n |-> IF a[i].failed = None THEN start ELSE run]
<1>13. \A i \in 0 .. n : b[i] = IF a[i].failed = None THEN start ELSE run
  OBVIOUS
<1>14. b \in [0 .. n -> Runs]
  BY <1>8
<1> HIDE DEF b
<1>15. ASSUME NEW i \in 1 .. n PROVE b[i] = Execute(b[i - 1], s[i])
  <2>1. i - 1 \in 0 .. n /\ i \in 0 .. n /\ s[i] \in Statement
    BY <1>1
  <2>2. CASE a[i].failed = None
    <3>1. b[i] = start /\ b[i - 1] = start
      BY <1>4, <1>13, <2>1, <2>2
    <3>2. Accepts(w, s[i]) /\ Effect(w, s[i]) = w
      BY <1>7, <1>10, <2>1, <2>2, DoneNothing
    <3>3. /\ Execute(start, s[i]) \in Runs /\ Execute(start, s[i]).failed = None
          /\ Execute(start, s[i]).database = w
      BY <1>12, <2>1, <3>2, ExecuteFacts
    <3> QED
      BY <1>12, <3>1, <3>3, RunFields
  <2>3. CASE a[i].failed # None /\ a[i - 1].failed = None
    <3>1. b[i] = run /\ b[i - 1] = start /\ run = a[i]
      BY <1>2, <1>6, <1>13, <2>1, <2>3
    <3>2. run.failed = s[i] /\ ~Accepts(w, s[i])
      BY <1>4, <1>7, <2>3, <3>1
    <3>3. /\ Execute(start, s[i]) \in Runs /\ Execute(start, s[i]).failed = s[i]
          /\ Execute(start, s[i]).database = w
      BY <1>12, <2>1, <3>2, ExecuteFacts
    <3> QED
      BY <1>8, <3>1, <3>2, <3>3, RunFields
  <2>4. CASE a[i - 1].failed # None
    <3>1. a[i] = a[i - 1] /\ run = a[i]
      BY <1>2, <1>4, <1>6, <2>1, <2>4
    <3>2. b[i] = run /\ b[i - 1] = run /\ run.failed # None
      BY <1>13, <2>1, <2>4, <3>1
    <3> QED
      BY <1>8, <2>1, <3>2, ExecuteFacts
  <2> QED
    BY <2>2, <2>3, <2>4
<1>16. b[0] = start
  BY <1>3, <1>13
<1>17. Trace(b, start, s)
  BY <1>1, <1>14, <1>15, <1>16 DEF Trace
<1>18. RunEach(start, s) = b[n]
  BY <1>1, <1>17, TraceIs
<1>19. b[n] = run
  <2>1. b[n] = IF run.failed = None THEN start ELSE run
    BY <1>2, <1>13
  <2>2. run.failed = None => run = start
    BY <1>8, <1>12
  <2> QED
    BY <2>1, <2>2
<1> QED
  BY <1>1, <1>7, <1>8, <1>9, <1>11, <1>12, <1>18, <1>19

(* A failed patch has left nothing that its statements would not find as   *)
(* they left it: run again it does what it would have done the first time. *)
LEMMA FailedRun ==
  ASSUME NEW d, WellFormed(d), NEW p \in PatchType, Additive(p.safe), Additive(p.notx),
         NEW u \in BOOLEAN, NEW v \in BOOLEAN, RunPatch(d, p, u).failed # None,
         NEW x, x = RunPatch(d, p, u).database
  PROVE  Extends(d, x) /\ RunPatch(x, p, v) = RunPatch(d, p, v)
<1>1. PICK start \in Runs : start = Run(d, None) /\ start.database = d /\ start.failed = None
  BY RunPatchIs
<1>2. /\ p.safe \in Seq(Statement) /\ p.notx \in Seq(Statement)
      /\ Review(p, u) \in Seq(Statement) /\ Review(p, v) \in Seq(Statement)
  BY RunPatchIs
<1>3. PICK s \in Seq(Statement), t \in Seq(Statement) : s = p.safe /\ t = p.notx
  BY <1>2
<1>4. PICK ru \in Seq(Statement), rv \in Seq(Statement) : ru = Review(p, u) /\ rv = Review(p, v)
  BY <1>2
<1>5. PICK run \in Runs : run = RunPatch(d, p, u) /\ run.failed # None /\ x = run.database
  BY RunPatchIs
<1>6. run = IF t = <<>> THEN RunTransaction(start, s \o ru)
            ELSE RunTransaction(RunEach(RunTransaction(start, s), t), ru)
  BY <1>1, <1>3, <1>4, <1>5, RunPatchIs
<1>7. CASE x = d
  BY <1>7, ExtendsFacts
<1>8. CASE t = <<>>
  <2>1. s \o ru \in Seq(Statement) /\ run = RunTransaction(start, s \o ru)
    BY <1>6, <1>8
  <2>2. PICK q \in Seq(Statement) : run = RunTransaction(start, q)
    BY <2>1
  <2>3. /\ run.failed = RunEach(start, q).failed
        /\ RunEach(start, q).failed # None => run.database = start.database
    BY <2>2, TransactionType
  <2>4. x = d
    BY <1>1, <1>5, <2>3
  <2> QED
    BY <1>7, <2>4
<1>9. CASE t # <<>>
  <2>1. PICK f \in Runs, first \in Runs : f = RunEach(start, s) /\ first = RunTransaction(start, s)
    BY TransactionType
  <2>2. PICK second \in Runs : second = RunEach(first, t)
    BY TransactionType
  <2>3. run = RunTransaction(second, ru)
    BY <1>6, <1>9, <2>1, <2>2
  <2>4. x = second.database
    <3>1. RunEach(second, ru).failed # None
      BY <1>5, <2>3, TransactionType
    <3> QED
      BY <1>5, <2>3, <3>1, TransactionType
  <2>5. CASE f.failed # None
    <3>1. first.database = d /\ first.failed # None
      BY <1>1, <2>1, <2>5, TransactionType
    <3>2. second = first
      BY <2>2, <3>1, Stuck
    <3> QED
      BY <1>7, <2>4, <3>1, <3>2
  <2>6. CASE f.failed = None
    <3>1. first = f
      BY <2>1, <2>6, TransactionType
    <3>2. /\ Extends(d, f.database) /\ \A i \in 1 .. Len(s) : Done(f.database, s[i])
      BY <1>1, <1>3, <2>1, <2>6, AdditiveRun
    <3>3. Extends(f.database, x) /\ RunEach(Run(x, None), t) = second
      BY <1>3, <2>2, <2>4, <2>6, <3>1, AdditiveRun
    <3>4. Extends(d, x) /\ \A i \in 1 .. Len(s) : Done(x, s[i])
      BY <3>2, <3>3, ExtendsFacts
    <3>5. WellFormed(x)
      BY <2>4, RunFields
    <3>6. PICK again \in Runs : again = Run(x, None) /\ again.failed = None
      BY <3>5, RunPatchIs
    <3>7. RunEach(again, s) = again
      BY <3>4, <3>5, <3>6, DoneRun
    <3>8. RunTransaction(again, s) = again
      <4>1. RunEach(again, s).failed = None
        BY <3>6, <3>7
      <4>2. RunTransaction(again, s) = RunEach(again, s)
        BY <4>1, TransactionType
      <4> QED
        BY <3>7, <4>2
    <3>9. RunPatch(x, p, v) = RunTransaction(RunEach(RunTransaction(again, s), t), rv)
      BY <1>3, <1>4, <1>9, <3>5, <3>6, RunPatchIs
    <3>10. RunPatch(d, p, v) = RunTransaction(RunEach(RunTransaction(start, s), t), rv)
      BY <1>1, <1>3, <1>4, <1>9, RunPatchIs
    <3>11. RunPatch(x, p, v) = RunTransaction(second, rv)
      BY <3>3, <3>6, <3>8, <3>9
    <3>12. RunPatch(d, p, v) = RunTransaction(second, rv)
      BY <2>1, <2>2, <3>10
    <3> QED
      BY <3>4, <3>11, <3>12
  <2> QED
    BY <2>5, <2>6
<1> QED
  BY <1>8, <1>9

(* The table is d, or what a run of the patch on d left when it failed.    *)
Before(p, d, x, f) ==
  IF f = None THEN x = d
  ELSE \E u \in BOOLEAN : RunPatch(d, p, u).failed = f /\ x = RunPatch(d, p, u).database

LEMMA Again ==
  ASSUME NEW d, WellFormed(d), NEW p \in PatchType, Additive(p.safe), Additive(p.notx),
         NEW x, NEW f, Before(p, d, x, f), NEW v \in BOOLEAN
  PROVE  RunPatch(x, p, v) = RunPatch(d, p, v)
<1>1. CASE f = None
  BY <1>1 DEF Before
<1>2. CASE f # None
  <2>1. PICK u \in BOOLEAN : RunPatch(d, p, u).failed = f /\ x = RunPatch(d, p, u).database
    BY <1>2 DEF Before
  <2> QED
    BY <1>2, <2>1, FailedRun
<1> QED
  BY <1>1, <1>2

LEMMA PatchAdds ==
  ASSUME NEW e \in Entities, NEW d, WellFormed(d), NEW over \in BOOLEAN
  PROVE  LET p == Patch(e, Diff(e, d), over)
         IN  Additive(p.safe) /\ Additive(p.notx)
<1> DEFINE diff == Diff(e, d)
           p == Patch(e, diff, over)
<1>1. PICK born, adds, types, nulls, redo, keys : Parts(e, diff, p, born, adds, types, nulls, redo, keys)
  BY PatchParts
<1> HIDE DEF p, diff
<1>2. /\ p.safe = (IF diff.newTable THEN <<CreateTable(e)>> \o born ELSE <<>>) \o adds
      /\ born \in Seq(Statement) /\ adds \in Seq(Statement)
      /\ Lists(born, {CreateIndex(x) : x \in EntityIndexes(e)})
      /\ Lists(adds, {AddColumn(c) : c \in Declared(e, diff.newColumns)})
      /\ Lists(p.notx, {CreateIndex(x) : x \in diff.newIndexes})
  BY <1>1 DEF Parts
<1>3. Additive(born)
  <2>1. \A i \in 1 .. Len(born) : born[i] \in {CreateIndex(x) : x \in EntityIndexes(e)}
    BY <1>2, ListsMember
  <2> QED
    BY <2>1 DEF Additive, Adds, CreateIndex
<1>4. Additive(adds)
  <2>1. \A i \in 1 .. Len(adds) : adds[i] \in {AddColumn(c) : c \in Declared(e, diff.newColumns)}
    BY <1>2, ListsMember
  <2> QED
    BY <2>1 DEF Additive, Adds, AddColumn
<1>5. Additive(p.notx)
  <2>1. \A i \in 1 .. Len(p.notx) : p.notx[i] \in {CreateIndex(x) : x \in diff.newIndexes}
    BY <1>2, ListsMember
  <2> QED
    BY <2>1 DEF Additive, Adds, CreateIndex
<1>6. ASSUME NEW s \in Seq(Statement), NEW t \in Seq(Statement), Additive(s), Additive(t)
      PROVE  Additive(s \o t) /\ s \o t \in Seq(Statement)
  <2>1. \A i \in 1 .. Len(s \o t) :
          IF i <= Len(s) THEN i \in 1 .. Len(s) /\ (s \o t)[i] = s[i]
          ELSE i - Len(s) \in 1 .. Len(t) /\ (s \o t)[i] = t[i - Len(s)]
    OBVIOUS
  <2> QED
    BY <1>6, <2>1 DEF Additive
<1>7. <<CreateTable(e)>> \in Seq(Statement) /\ Additive(<<CreateTable(e)>>)
  <2>1. \A i \in 1 .. Len(<<CreateTable(e)>>) : <<CreateTable(e)>>[i] = CreateTable(e)
    OBVIOUS
  <2> QED
    BY <2>1, StatementTypes DEF Additive, Adds, CreateTable
<1>8. <<>> \in Seq(Statement) /\ Additive(<<>>)
  <2>1. \A i \in 1 .. Len(<<>>) : FALSE
    OBVIOUS
  <2> QED
    BY <2>1 DEF Additive
<1>9. PICK head \in Seq(Statement) :
        head = (IF diff.newTable THEN <<CreateTable(e)>> \o born ELSE <<>>) /\ Additive(head)
  <2>1. CASE diff.newTable
    <3>1. Additive(<<CreateTable(e)>> \o born) /\ <<CreateTable(e)>> \o born \in Seq(Statement)
      BY <1>2, <1>3, <1>6, <1>7
    <3> QED
      BY <2>1, <3>1
  <2>2. CASE ~diff.newTable
    BY <1>8, <2>2
  <2> QED
    BY <2>1, <2>2
<1>10. Additive(p.safe)
  <2>1. Additive(head \o adds)
    BY <1>2, <1>4, <1>6, <1>9
  <2> QED
    BY <1>2, <1>9, <2>1
<1> QED
  BY <1>5, <1>10 DEF p, diff

(***************************************************************************)
(* Types that are not cast                                                 *)
(***************************************************************************)

Uncast(d, s) ==
  \E j \in DOMAIN d.columns : d.columns[j].name = s.name /\ ~Castable(d.columns[j].type, s.type)

(* A column both have keeps its type until it gets the declared one.       *)
Known(e, d, x) ==
  \A l \in DOMAIN d.columns, k \in DOMAIN e :
    d.columns[l].name = e[k].name =>
      \E j \in DOMAIN x.columns :
        /\ x.columns[j].name = e[k].name
        /\ x.columns[j].type = d.columns[l].type \/ x.columns[j].type = Stored(e[k].type)

LEMMA KnownStep ==
  ASSUME NEW e \in Entities, NEW d, WellFormed(d), NEW diff, diff = Diff(e, d),
         NEW s \in Statement, s \in Made(e, d, diff) \cup {RenameColumn(r) : r \in diff.renames},
         NEW x, WellFormed(x), Known(e, d, x), Accepts(x, s)
  PROVE  Known(e, d, Effect(x, s))
<1>1. PICK u : u = Effect(x, s)
  OBVIOUS
<1>2. /\ s.op = "createTable" => s.columns = e
      /\ s.op = "addColumn" => \E k \in DOMAIN e : s.column = e[k]
      /\ s.op = "rename" => \E r \in diff.renames : s.from = r.from /\ s.to = r.to
      /\ s.op = "alterType" => \E k \in DOMAIN e : s = AlterType(e[k])
  BY MadeFacts
<1>3. \A k, l \in DOMAIN e : e[k].name = e[l].name => k = l
  BY EntityFacts DEF Distinct
<1>4. \A r \in diff.renames : r.from \notin NamesOf(e)
  BY DiffFacts, LikelyFacts, CandidateFacts DEF DatabaseOnly
<1> SUFFICES ASSUME NEW l \in DOMAIN d.columns, NEW k \in DOMAIN e, d.columns[l].name = e[k].name
             PROVE  \E j \in DOMAIN u.columns :
                      /\ u.columns[j].name = e[k].name
                      /\ \/ u.columns[j].type = d.columns[l].type
                         \/ u.columns[j].type = Stored(e[k].type)
  BY <1>1 DEF Known
<1>5. PICK j \in DOMAIN x.columns :
        /\ x.columns[j].name = e[k].name
        /\ x.columns[j].type = d.columns[l].type \/ x.columns[j].type = Stored(e[k].type)
  BY DEF Known
<1>6. j \in DOMAIN u.columns /\ u.columns[j].name = e[k].name
  <2>1. /\ j \in DOMAIN u.columns
        /\ u.columns[j].name = x.columns[j].name \/ (s.op = "rename" /\ x.columns[j].name = s.from)
    BY <1>1, EffectFacts
  <2>2. e[k].name \in NamesOf(e)
    BY DEF NamesOf
  <2> QED
    BY <1>2, <1>4, <1>5, <2>1, <2>2
<1>7. ColumnOrigin(x, s, u, j)
  BY <1>1, <1>6, ColumnOrigins
<1>8. u.columns[j].type = x.columns[j].type \/ u.columns[j].type = Stored(e[k].type)
  <2>1. CASE s.op = "createTable" /\ j \in DOMAIN s.columns
             /\ u.columns[j].name = s.columns[j].name /\ u.columns[j].type = Stored(s.columns[j].type)
    BY <1>2, <1>3, <1>6, <2>1
  <2>2. CASE s.op = "addColumn"
             /\ u.columns[j].name = s.column.name /\ u.columns[j].type = Stored(s.column.type)
    BY <1>2, <1>3, <1>6, <2>2
  <2>3. CASE s.op = "alterType" /\ u.columns[j].name = s.name /\ u.columns[j].type = Stored(s.type)
    <3>1. PICK m \in DOMAIN e : s = AlterType(e[m])
      BY <1>2, <2>3
    <3>2. s.name = e[m].name /\ s.type = e[m].type
      BY <3>1 DEF AlterType
    <3> QED
      BY <1>3, <1>6, <2>3, <3>2
  <2> QED
    BY <1>7, <2>1, <2>2, <2>3 DEF ColumnOrigin
<1> QED
  BY <1>5, <1>6, <1>8

LEMMA MadeTypes ==
  ASSUME NEW e, NEW d, NEW diff, NEW s, s \in Made(e, d, diff), s.op = "alterType"
  PROVE  \E c \in Declared(e, diff.retyped) : s = AlterType(c)
<1>1. /\ s # CreateTable(e) /\ \A x : s # CreateIndex(x) /\ s # DropIndex(x)
      /\ \A x : s # AddForeignKey(x) /\ s # AddColumn(x) /\ s # AlterNullability(x)
  BY DEF CreateTable, CreateIndex, DropIndex, AddForeignKey, AddColumn, AlterNullability
<1> QED
  BY <1>1, Zenon DEF Made

(* A new type is refused only where the type the column had in the compared*)
(* table is not cast to it.                                                *)
LEMMA CastStage ==
  ASSUME NEW e \in Entities, NEW d, WellFormed(d), NEW over \in BOOLEAN, NEW u \in BOOLEAN,
         NEW p, p = Patch(e, Diff(e, d), over),
         NEW whole, whole = RunEach(Run(d, None), Whole(p, u)), whole.failed # None,
         whole.failed.op = "alterType"
  PROVE  Uncast(d, whole.failed)
<1>1. PICK diff : diff = Diff(e, d)
  OBVIOUS
<1>2. PICK s \in Seq(Statement) :
        /\ s = Whole(p, u)
        /\ Values(s) \subseteq Made(e, d, diff) \cup {RenameColumn(r) : r \in diff.renames}
  BY <1>1, WholeValues
<1>3. Len(s) \in Nat /\ \A i \in 1 .. Len(s) : s[i] \in Statement /\ s[i] \in Values(s)
  BY <1>2 DEF Values
<1> DEFINE G == {x \in Tables : Known(e, d, x)}
           R == {t \in Statement : t.op = "alterType" => Uncast(d, t)}
<1>4. PICK r \in Runs : r = Run(d, None) /\ r.database = d /\ r.failed = None
  BY RunType
<1>5. d \in G
  BY TablesAre DEF Known
<1>6. \A x : x \in G <=> WellFormed(x) /\ Known(e, d, x)
  BY TablesAre
<1>7. \A t \in Statement : t \in R <=> (t.op = "alterType" => Uncast(d, t))
  OBVIOUS
<1> HIDE DEF G, R
<1>8. ASSUME NEW i \in 1 .. Len(s), NEW x \in G
      PROVE  IF Accepts(x, s[i]) THEN Effect(x, s[i]) \in G ELSE s[i] \in R
  <2>1. PICK t \in Statement :
          t = s[i] /\ t \in Made(e, d, diff) \cup {RenameColumn(q) : q \in diff.renames}
    BY <1>2, <1>3
  <2>2. WellFormed(x) /\ Known(e, d, x)
    BY <1>6
  <2>3. CASE Accepts(x, t)
    BY <1>1, <1>6, <2>1, <2>2, <2>3, KnownStep, EffectType
  <2>4. CASE ~Accepts(x, t) /\ t.op = "alterType"
    <3>0. t \in Made(e, d, diff)
      <4>1. \A q : t # RenameColumn(q)
        BY <2>4 DEF RenameColumn
      <4> QED
        BY <2>1, <4>1
    <3>1. PICK c \in Declared(e, diff.retyped) : t = AlterType(c)
      <4>1. \E c \in Declared(e, diff.retyped) : t = AlterType(c)
        BY <2>4, <3>0, MadeTypes
      <4> QED
        BY <4>1
    <3>2. /\ c.name \in diff.retyped /\ \E k \in DOMAIN e : c = e[k]
          /\ diff.retyped \in SUBSET (NamesOf(e) \cap NamesOf(d.columns))
      BY <1>1, <3>1, DiffFacts, DeclaredFacts
    <3>3. PICK k \in DOMAIN e, l \in DOMAIN d.columns : c = e[k] /\ d.columns[l].name = e[k].name
      BY <3>2 DEF NamesOf
    <3>4. PICK j \in DOMAIN x.columns :
            /\ x.columns[j].name = e[k].name
            /\ x.columns[j].type = d.columns[l].type \/ x.columns[j].type = Stored(e[k].type)
      BY <2>2, <3>3 DEF Known
    <3>5. t.name = e[k].name /\ t.type = e[k].type
      BY <3>1, <3>3 DEF AlterType
    <3>6. ~Castable(x.columns[j].type, t.type)
      BY <2>4, <3>4, <3>5 DEF Accepts
    <3>7. Castable(Stored(e[k].type), t.type)
      BY <3>5, EntityFacts, StoredFacts DEF Castable
    <3>8. Uncast(d, t)
      BY <3>3, <3>4, <3>5, <3>6, <3>7 DEF Uncast
    <3> QED
      BY <1>7, <2>1, <2>4, <3>8
  <2>5. CASE ~Accepts(x, t) /\ t.op # "alterType"
    BY <1>7, <2>1, <2>5
  <2> QED
    BY <2>1, <2>3, <2>4, <2>5
<1>9. Stage(r, G, R)
  BY <1>4, <1>5 DEF Stage
<1>10. RunEach(r, s) \in Runs /\ Stage(RunEach(r, s), G, R)
  BY <1>8, <1>9, Steady
<1>11. whole \in Runs /\ whole.failed \in R /\ whole.failed \in Statement
  BY <1>2, <1>4, <1>10, RunFields DEF Stage
<1> QED
  BY <1>7, <1>11

(***************************************************************************)
(* Fresh patches                                                           *)
(***************************************************************************)

(* Only the first patch may have been compared with the database as it is, *)
(* or was when the patch failed, and it was if it says so.                 *)
FreshPatches ==
  /\ patches # <<>> /\ ~Head(patches).stale =>
       \E e \in Entities, d \in Tables :
         Head(patches) = Patch(e, Diff(e, d), FALSE) /\ Before(Head(patches), d, database, failed)
  /\ \A i \in 2 .. Len(patches) : patches[i].stale

LEMMA FreshPatchesStep ==
  TypeOK /\ FreshPatches /\ FailuresHaveReasons /\ [Next]_vars => FreshPatches' /\ FailuresHaveReasons'
<1> SUFFICES ASSUME TypeOK, FreshPatches, FailuresHaveReasons, [Next]_vars
             PROVE  FreshPatches' /\ FailuresHaveReasons'
  OBVIOUS
<1>0. /\ entity \in Entities /\ WellFormed(database) /\ patches \in Seq(PatchType)
      /\ failed # None => patches # <<>>
  BY DEF TypeOK, PatchType
<1>1. CASE Edit \/ UNCHANGED vars
  <2>1. UNCHANGED <<database, patches, failed>>
    BY <1>1 DEF Edit, vars
  <2> QED
    BY <2>1 DEF FreshPatches, FailuresHaveReasons
<1>2. CASE Compare
  <2> DEFINE p == Patch(entity, Diff(entity, database), patches # <<>>)
  <2>1. /\ patches' = patches \/ patches' = Append(patches, p)
        /\ failed' = failed /\ database' = database
    BY <1>2 DEF Compare
  <2>2. p.stale = (patches # <<>>)
    BY DEF Patch
  <2>3. CASE patches = <<>> /\ patches' = Append(patches, p)
    <3>1. p = Patch(entity, Diff(entity, database), FALSE) /\ failed = None
      BY <1>0, <2>3
    <3>4. database \in Tables /\ Before(p, database, database', failed')
      BY <1>0, <2>1, <3>1, TablesAre DEF Before
    <3> HIDE DEF p
    <3>2. Head(patches') = p /\ Len(patches') = 1
      BY <2>3
    <3>3. \A i \in 2 .. Len(patches') : patches'[i].stale
      BY <3>2
    <3>5. FreshPatches'
      BY <1>0, <3>1, <3>2, <3>3, <3>4 DEF FreshPatches
    <3> QED
      BY <2>1, <3>1, <3>5 DEF FailuresHaveReasons
  <2>4. CASE patches # <<>> /\ patches' = Append(patches, p)
    <3>1. p.stale
      BY <2>2, <2>4
    <3> HIDE DEF p
    <3>2. Head(patches') = Head(patches) /\ Len(patches') = Len(patches) + 1 /\ Len(patches) \in Nat \ {0}
      BY <1>0, <2>4
    <3>3. ASSUME NEW i \in 2 .. Len(patches') PROVE patches'[i].stale
      <4>1. CASE i = Len(patches) + 1
        BY <1>0, <2>4, <3>1, <4>1
      <4>2. CASE i # Len(patches) + 1
        <5>1. i \in 2 .. Len(patches) /\ patches'[i] = patches[i]
          BY <1>0, <2>4, <3>2, <4>2
        <5> QED
          BY <5>1 DEF FreshPatches
      <4> QED
        BY <4>1, <4>2
    <3>4. patches' # <<>>
      BY <3>2
    <3> QED
      BY <2>1, <2>4, <3>2, <3>3, <3>4 DEF FreshPatches, FailuresHaveReasons
  <2>5. CASE patches' = patches
    BY <2>1, <2>5 DEF FreshPatches, FailuresHaveReasons
  <2> QED
    BY <2>1, <2>3, <2>4, <2>5
<1>3. ASSUME patches # <<>>, patches' = Tail(patches), failed' = None
      PROVE  FreshPatches' /\ FailuresHaveReasons'
  <2>1. \A i \in 1 .. Len(patches') : patches'[i] = patches[i + 1] /\ i + 1 \in 2 .. Len(patches)
    BY <1>0, <1>3
  <2>2. \A i \in 1 .. Len(patches') : patches'[i].stale
    BY <2>1 DEF FreshPatches
  <2>3. \A i \in 2 .. Len(patches') : i \in 1 .. Len(patches')
    OBVIOUS
  <2>4. patches' # <<>> => Head(patches') = patches'[1] /\ 1 \in 1 .. Len(patches')
    BY <1>0, <1>3
  <2> QED
    BY <1>3, <2>2, <2>3, <2>4 DEF FreshPatches, FailuresHaveReasons
<1>4. CASE GiveUp
  BY <1>0, <1>3, <1>4 DEF GiveUp
<1>5. CASE Apply
  <2>1. PICK u \in BOOLEAN :
          LET run == RunPatch(database, Head(patches), u)
          IN /\ database' = run.database /\ failed' = run.failed
             /\ patches' = IF run.failed = None THEN Tail(patches) ELSE patches
    BY <1>5 DEF Apply
  <2>2. PICK run : /\ run = RunPatch(database, Head(patches), u)
                   /\ database' = run.database /\ failed' = run.failed
                   /\ patches' = IF run.failed = None THEN Tail(patches) ELSE patches
    BY <2>1
  <2>3. patches # <<>> /\ Head(patches) \in PatchType
    BY <1>0, <1>5 DEF Apply
  <2>4. CASE run.failed = None
    BY <1>3, <2>2, <2>3, <2>4
  <2>5. CASE run.failed # None
    <3>1. patches' = patches /\ failed' = run.failed /\ failed' # None
      BY <2>2, <2>5
    <3>2. CASE Head(patches).stale
      BY <3>1, <3>2 DEF FreshPatches, FailuresHaveReasons
    <3>3. CASE ~Head(patches).stale
      <4>1. PICK e \in Entities, d \in Tables :
              Head(patches) = Patch(e, Diff(e, d), FALSE) /\ Before(Head(patches), d, database, failed)
        BY <2>3, <3>3 DEF FreshPatches
      <4>2. PICK p \in PatchType : p = Head(patches)
        BY <2>3
      <4>3. WellFormed(d)
        BY TablesAre
      <4>4. Additive(p.safe) /\ Additive(p.notx)
        BY <4>1, <4>2, <4>3, PatchAdds
      <4>5. run = RunPatch(d, p, u)
        BY <2>2, <4>1, <4>2, <4>3, <4>4, Again
      <4>6. Extends(d, run.database)
        BY <2>5, <4>3, <4>4, <4>5, FailedRun
      <4>7. PICK whole \in Runs : /\ whole = RunEach(Run(d, None), Whole(p, u))
                                  /\ Stage(whole, Arrived(e), Reasons(p))
        BY <4>1, <4>2, <4>3, WholeStage
      <4>8. run.failed = whole.failed
        BY <4>2, <4>3, <4>5, <4>7, WholeRun
      <4>9. Reason(p, run.failed)
        BY <2>5, <4>7, <4>8 DEF Stage, Reasons
      <4>10. run.failed.op = "alterType" => Uncast(d, run.failed)
        BY <2>5, <4>1, <4>2, <4>3, <4>7, <4>8, CastStage
      <4>11. run.failed.op = "alterType" => Uncast(database', run.failed)
        <5>1. \A j \in DOMAIN d.columns :
                j \in DOMAIN database'.columns /\ database'.columns[j] = d.columns[j]
          BY <2>2, <4>6 DEF Extends
        <5> QED
          BY <4>10, <5>1 DEF Uncast
      <4>12. Before(p, d, database', failed')
        BY <2>2, <2>5, <4>5 DEF Before
      <4>13. FreshPatches'
        BY <3>1, <4>1, <4>2, <4>12 DEF FreshPatches
      <4>14. FailuresHaveReasons'
        BY <3>1, <4>2, <4>9, <4>11 DEF FailuresHaveReasons, Reason, Renames, Uncast
      <4> QED
        BY <4>13, <4>14
    <3> QED
      BY <3>2, <3>3
  <2> QED
    BY <2>4, <2>5
<1> QED
  BY <1>1, <1>2, <1>4, <1>5 DEF Next

(* A patch that was compared with the database it runs on fails at an      *)
(* index on a column which it renames further down, at a rename the        *)
(* reviewer uncommented, or at an ALTER ... TYPE that would need a USING,  *)
(* and nowhere else, at the first try or a later one: the order of the     *)
(* sections in buildSqlPatchFromMetaDiff is right for everything but these *)
(* three.                                                                  *)
THEOREM FailuresAreExplained == Spec => []FailuresHaveReasons
<1>1. Init => FreshPatches /\ FailuresHaveReasons
  BY DEF Init, FreshPatches, FailuresHaveReasons
<1> QED
  BY <1>1, FreshPatchesStep, TypeCorrect, PTL DEF Spec

(***************************************************************************)
(* What has arrived when a patch succeeds                                  *)
(***************************************************************************)

(* The patch gives every declared column its type: the columns it adds     *)
(* have it, renames keep it, and the others are retyped.  A column fits    *)
(* that compare takes for one of its type, or that was just declared so.   *)
Fits(type, hint) == Comparable(hint) = Comparable(type) \/ type = Stored(hint)
Typing(e, diff, s, i) ==
  {x \in Tables :
     /\ \A j \in DOMAIN x.columns, k \in DOMAIN e :
          x.columns[j].name = e[k].name /\ ~Fits(x.columns[j].type, e[k].type) =>
            e[k].name \in diff.retyped /\ \A m \in 1 .. i : s[m] # AlterType(e[k])
     /\ \A r \in diff.renames, j \in DOMAIN x.columns, k \in DOMAIN e :
          x.columns[j].name = r.from /\ e[k].name = r.to => Fits(x.columns[j].type, e[k].type)}

LEMMA TypingStep ==
  ASSUME NEW e \in Entities, NEW d, WellFormed(d), NEW diff, diff = Diff(e, d),
         NEW s, NEW i \in Nat, s[i + 1] \in Statement,
         s[i + 1] \in Made(e, d, diff) \cup {RenameColumn(r) : r \in diff.renames},
         NEW x \in Typing(e, diff, s, i), WellFormed(x), Accepts(x, s[i + 1])
  PROVE  Effect(x, s[i + 1]) \in Typing(e, diff, s, i + 1)
<1>1. PICK t \in Statement : t = s[i + 1]
  OBVIOUS
<1>2. PICK u : u = Effect(x, t)
  OBVIOUS
<1>3. WellFormed(u) /\ u \in Tables
  BY <1>1, <1>2, EffectType DEF Tables, WellFormed
<1>4. \A j \in DOMAIN u.columns : ColumnOrigin(x, t, u, j)
  BY <1>1, <1>2, ColumnOrigins
<1>5. /\ t.op = "createTable" => t.columns = e
      /\ t.op = "addColumn" => \E k \in DOMAIN e : t.column = e[k]
      /\ t.op = "rename" => \E r \in diff.renames : t.from = r.from /\ t.to = r.to
      /\ t.op = "alterType" => \E k \in DOMAIN e : t = AlterType(e[k])
  BY <1>1, MadeFacts
<1>6. /\ \A k, l \in DOMAIN e : e[k].name = e[l].name => k = l
      /\ \A k \in DOMAIN e : e[k].name \in NamesOf(e)
  BY EntityFacts DEF Distinct, NamesOf
<1>7. \A r \in diff.renames : r.from \notin NamesOf(e)
  BY DiffFacts, LikelyFacts, CandidateFacts DEF DatabaseOnly
<1>8. /\ \A j \in DOMAIN x.columns, k \in DOMAIN e :
           x.columns[j].name = e[k].name /\ ~Fits(x.columns[j].type, e[k].type) =>
             e[k].name \in diff.retyped /\ \A m \in 1 .. i : s[m] # AlterType(e[k])
      /\ \A r \in diff.renames, j \in DOMAIN x.columns, k \in DOMAIN e :
           x.columns[j].name = r.from /\ e[k].name = r.to => Fits(x.columns[j].type, e[k].type)
  BY DEF Typing
<1>9. ASSUME NEW j \in DOMAIN u.columns, NEW k \in DOMAIN e,
             u.columns[j].name = e[k].name, ~Fits(u.columns[j].type, e[k].type)
      PROVE  e[k].name \in diff.retyped /\ \A m \in 1 .. i + 1 : s[m] # AlterType(e[k])
  <2>1. CASE /\ j \in DOMAIN x.columns /\ u.columns[j].name = x.columns[j].name
             /\ u.columns[j].type = x.columns[j].type
             /\ t.op = "alterType" => x.columns[j].name # t.name
    <3>1. e[k].name \in diff.retyped /\ \A m \in 1 .. i : s[m] # AlterType(e[k])
      BY <1>8, <1>9, <2>1
    <3>2. t # AlterType(e[k])
      BY <1>9, <2>1 DEF AlterType
    <3>3. \A m \in 1 .. i + 1 : m \in 1 .. i \/ m = i + 1
      OBVIOUS
    <3> QED
      BY <1>1, <3>1, <3>2, <3>3
  <2>2. CASE /\ t.op = "createTable" /\ j \in DOMAIN t.columns
             /\ u.columns[j].name = t.columns[j].name /\ u.columns[j].type = Stored(t.columns[j].type)
    <3>1. u.columns[j].type = Stored(e[k].type)
      BY <1>5, <1>6, <1>9, <2>2
    <3> QED
      BY <1>9, <3>1 DEF Fits
  <2>3. CASE /\ t.op = "addColumn"
             /\ u.columns[j].name = t.column.name /\ u.columns[j].type = Stored(t.column.type)
    <3>1. u.columns[j].type = Stored(e[k].type)
      BY <1>5, <1>6, <1>9, <2>3
    <3> QED
      BY <1>9, <3>1 DEF Fits
  <2>4. CASE /\ t.op = "rename" /\ j \in DOMAIN x.columns /\ x.columns[j].name = t.from
             /\ u.columns[j].name = t.to /\ u.columns[j].type = x.columns[j].type
    <3>1. PICK r \in diff.renames : t.from = r.from /\ t.to = r.to
      BY <1>5, <2>4
    <3>2. x.columns[j].name = r.from /\ e[k].name = r.to
      BY <1>9, <2>4, <3>1
    <3>3. Fits(x.columns[j].type, e[k].type)
      BY <1>8, <1>9, <2>4, <3>1, <3>2
    <3> QED
      BY <1>9, <2>4, <3>3
  <2>5. CASE t.op = "alterType" /\ u.columns[j].name = t.name /\ u.columns[j].type = Stored(t.type)
    <3>1. PICK l \in DOMAIN e : t = AlterType(e[l])
      BY <1>5, <2>5
    <3>2. t.name = e[l].name /\ t.type = e[l].type
      BY <3>1 DEF AlterType
    <3>3. u.columns[j].type = Stored(e[k].type)
      BY <1>6, <1>9, <2>5, <3>2
    <3> QED
      BY <1>9, <3>3 DEF Fits
  <2> QED
    BY <1>4, <2>1, <2>2, <2>3, <2>4, <2>5 DEF ColumnOrigin
<1>10. ASSUME NEW r \in diff.renames, NEW j \in DOMAIN u.columns, NEW k \in DOMAIN e,
             u.columns[j].name = r.from, e[k].name = r.to
      PROVE  Fits(u.columns[j].type, e[k].type)
  <2>1. CASE /\ j \in DOMAIN x.columns /\ u.columns[j].name = x.columns[j].name
             /\ u.columns[j].type = x.columns[j].type
    <3>1. x.columns[j].name = r.from /\ e[k].name = r.to
      BY <1>10, <2>1
    <3>2. Fits(x.columns[j].type, e[k].type)
      BY <1>8, <1>10, <2>1, <3>1
    <3> QED
      BY <2>1, <3>2
  <2>2. r.from \notin NamesOf(e)
    BY <1>7
  <2>3. CASE t.op = "createTable" /\ j \in DOMAIN t.columns /\ u.columns[j].name = t.columns[j].name
    BY <1>5, <1>6, <1>10, <2>2, <2>3
  <2>4. CASE t.op = "addColumn" /\ u.columns[j].name = t.column.name
    BY <1>5, <1>6, <1>10, <2>2, <2>4
  <2>5. CASE t.op = "rename" /\ u.columns[j].name = t.to
    <3>1. PICK q \in diff.renames : t.to = q.to
      BY <1>5, <2>5
    <3>2. q.to \in NamesOf(e)
      BY DiffFacts, LikelyFacts, CandidateFacts DEF EntityOnly
    <3> QED
      BY <1>10, <2>2, <2>5, <3>1, <3>2
  <2>6. CASE t.op = "alterType" /\ u.columns[j].name = t.name
    <3>1. PICK l \in DOMAIN e : t = AlterType(e[l])
      BY <1>5, <2>6
    <3>2. t.name = e[l].name
      BY <3>1 DEF AlterType
    <3> QED
      BY <1>6, <1>10, <2>2, <2>6, <3>2
  <2> QED
    BY <1>4, <2>1, <2>3, <2>4, <2>5, <2>6 DEF ColumnOrigin
<1> QED
  BY <1>1, <1>2, <1>3, <1>9, <1>10 DEF Typing

Typed(e, x) ==
  \A k \in DOMAIN e, j \in DOMAIN x.columns :
    x.columns[j].name = e[k].name => Fits(x.columns[j].type, e[k].type)

LEMMA TypesArrive ==
  ASSUME NEW e \in Entities, NEW d, WellFormed(d), NEW over \in BOOLEAN, NEW u \in BOOLEAN,
         NEW p, p = Patch(e, Diff(e, d), over),
         RunEach(Run(d, None), Whole(p, u)).failed = None
  PROVE  Typed(e, RunEach(Run(d, None), Whole(p, u)).database)
<1>1. PICK diff : diff = Diff(e, d)
  OBVIOUS
<1>2. PICK s \in Seq(Statement) :
        /\ s = Whole(p, u) /\ Made(e, d, diff) \subseteq Values(s)
        /\ Values(s) \subseteq Made(e, d, diff) \cup {RenameColumn(r) : r \in diff.renames}
  BY <1>1, WholeValues
<1> DEFINE G == [i \in 0 .. Len(s) |-> Typing(e, diff, s, i)]
<1>3. Len(s) \in Nat /\ \A i \in 1 .. Len(s) : s[i] \in Statement /\ s[i] \in Values(s)
  BY <1>2 DEF Values
<1>4. G[0] = Typing(e, diff, s, 0) /\ G[Len(s)] = Typing(e, diff, s, Len(s))
  BY <1>3
<1>5. ASSUME NEW i \in 1 .. Len(s), NEW x \in G[i - 1], WellFormed(x), Accepts(x, s[i])
      PROVE  Effect(x, s[i]) \in G[i]
  <2>1. PICK n \in Nat : n = i - 1 /\ n + 1 = i
    <3>1. i - 1 \in Nat /\ (i - 1) + 1 = i
      BY <1>3
    <3> QED
      BY <3>1
  <2>2. G[i - 1] = Typing(e, diff, s, n) /\ G[i] = Typing(e, diff, s, n + 1)
    BY <1>3, <2>1
  <2>3. /\ x \in Typing(e, diff, s, n) /\ Accepts(x, s[n + 1])
        /\ s[n + 1] \in Statement
        /\ s[n + 1] \in Made(e, d, diff) \cup {RenameColumn(r) : r \in diff.renames}
    BY <1>2, <1>3, <1>5, <2>1, <2>2
  <2>4. Effect(x, s[n + 1]) \in Typing(e, diff, s, n + 1)
    BY <1>1, <1>5, <2>3, TypingStep
  <2> QED
    BY <2>1, <2>2, <2>4
<1>6. d \in Typing(e, diff, s, 0)
  <2>1. d \in Tables
    BY DEF Tables, WellFormed
  <2>2. ASSUME NEW j \in DOMAIN d.columns, NEW k \in DOMAIN e,
               d.columns[j].name = e[k].name, ~Fits(d.columns[j].type, e[k].type)
        PROVE  e[k].name \in diff.retyped
    <3>1. diff.retyped = Retyped(e, d)
      BY <1>1 DEF Diff
    <3> QED
      BY <2>2, <3>1 DEF Retyped, Fits
  <2>3. ASSUME NEW r \in diff.renames, NEW j \in DOMAIN d.columns, NEW k \in DOMAIN e,
               d.columns[j].name = r.from, e[k].name = r.to
        PROVE  Fits(d.columns[j].type, e[k].type)
    <3>1. Compatible(e, d, r.to, r.from)
      BY <1>1, DiffFacts, LikelyFacts, CandidateFacts
    <3>2. At(d.columns, r.from) = j /\ At(e, r.to) = k
      BY <2>3, AtUnique, EntityFacts DEF WellFormed
    <3> QED
      BY <3>1, <3>2 DEF Compatible, Fits
  <2>4. \A m \in 1 .. 0 : FALSE
    OBVIOUS
  <2> QED
    BY <2>1, <2>2, <2>3, <2>4 DEF Typing
<1> HIDE DEF G
<1>7. RunEach(Run(d, None), s).database \in Typing(e, diff, s, Len(s))
  BY <1>2, <1>4, <1>5, <1>6, Success
<1>8. PICK x \in Typing(e, diff, s, Len(s)) : x = RunEach(Run(d, None), Whole(p, u)).database
  BY <1>2, <1>7
<1>9. ASSUME NEW k \in DOMAIN e, NEW j \in DOMAIN x.columns,
             x.columns[j].name = e[k].name, ~Fits(x.columns[j].type, e[k].type)
      PROVE  FALSE
  <2>1. e[k].name \in diff.retyped /\ \A m \in 1 .. Len(s) : s[m] # AlterType(e[k])
    BY <1>9 DEF Typing
  <2>2. e[k] \in Declared(e, diff.retyped)
    BY <1>1, <2>1, DiffFacts, DeclaredFacts
  <2>3. AlterType(e[k]) \in Made(e, d, diff)
    BY <2>2, Zenon DEF Made
  <2> QED
    BY <1>2, <2>1, <2>3 DEF Values
<1> QED
  BY <1>8, <1>9 DEF Typed

(* Unless it drops an index, a patch keeps the indexes there were, on the  *)
(* columns they were on, and those it creates are there under their name;  *)
(* foreign keys it keeps in any case.                                      *)
Keeping(e, d, s, i) ==
  {x \in Tables :
     /\ d.indexes \subseteq x.indexes
     /\ \A k \in DOMAIN d.columns :
          /\ k \in DOMAIN x.columns
          /\ d.columns[k].name \in NamesOf(e) => x.columns[k].name = d.columns[k].name
     /\ \A m \in 1 .. i : s[m].op = "createIndex" => \E z \in x.indexes : z.name = s[m].index.name}
Referring(e, d, s, i) ==
  {x \in Tables :
     /\ d.foreignKeys \subseteq x.foreignKeys
     /\ x.exists /\ ~d.exists =>
          \A f \in EntityForeignKeys(e) : \E g \in x.foreignKeys : g.name = f.name
     /\ \A m \in 1 .. i :
          s[m].op = "addForeignKey" => \E g \in x.foreignKeys : g.name = s[m].foreignKey.name}

LEMMA KeepingStep ==
  ASSUME NEW e \in Entities, NEW d, WellFormed(d), NEW diff, diff = Diff(e, d),
         diff.indexMismatches = {}, NEW s, NEW i \in Nat, s[i + 1] \in Statement,
         s[i + 1] \in Made(e, d, diff) \cup {RenameColumn(r) : r \in diff.renames},
         NEW x \in Keeping(e, d, s, i), WellFormed(x), Accepts(x, s[i + 1])
  PROVE  Effect(x, s[i + 1]) \in Keeping(e, d, s, i + 1)
<1>1. PICK t \in Statement : t = s[i + 1]
  OBVIOUS
<1>2. PICK u : u = Effect(x, t)
  OBVIOUS
<1>3. WellFormed(u) /\ u \in Tables
  BY <1>1, <1>2, EffectType DEF Tables, WellFormed
<1>4. /\ t.op = "rename" => \E r \in diff.renames : t.from = r.from /\ t.to = r.to
      /\ t.op # "dropIndex"
  BY <1>1, MadeFacts
<1>5. /\ x.indexes \subseteq u.indexes
      /\ t.op = "createIndex" => \E z \in u.indexes : z.name = t.index.name
      /\ \A k \in DOMAIN x.columns :
           /\ k \in DOMAIN u.columns
           /\ \/ u.columns[k].name = x.columns[k].name
              \/ t.op = "rename" /\ x.columns[k].name = t.from
  BY <1>1, <1>2, <1>4, EffectFacts
<1>6. \A r \in diff.renames : r.from \notin NamesOf(e)
  BY DiffFacts, LikelyFacts, CandidateFacts DEF DatabaseOnly
<1>7. ASSUME NEW k \in DOMAIN d.columns
      PROVE  /\ k \in DOMAIN u.columns
             /\ d.columns[k].name \in NamesOf(e) => u.columns[k].name = d.columns[k].name
  <2>1. /\ k \in DOMAIN x.columns
        /\ d.columns[k].name \in NamesOf(e) => x.columns[k].name = d.columns[k].name
    BY DEF Keeping
  <2> QED
    BY <1>4, <1>5, <1>6, <2>1
<1>8. ASSUME NEW m \in 1 .. i + 1, s[m].op = "createIndex"
      PROVE  \E z \in u.indexes : z.name = s[m].index.name
  <2>1. CASE m = i + 1
    BY <1>1, <1>5, <1>8, <2>1
  <2>2. CASE m # i + 1
    <3>1. m \in 1 .. i
      BY <2>2
    <3>2. \E z \in x.indexes : z.name = s[m].index.name
      BY <1>8, <3>1 DEF Keeping
    <3> QED
      BY <1>5, <3>2
  <2> QED
    BY <2>1, <2>2
<1>9. d.indexes \subseteq u.indexes
  BY <1>5 DEF Keeping
<1> QED
  BY <1>1, <1>2, <1>3, <1>7, <1>8, <1>9 DEF Keeping

LEMMA ReferringStep ==
  ASSUME NEW e \in Entities, NEW d, WellFormed(d), NEW diff, diff = Diff(e, d),
         NEW s, NEW i \in Nat, s[i + 1] \in Statement,
         s[i + 1] \in Made(e, d, diff) \cup {RenameColumn(r) : r \in diff.renames},
         NEW x \in Referring(e, d, s, i), WellFormed(x), Accepts(x, s[i + 1])
  PROVE  Effect(x, s[i + 1]) \in Referring(e, d, s, i + 1)
<1>1. PICK t \in Statement : t = s[i + 1]
  OBVIOUS
<1>2. PICK u : u = Effect(x, t)
  OBVIOUS
<1>3. WellFormed(u) /\ u \in Tables
  BY <1>1, <1>2, EffectType DEF Tables, WellFormed
<1>4. t.op = "createTable" => t.columns = e
  BY <1>1, MadeFacts
<1>5. /\ x.foreignKeys \subseteq u.foreignKeys
      /\ t.op = "addForeignKey" => \E g \in u.foreignKeys : g.name = t.foreignKey.name
      /\ u.exists /\ ~x.exists => t.op = "createTable" /\ u = Created(t.columns)
  BY <1>1, <1>2, EffectFacts
<1>6. ASSUME u.exists, ~d.exists, NEW f \in EntityForeignKeys(e)
      PROVE  \E g \in u.foreignKeys : g.name = f.name
  <2>1. CASE x.exists
    BY <1>5, <1>6, <2>1 DEF Referring
  <2>2. CASE ~x.exists
    <3>1. u.foreignKeys = {PlaceForeignKey(e, g) : g \in EntityForeignKeys(e)}
      BY <1>4, <1>5, <1>6, <2>2, CreatedFacts
    <3>2. PlaceForeignKey(e, f) \in u.foreignKeys /\ PlaceForeignKey(e, f).name = f.name
      BY <3>1 DEF PlaceForeignKey
    <3> QED
      BY <3>2
  <2> QED
    BY <2>1, <2>2
<1>7. ASSUME NEW m \in 1 .. i + 1, s[m].op = "addForeignKey"
      PROVE  \E g \in u.foreignKeys : g.name = s[m].foreignKey.name
  <2>1. CASE m = i + 1
    BY <1>1, <1>5, <1>7, <2>1
  <2>2. CASE m # i + 1
    <3>1. m \in 1 .. i
      BY <2>2
    <3>2. \E g \in x.foreignKeys : g.name = s[m].foreignKey.name
      BY <1>7, <3>1 DEF Referring
    <3> QED
      BY <1>5, <3>2
  <2> QED
    BY <2>1, <2>2
<1>8. d.foreignKeys \subseteq u.foreignKeys
  BY <1>5 DEF Referring
<1> QED
  BY <1>1, <1>2, <1>3, <1>6, <1>7, <1>8 DEF Referring

LEMMA IndexesArrive ==
  ASSUME NEW e \in Entities, NEW d, WellFormed(d), NEW over \in BOOLEAN, NEW u \in BOOLEAN,
         NEW p, p = Patch(e, Diff(e, d), over), Diff(e, d).indexMismatches = {},
         RunEach(Run(d, None), Whole(p, u)).failed = None
  PROVE  NewIndexes(e, RunEach(Run(d, None), Whole(p, u)).database) = {}
<1>1. PICK diff : diff = Diff(e, d) /\ diff.indexMismatches = {}
  OBVIOUS
<1>2. PICK s \in Seq(Statement) :
        /\ s = Whole(p, u) /\ Made(e, d, diff) \subseteq Values(s)
        /\ Values(s) \subseteq Made(e, d, diff) \cup {RenameColumn(r) : r \in diff.renames}
  BY <1>1, WholeValues
<1> DEFINE G == [i \in 0 .. Len(s) |-> Keeping(e, d, s, i)]
<1>3. Len(s) \in Nat /\ \A i \in 1 .. Len(s) : s[i] \in Statement /\ s[i] \in Values(s)
  BY <1>2 DEF Values
<1>4. G[0] = Keeping(e, d, s, 0) /\ G[Len(s)] = Keeping(e, d, s, Len(s))
  BY <1>3
<1>5. ASSUME NEW i \in 1 .. Len(s), NEW x \in G[i - 1], WellFormed(x), Accepts(x, s[i])
      PROVE  Effect(x, s[i]) \in G[i]
  <2>1. PICK n \in Nat : n = i - 1 /\ n + 1 = i
    <3>1. i - 1 \in Nat /\ (i - 1) + 1 = i
      BY <1>3
    <3> QED
      BY <3>1
  <2>2. G[i - 1] = Keeping(e, d, s, n) /\ G[i] = Keeping(e, d, s, n + 1)
    BY <1>3, <2>1
  <2>3. /\ x \in Keeping(e, d, s, n) /\ Accepts(x, s[n + 1])
        /\ s[n + 1] \in Statement
        /\ s[n + 1] \in Made(e, d, diff) \cup {RenameColumn(r) : r \in diff.renames}
    BY <1>2, <1>3, <1>5, <2>1, <2>2
  <2>4. Effect(x, s[n + 1]) \in Keeping(e, d, s, n + 1)
    BY <1>1, <1>5, <2>3, KeepingStep
  <2> QED
    BY <2>1, <2>2, <2>4
<1>6. d \in Keeping(e, d, s, 0)
  <2>1. d \in Tables /\ \A m \in 1 .. 0 : FALSE
    BY DEF Tables, WellFormed
  <2> QED
    BY <2>1 DEF Keeping
<1> HIDE DEF G
<1>7. /\ RunEach(Run(d, None), s) \in Runs
      /\ RunEach(Run(d, None), s).database \in Keeping(e, d, s, Len(s))
  BY <1>2, <1>4, <1>5, <1>6, Success
<1>8. PICK x \in Keeping(e, d, s, Len(s)) :
        x = RunEach(Run(d, None), Whole(p, u)).database /\ WellFormed(x)
  BY <1>2, <1>7, RunFields DEF Keeping, Tables
<1>9. ASSUME NEW ix, CreateIndex(ix) \in Made(e, d, diff)
      PROVE  \E z \in x.indexes : z.name = ix.name
  <2>1. PICK m \in 1 .. Len(s) : s[m] = CreateIndex(ix)
    BY <1>2, <1>9 DEF Values
  <2>2. s[m].op = "createIndex" /\ s[m].index = ix
    BY <2>1 DEF CreateIndex
  <2>3. \E z \in x.indexes : z.name = s[m].index.name
    BY <2>2 DEF Keeping
  <2> QED
    BY <2>2, <2>3
<1>10. ASSUME NEW ix \in EntityIndexes(e)
       PROVE  \E y \in CatalogIndexes(x) : y.name = ix.name \/ Equivalent(ix, y)
  <2>1. CASE \E z \in x.indexes : z.name = ix.name
    BY <1>8, <2>1, CatalogFacts
  <2>2. CASE CreateIndex(ix) \in Made(e, d, diff)
    BY <1>9, <2>1, <2>2
  <2>3. CASE d.exists /\ ix \notin diff.newIndexes
    <3>1. diff.newIndexes = NewIndexes(e, d)
      BY <1>1, <2>3 DEF Diff
    <3>2. PICK y \in CatalogIndexes(d) : y.name = ix.name \/ Equivalent(ix, y)
      BY <2>3, <3>1 DEF NewIndexes
    <3>3. PICK z \in d.indexes :
            /\ y.name = z.name /\ y.using = z.using /\ y.where = z.where /\ y.unique = z.unique
            /\ z.on \in DOMAIN d.columns /\ y.on = d.columns[z.on].name
      BY CatalogFacts
    <3>4. z \in x.indexes
      BY DEF Keeping
    <3>5. CASE y.name = ix.name
      BY <2>1, <3>3, <3>4, <3>5
    <3>6. CASE Equivalent(ix, y)
      <4>1. ix.on = d.columns[z.on].name /\ ix.on \in NamesOf(e)
        BY <3>3, <3>6, DeclarationFacts DEF Equivalent
      <4>2. x.columns[z.on].name = ix.on
        BY <3>3, <4>1 DEF Keeping
      <4>3. PICK v \in CatalogIndexes(x) :
              /\ v.name = z.name /\ v.using = z.using /\ v.where = z.where /\ v.unique = z.unique
              /\ v.on = x.columns[z.on].name
        BY <1>8, <3>4, CatalogFacts
      <4>4. Equivalent(ix, v)
        BY <3>3, <3>6, <4>1, <4>2, <4>3 DEF Equivalent
      <4> QED
        BY <4>4
    <3> QED
      BY <3>2, <3>5, <3>6
  <2>4. \/ CreateIndex(ix) \in Made(e, d, diff)
        \/ d.exists /\ ix \notin diff.newIndexes
    BY Zenon DEF Made
  <2> QED
    BY <2>2, <2>3, <2>4
<1> QED
  BY <1>8, <1>10 DEF NewIndexes

(* Every foreign key of the entity is there, under its name.               *)
Refers(e, x) ==
  \A f \in EntityForeignKeys(e) : \E g \in x.foreignKeys : g.name = f.name

LEMMA ForeignKeysArrive ==
  ASSUME NEW e \in Entities, NEW d, WellFormed(d), NEW over \in BOOLEAN, NEW u \in BOOLEAN,
         NEW p, p = Patch(e, Diff(e, d), over),
         RunEach(Run(d, None), Whole(p, u)).failed = None,
         RunEach(Run(d, None), Whole(p, u)).database.exists
  PROVE  Refers(e, RunEach(Run(d, None), Whole(p, u)).database)
<1>1. PICK diff : diff = Diff(e, d)
  OBVIOUS
<1>2. PICK s \in Seq(Statement) :
        /\ s = Whole(p, u) /\ Made(e, d, diff) \subseteq Values(s)
        /\ Values(s) \subseteq Made(e, d, diff) \cup {RenameColumn(r) : r \in diff.renames}
  BY <1>1, WholeValues
<1> DEFINE G == [i \in 0 .. Len(s) |-> Referring(e, d, s, i)]
<1>3. Len(s) \in Nat /\ \A i \in 1 .. Len(s) : s[i] \in Statement /\ s[i] \in Values(s)
  BY <1>2 DEF Values
<1>4. G[0] = Referring(e, d, s, 0) /\ G[Len(s)] = Referring(e, d, s, Len(s))
  BY <1>3
<1>5. ASSUME NEW i \in 1 .. Len(s), NEW x \in G[i - 1], WellFormed(x), Accepts(x, s[i])
      PROVE  Effect(x, s[i]) \in G[i]
  <2>1. PICK n \in Nat : n = i - 1 /\ n + 1 = i
    <3>1. i - 1 \in Nat /\ (i - 1) + 1 = i
      BY <1>3
    <3> QED
      BY <3>1
  <2>2. G[i - 1] = Referring(e, d, s, n) /\ G[i] = Referring(e, d, s, n + 1)
    BY <1>3, <2>1
  <2>3. /\ x \in Referring(e, d, s, n) /\ Accepts(x, s[n + 1])
        /\ s[n + 1] \in Statement
        /\ s[n + 1] \in Made(e, d, diff) \cup {RenameColumn(r) : r \in diff.renames}
    BY <1>2, <1>3, <1>5, <2>1, <2>2
  <2>4. Effect(x, s[n + 1]) \in Referring(e, d, s, n + 1)
    BY <1>1, <1>5, <2>3, ReferringStep
  <2> QED
    BY <2>1, <2>2, <2>4
<1>6. d \in Referring(e, d, s, 0)
  <2>1. d \in Tables /\ \A m \in 1 .. 0 : FALSE
    BY DEF Tables, WellFormed
  <2> QED
    BY <2>1 DEF Referring
<1> HIDE DEF G
<1>7. RunEach(Run(d, None), s).database \in Referring(e, d, s, Len(s))
  BY <1>2, <1>4, <1>5, <1>6, Success
<1>8. PICK x \in Referring(e, d, s, Len(s)) :
        x = RunEach(Run(d, None), Whole(p, u)).database /\ x.exists
  BY <1>2, <1>7
<1>9. ASSUME NEW f \in EntityForeignKeys(e) PROVE \E g \in x.foreignKeys : g.name = f.name
  <2>1. CASE ~d.exists
    BY <1>8, <2>1 DEF Referring
  <2>2. CASE d.exists /\ f \in diff.newForeignKeys
    <3>1. AddForeignKey(f) \in Made(e, d, diff)
      BY <2>2, Zenon DEF Made
    <3>2. PICK m \in 1 .. Len(s) : s[m] = AddForeignKey(f)
      BY <1>2, <3>1 DEF Values
    <3>3. s[m].op = "addForeignKey" /\ s[m].foreignKey = f
      BY <3>2 DEF AddForeignKey
    <3>4. \E g \in x.foreignKeys : g.name = s[m].foreignKey.name
      BY <3>3 DEF Referring
    <3> QED
      BY <3>3, <3>4
  <2>3. CASE d.exists /\ f \notin diff.newForeignKeys
    <3>1. diff.newForeignKeys =
            {h \in EntityForeignKeys(e) : \A g \in d.foreignKeys : g.name # h.name}
      BY <1>1, <2>3 DEF Diff
    <3>2. \E g \in d.foreignKeys : g.name = f.name
      BY <2>3, <3>1
    <3> QED
      BY <3>2 DEF Referring
  <2> QED
    BY <2>1, <2>2, <2>3
<1> QED
  BY <1>8, <1>9 DEF Refers

(* The table has everything that is added with the entity e.               *)
Has(e, x, redone) ==
  /\ x.exists
  /\ NamesOf(e) \subseteq NamesOf(x.columns)
  /\ Typed(e, x)
  /\ NewIndexes(e, x) # {} => redone
  /\ Refers(e, x)

Redefines(p) == \E i \in DOMAIN p.review : p.review[i].op = "dropIndex"

(* It does where compare found nothing to do ...                           *)
LEMMA NoopHas ==
  ASSUME NEW e \in Entities, NEW d, WellFormed(d), Noop(Diff(e, d)), NEW redone
  PROVE  Has(e, d, redone)
<1>1. PICK diff : diff = Diff(e, d)
  OBVIOUS
<1>2. /\ ~diff.newTable /\ diff.newColumns = {} /\ diff.renames = {} /\ diff.retyped = {}
      /\ diff.newIndexes = {} /\ diff.newForeignKeys = {}
  BY <1>1 DEF Noop
<1>3. d.exists
  BY <1>1, <1>2, DiffFacts DEF WellFormed
<1>4. LikelyRenames(e, d) = {} /\ EntityOnly(e, d) \ Renamed(e, d) = {}
  BY <1>1, <1>2, <1>3 DEF Diff
<1>5. Renamed(e, d) = {}
  BY <1>4 DEF Renamed
<1>6. NamesOf(e) \subseteq NamesOf(d.columns)
  BY <1>4, <1>5 DEF EntityOnly
<1>7. Retyped(e, d) = {} /\ NewIndexes(e, d) = {}
  BY <1>1, <1>2, <1>3 DEF Diff
<1>8. {f \in EntityForeignKeys(e) : \A g \in d.foreignKeys : g.name # f.name} = {}
  BY <1>1, <1>2, <1>3 DEF Diff
<1>9. Refers(e, d)
  BY <1>8 DEF Refers
<1>10. Typed(e, d)
  BY <1>7 DEF Typed, Retyped, Fits
<1> QED
  BY <1>3, <1>6, <1>7, <1>9, <1>10 DEF Has

(* ... and after the patch of a comparison has run on what was compared.   *)
LEMMA PatchHas ==
  ASSUME NEW e \in Entities, NEW d, WellFormed(d), NEW u \in BOOLEAN,
         NEW p, p = Patch(e, Diff(e, d), FALSE), RunPatch(d, p, u).failed = None
  PROVE  Has(e, RunPatch(d, p, u).database, Redefines(p))
<1>1. p \in PatchType
  BY PatchParts
<1>2. PICK run \in Runs : run = RunEach(Run(d, None), Whole(p, u)) /\ Stage(run, Arrived(e), Reasons(p))
  BY WholeStage
<1>3. run = RunPatch(d, p, u) /\ run.failed = None
  BY <1>1, <1>2, WholeRun
<1>4. PICK x : x = run.database /\ WellFormed(x)
  BY <1>2, RunFields
<1>5. x.exists /\ NamesOf(e) \subseteq NamesOf(x.columns)
  BY <1>2, <1>3, <1>4 DEF Stage, Arrived
<1>6. Typed(e, x)
  BY <1>2, <1>3, <1>4, TypesArrive
<1>7. Refers(e, x)
  <2>1. /\ FALSE \in BOOLEAN
        /\ RunEach(Run(d, None), Whole(p, u)).failed = None
        /\ RunEach(Run(d, None), Whole(p, u)).database.exists
    BY <1>2, <1>3, <1>4, <1>5
  <2>2. Refers(e, RunEach(Run(d, None), Whole(p, u)).database)
    BY <2>1, ForeignKeysArrive
  <2> QED
    BY <1>2, <1>4, <2>2
<1>8. ASSUME NewIndexes(e, x) # {} PROVE Redefines(p)
  <2>1. ASSUME Diff(e, d).indexMismatches = {} PROVE FALSE
    <3>1. RunEach(Run(d, None), Whole(p, u)).failed = None /\ FALSE \in BOOLEAN
      BY <1>2, <1>3
    <3>2. NewIndexes(e, RunEach(Run(d, None), Whole(p, u)).database) = {}
      BY <2>1, <3>1, IndexesArrive
    <3> QED
      BY <1>2, <1>4, <1>8, <3>2
  <2>2. \A y \in Diff(e, d).indexMismatches : \E i \in DOMAIN p.review : p.review[i].op = "dropIndex"
    BY WholeValues
  <2> QED
    BY <2>1, <2>2 DEF Redefines
<1> QED
  BY <1>3, <1>4, <1>5, <1>6, <1>7, <1>8 DEF Has

(* A clean gate: what the entity declares now, the snapshot declared.      *)
LEMMA GateFacts ==
  ASSUME NEW e \in Entities, NEW n \in Entities, entity = e, snapshot = n, GateIsClean
  PROVE  /\ NamesOf(e) \subseteq NamesOf(n)
         /\ \A i \in DOMAIN e, j \in DOMAIN n :
              e[i].name = n[j].name => Comparable(e[i].type) = Comparable(n[j].type)
         /\ EntityIndexes(e) \subseteq EntityIndexes(n)
         /\ \A f \in EntityForeignKeys(e) : \E g \in EntityForeignKeys(n) : g.name = f.name
<1>1. PICK c : c = Committed
  OBVIOUS
<1>2. /\ c.exists
      /\ c.columns = [i \in DOMAIN n |-> Column(n[i].name, n[i].type, n[i].nullable)]
      /\ c.indexes = {PlaceIndex(n, x, x.where) : x \in EntityIndexes(n)}
      /\ c.foreignKeys = Created(n).foreignKeys
  BY <1>1 DEF Committed, Table
<1>3. PICK diff : diff = Diff(e, c) /\ Noop(diff) /\ diff.indexMismatches = {}
  BY <1>1 DEF GateIsClean, IsDriftClean
<1>4. /\ diff.newColumns = {} /\ diff.renames = {} /\ diff.retyped = {}
      /\ diff.newIndexes = {} /\ diff.newForeignKeys = {}
  BY <1>3 DEF Noop
<1>5. LikelyRenames(e, c) = {} /\ EntityOnly(e, c) \ Renamed(e, c) = {}
  BY <1>2, <1>3, <1>4 DEF Diff
<1>6. /\ Retyped(e, c) = {} /\ NewIndexes(e, c) = {} /\ IndexMismatches(e, c) = {}
      /\ {f \in EntityForeignKeys(e) : \A g \in c.foreignKeys : g.name # f.name} = {}
  BY <1>2, <1>3, <1>4 DEF Diff
<1>7. /\ NamesOf(c.columns) = NamesOf(n) /\ DOMAIN c.columns = DOMAIN n
      /\ \A j \in DOMAIN n : c.columns[j] = Column(n[j].name, n[j].type, n[j].nullable)
      /\ c.foreignKeys = {PlaceForeignKey(n, f) : f \in EntityForeignKeys(n)}
  <2>1. /\ DOMAIN c.columns = DOMAIN n
        /\ \A j \in DOMAIN n : c.columns[j] = Column(n[j].name, n[j].type, n[j].nullable)
    BY <1>2
  <2>2. ASSUME NEW j \in DOMAIN n PROVE c.columns[j].name = n[j].name
    <3>1. PICK a, t, l : a = n[j].name /\ t = n[j].type /\ l = n[j].nullable
      OBVIOUS
    <3>2. c.columns[j] = [name |-> a, type |-> t, nullable |-> l]
      BY <2>1, <3>1 DEF Column
    <3> QED
      BY <3>1, <3>2
  <2>3. NamesOf(c.columns) = NamesOf(n)
    BY <2>1, <2>2 DEF NamesOf
  <2>4. c.foreignKeys = {PlaceForeignKey(n, f) : f \in EntityForeignKeys(n)}
    BY <1>2, CreatedFacts
  <2> QED
    BY <2>1, <2>3, <2>4
<1>8. NamesOf(e) \subseteq NamesOf(n)
  BY <1>5, <1>7 DEF Renamed, EntityOnly
<1>9. \A j \in DOMAIN n : c.columns[j].name = n[j].name /\ c.columns[j].type = n[j].type
  <2> SUFFICES ASSUME NEW j \in DOMAIN n
               PROVE  c.columns[j].name = n[j].name /\ c.columns[j].type = n[j].type
    OBVIOUS
  <2>1. PICK a, t, l : a = n[j].name /\ t = n[j].type /\ l = n[j].nullable
    OBVIOUS
  <2>2. c.columns[j] = Column(a, t, l)
    BY <1>7, <2>1
  <2> QED
    BY <2>1, <2>2 DEF Column
<1>10. ASSUME NEW i \in DOMAIN e, NEW j \in DOMAIN n, e[i].name = n[j].name
       PROVE  Comparable(e[i].type) = Comparable(n[j].type)
  BY <1>6, <1>7, <1>9, <1>10 DEF Retyped
<1>11. ASSUME NEW f \in EntityForeignKeys(e)
       PROVE  \E g \in EntityForeignKeys(n) : g.name = f.name
  <2>1. PICK h \in c.foreignKeys : h.name = f.name
    BY <1>6
  <2>2. PICK g \in EntityForeignKeys(n) : h = PlaceForeignKey(n, g)
    BY <1>7, <2>1
  <2> QED
    BY <2>1, <2>2 DEF PlaceForeignKey
<1>12. ASSUME NEW y \in CatalogIndexes(c)
       PROVE  \E x \in EntityIndexes(n) : /\ y.name = x.name /\ y.on = x.on /\ y.using = x.using
                                          /\ y.where = x.where /\ y.unique = x.unique
  <2>1. PICK z \in c.indexes : y = [z EXCEPT !.on = c.columns[z.on].name]
    BY DEF CatalogIndexes
  <2>2. PICK x \in EntityIndexes(n) : z = PlaceIndex(n, x, x.where)
    BY <1>2, <2>1
  <2>3. /\ z.name = x.name /\ z.on = At(n, x.on) /\ z.using = x.using /\ z.where = x.where
        /\ z.unique = x.unique
    BY <2>2 DEF PlaceIndex
  <2>4. /\ y.name = z.name /\ y.using = z.using /\ y.where = z.where /\ y.unique = z.unique
        /\ y.on = c.columns[z.on].name
    BY <2>1, <2>2 DEF PlaceIndex
  <2>5. At(n, x.on) \in DOMAIN n /\ n[At(n, x.on)].name = x.on
    BY DeclarationFacts, AtFacts
  <2>6. c.columns[z.on].name = x.on
    BY <1>9, <2>3, <2>5
  <2> QED
    BY <2>3, <2>4, <2>6
<1>13. ASSUME NEW ix \in EntityIndexes(e) PROVE ix \in EntityIndexes(n)
  <2>1. PICK y \in CatalogIndexes(c) : y.name = ix.name \/ Equivalent(ix, y)
    BY <1>6 DEF NewIndexes
  <2>2. PICK x \in EntityIndexes(n) : /\ y.name = x.name /\ y.on = x.on /\ y.using = x.using
                                      /\ y.where = x.where /\ y.unique = x.unique
    BY <1>12
  <2>3. PICK a \in DOMAIN e : ix = IndexOf(e[a])
    BY DEF EntityIndexes
  <2>4. PICK b \in DOMAIN n : x = IndexOf(n[b])
    BY DEF EntityIndexes
  <2>5. CASE y.name = ix.name
    <3>1. ~Redefined(ix, y)
      BY <1>6, <2>5 DEF IndexMismatches
    <3>2. ix.using = x.using /\ ix.on = x.on /\ ix.where = x.where /\ ix.name = x.name
      BY <2>2, <2>5, <3>1 DEF Redefined
    <3>3. ix.unique = x.unique
      BY <2>3, <2>4, <3>2 DEF IndexOf
    <3> QED
      BY <2>3, <2>4, <3>2, <3>3 DEF IndexOf
  <2>6. CASE Equivalent(ix, y)
    <3>1. /\ ix.unique = x.unique /\ ix.using = x.using /\ ix.on = x.on
          /\ Normal(ix.where) = Normal(x.where)
      BY <2>2, <2>6 DEF Equivalent
    <3>2. ix.where \in {"", "predicate"} /\ x.where \in {"", "predicate"}
      BY <2>3, <2>4 DEF IndexOf
    <3>3. ix.where = x.where
      BY <3>1, <3>2 DEF Normal
    <3>4. ix.name = <<ix.on, IF ix.unique THEN "uq" ELSE "idx">>
      BY <2>3 DEF IndexOf
    <3>5. x.name = <<x.on, IF x.unique THEN "uq" ELSE "idx">>
      BY <2>4 DEF IndexOf
    <3> QED
      BY <2>3, <2>4, <3>1, <3>3, <3>4, <3>5 DEF IndexOf
  <2> QED
    BY <2>1, <2>5, <2>6
<1> QED
  BY <1>8, <1>10, <1>11, <1>13

(* Two declared types that compare equal are equal, but for the length of a*)
(* varchar, which the catalog's type is not compared by either.            *)
LEMMA FitsAlike ==
  ASSUME NEW type, NEW h \in Types, NEW g \in Types, Comparable(h) = Comparable(g), Fits(type, g)
  PROVE  Fits(type, h)
<1>1. CASE Comparable(g) = Comparable(type)
  BY <1>1 DEF Fits
<1>2. CASE type = Stored(g)
  <2>1. /\ h \in [base: STRING, typmod: STRING, at: {"typname"}]
        /\ g \in [base: STRING, typmod: STRING, at: {"typname"}]
        /\ Stored(g) = [base |-> g.base, typmod |-> g.typmod, at |-> "formatType"]
    BY StoredFacts
  <2>2. h.base = g.base /\ Comparable(h).typmod = Comparable(g).typmod
    BY DEF Comparable
  <2>3. CASE g.base = "varchar"
    <3> type.base = "varchar"
      BY <1>2, <2>1, <2>3
    <3>1. Comparable(type) = [base |-> "varchar", typmod |-> ""]
      BY DEF Comparable
    <3> h.base = "varchar"
      BY <2>2, <2>3
    <3>2. Comparable(h) = [base |-> "varchar", typmod |-> ""]
      BY DEF Comparable
    <3> QED
      BY <3>1, <3>2 DEF Fits
  <2>4. CASE g.base # "varchar"
    <3>1. h.typmod = g.typmod
      BY <2>1, <2>2, <2>4 DEF Comparable
    <3>2. h = g
      BY <2>1, <2>2, <3>1
    <3> QED
      BY <1>2, <3>2 DEF Fits
  <2> QED
    BY <2>3, <2>4
<1> QED
  BY <1>1, <1>2 DEF Fits

LEMMA GateTransfers ==
  ASSUME NEW e \in Entities, NEW n \in Entities, entity = e, snapshot = n, GateIsClean,
         NEW x, WellFormed(x), NEW redone, Has(n, x, redone)
  PROVE  Has(e, x, redone)
<1>1. /\ NamesOf(e) \subseteq NamesOf(n)
      /\ \A i \in DOMAIN e, j \in DOMAIN n :
              e[i].name = n[j].name => Comparable(e[i].type) = Comparable(n[j].type)
      /\ EntityIndexes(e) \subseteq EntityIndexes(n)
      /\ \A f \in EntityForeignKeys(e) : \E g \in EntityForeignKeys(n) : g.name = f.name
  BY GateFacts
<1>2. /\ x.exists /\ NamesOf(n) \subseteq NamesOf(x.columns) /\ Typed(n, x)
      /\ NewIndexes(n, x) # {} => redone
      /\ Refers(n, x)
  BY DEF Has
<1>3. ASSUME NEW i \in DOMAIN e, NEW j \in DOMAIN x.columns, x.columns[j].name = e[i].name
      PROVE  Fits(x.columns[j].type, e[i].type)
  <2>1. e[i].name \in NamesOf(n)
    BY <1>1 DEF NamesOf
  <2>2. PICK k \in DOMAIN n : n[k].name = e[i].name
    BY <2>1 DEF NamesOf
  <2>3. Fits(x.columns[j].type, n[k].type)
    BY <1>2, <1>3, <2>2 DEF Typed
  <2>4. /\ e[i].type \in Types /\ n[k].type \in Types
        /\ Comparable(e[i].type) = Comparable(n[k].type)
    BY <1>1, <2>2, EntityFacts
  <2> QED
    BY <2>3, <2>4, FitsAlike
<1>4. Typed(e, x)
  BY <1>3 DEF Typed
<1>5. NewIndexes(e, x) \subseteq NewIndexes(n, x)
  BY <1>1 DEF NewIndexes
<1>6. Refers(e, x)
  <2> SUFFICES ASSUME NEW f \in EntityForeignKeys(e) PROVE \E g \in x.foreignKeys : g.name = f.name
    BY DEF Refers
  <2>1. PICK h \in EntityForeignKeys(n) : h.name = f.name
    BY <1>1
  <2> QED
    BY <1>2, <2>1 DEF Refers
<1> QED
  BY <1>1, <1>2, <1>4, <1>5, <1>6 DEF Has

LEMMA HasShows ==
  ASSUME NEW e \in Entities, NEW x, WellFormed(x), NEW redone, Has(e, x, redone)
  PROVE  LET diff == Diff(e, x)
         IN  /\ ~diff.newTable
             /\ diff.newColumns = {} /\ diff.renames = {}
             /\ AsDeclared(e, x, diff.retyped)
             /\ diff.newIndexes # {} => redone
             /\ diff.newForeignKeys = {}
<1>1. PICK diff : diff = Diff(e, x)
  OBVIOUS
<1>2. x.exists /\ EntityOnly(e, x) = {}
  BY DEF Has, EntityOnly
<1>3. ~diff.newTable
  BY <1>1, <1>2, DiffFacts
<1>4. diff.newColumns = {}
  BY <1>1, <1>2, DiffFacts
<1>5. diff.renames = {}
  BY <1>1, <1>2, DiffFacts, LikelyFacts, CandidateFacts
<1>6. diff.retyped = Retyped(e, x) /\ diff.newIndexes = NewIndexes(e, x)
  BY <1>1, <1>2 DEF Diff, Has
<1>8. AsDeclared(e, x, Retyped(e, x))
  <2> SUFFICES ASSUME NEW i \in DOMAIN e, NEW j \in DOMAIN x.columns,
                      x.columns[j].name = e[i].name, e[i].name \in Retyped(e, x)
               PROVE  x.columns[j].type = Stored(e[i].type)
    BY DEF AsDeclared
  <2>1. PICK k \in DOMAIN e : /\ e[k].name = e[i].name
                              /\ \E l \in DOMAIN x.columns :
                                   /\ e[k].name = x.columns[l].name
                                   /\ Comparable(e[k].type) # Comparable(x.columns[l].type)
    BY DEF Retyped
  <2>2. k = i
    BY <2>1, EntityFacts DEF Distinct
  <2>3. \A l \in DOMAIN x.columns : x.columns[l].name = e[i].name => l = j
    BY DEF WellFormed, Distinct
  <2>4. Comparable(e[i].type) # Comparable(x.columns[j].type)
    BY <2>1, <2>2, <2>3
  <2>5. Fits(x.columns[j].type, e[i].type)
    BY DEF Has, Typed
  <2> QED
    BY <2>4, <2>5 DEF Fits
<1>7. diff.newForeignKeys = {}
  <2>1. diff.newForeignKeys = {f \in EntityForeignKeys(e) : \A g \in x.foreignKeys : g.name # f.name}
    BY <1>1, <1>2 DEF Diff
  <2> QED
    BY <2>1 DEF Has, Refers
<1> QED
  BY <1>1, <1>3, <1>4, <1>5, <1>6, <1>7, <1>8 DEF Has

(* With no patch pending, the table has what the snapshot declares; with   *)
(* one, the patch was made for just that, and runs as if for the first     *)
(* time.                                                                   *)
Delivered ==
  ~skipped /\ snapshot # <<>> =>
    \/ patches = <<>> /\ Has(snapshot, database, redefined)
    \/ \E d \in Tables : /\ patches = <<Patch(snapshot, Diff(snapshot, d), FALSE)>>
                         /\ Before(patches[1], d, database, failed)

LEMMA DeliveredStep == TypeOK /\ Delivered /\ [Next]_vars => Delivered'
<1> SUFFICES ASSUME TypeOK, Delivered, [Next]_vars, ~skipped', snapshot' # <<>>
             PROVE  \/ patches' = <<>> /\ Has(snapshot', database', redefined')
                    \/ \E d \in Tables :
                         /\ patches' = <<Patch(snapshot', Diff(snapshot', d), FALSE)>>
                         /\ Before(patches'[1], d, database', failed')
  BY DEF Delivered
<1>0. /\ entity \in Entities /\ snapshot \in Entities /\ WellFormed(database)
      /\ patches \in Seq(PatchType)
      /\ failed # None => patches # <<>>
  BY DEF TypeOK, PatchType
<1>1. CASE Edit \/ UNCHANGED vars
  <2>1. UNCHANGED <<database, snapshot, patches, failed, skipped, redefined>>
    BY <1>1 DEF Edit, vars
  <2> QED
    BY <2>1 DEF Delivered
<1>2. CASE Compare
  <2>1. patches = <<>> /\ failed = None
    BY <1>0, <1>2 DEF Compare
  <2> DEFINE p == Patch(entity, Diff(entity, database), FALSE)
  <2>2. /\ patches' = IF Noop(Diff(entity, database)) THEN patches
                      ELSE Append(patches, Patch(entity, Diff(entity, database), patches # <<>>))
        /\ snapshot' = entity /\ database' = database /\ failed' = failed
    BY <1>2 DEF Compare
  <2>3. CASE Noop(Diff(entity, database))
    <3>1. Has(entity, database, redefined')
      BY <1>0, <2>3, NoopHas
    <3> QED
      BY <2>1, <2>2, <2>3, <3>1
  <2>4. CASE ~Noop(Diff(entity, database))
    <3>1. p \in PatchType
      BY <1>0, PatchParts
    <3>2. (patches # <<>>) = FALSE
      BY <2>1
    <3>3. patches' = Append(patches, p)
      BY <2>2, <2>4, <3>2
    <3>4. p = Patch(snapshot', Diff(snapshot', database'), FALSE) /\ database' \in Tables
      BY <1>0, <2>2, TablesAre
    <3> HIDE DEF p
    <3>5. patches' = <<p>> /\ patches'[1] = p
      BY <2>1, <3>1, <3>3
    <3>6. Before(p, database', database', failed')
      BY <2>1, <2>2 DEF Before
    <3> QED
      BY <3>4, <3>5, <3>6
  <2> QED
    BY <2>3, <2>4
<1>3. CASE Apply
  <2>1. /\ patches # <<>> /\ snapshot' = snapshot /\ skipped' = skipped
        /\ redefined' = Redefines(Head(patches))
    BY <1>3 DEF Apply, Redefines
  <2>2. PICK d \in Tables : /\ patches = <<Patch(snapshot, Diff(snapshot, d), FALSE)>>
                            /\ Before(patches[1], d, database, failed)
    BY <2>1 DEF Delivered
  <2>3. WellFormed(d)
    BY TablesAre
  <2>4. PICK p \in PatchType : p = Patch(snapshot, Diff(snapshot, d), FALSE)
    BY <1>0, <2>3, PatchParts
  <2>5. Head(patches) = p /\ Tail(patches) = <<>> /\ patches[1] = p /\ patches = <<p>>
    BY <2>2, <2>4
  <2>6. PICK u \in BOOLEAN :
          /\ database' = RunPatch(database, p, u).database
          /\ failed' = RunPatch(database, p, u).failed
          /\ patches' = IF RunPatch(database, p, u).failed = None THEN Tail(patches) ELSE patches
    BY <1>3, <2>5 DEF Apply
  <2>7. RunPatch(database, p, u) = RunPatch(d, p, u)
    <3>1. Additive(p.safe) /\ Additive(p.notx)
      BY <1>0, <2>3, <2>4, PatchAdds
    <3> QED
      BY <2>2, <2>3, <2>5, <3>1, Again
  <2>8. CASE RunPatch(d, p, u).failed = None
    <3>1. Has(snapshot, RunPatch(d, p, u).database, Redefines(p))
      BY <1>0, <2>3, <2>4, <2>8, PatchHas
    <3> QED
      BY <2>1, <2>5, <2>6, <2>7, <2>8, <3>1
  <2>9. CASE RunPatch(d, p, u).failed # None
    <3>1. Before(p, d, database', failed')
      BY <2>6, <2>7, <2>9 DEF Before
    <3> QED
      BY <2>1, <2>4, <2>5, <2>6, <2>7, <2>9, <3>1
  <2> QED
    BY <2>8, <2>9
<1>4. CASE GiveUp
  BY <1>4 DEF GiveUp
<1> QED
  BY <1>1, <1>2, <1>3, <1>4 DEF Next

(* When the snapshot gate is clean and every patch ran, none given up and  *)
(* none written over a pending one, the database lacks no table, column or *)
(* foreign key of the entity, no index unless the patch redefined the one  *)
(* that stood in for it, and no type: a column that still compares as      *)
(* retyped has the declared type.  `compare` leaves nothing out of a patch *)
(* but what its test for "nothing to do" ignores as well, and a patch that *)
(* failed brings it at a later try.                                        *)
THEOREM WhatShipsArrives == Spec => []ShippedEntitiesArrive
<1>1. Init => Delivered
  BY DEF Init, Delivered
<1>2. TypeOK /\ Delivered => ShippedEntitiesArrive
  <2> SUFFICES ASSUME TypeOK, Delivered, GateIsClean, patches = <<>>, ~skipped
               PROVE  LET diff == Diff(entity, database)
                      IN  /\ ~diff.newTable
                          /\ diff.newColumns = {} /\ diff.renames = {}
                          /\ AsDeclared(entity, database, diff.retyped)
                          /\ diff.newIndexes # {} => redefined
                          /\ diff.newForeignKeys = {}
    BY DEF ShippedEntitiesArrive
  <2>1. /\ entity \in Entities /\ snapshot \in Entities /\ WellFormed(database)
        /\ snapshot # <<>>
    BY DEF TypeOK, GateIsClean
  <2>2. \A p : patches # <<p>>
    OBVIOUS
  <2>3. Has(snapshot, database, redefined)
    BY <2>1, <2>2 DEF Delivered
  <2>4. Has(entity, database, redefined)
    BY <2>1, <2>3, GateTransfers
  <2> QED
    BY <2>1, <2>4, HasShows
<1> QED
  BY <1>1, <1>2, DeliveredStep, TypeCorrect, PTL DEF Spec
=============================================================================
