------------------------- MODULE MCSchemaConvergence -------------------------
(***************************************************************************)
(* SchemaConvergence for a table born with two columns, and declarations   *)
(* that differ in one aspect, or two, from a plain one.                    *)
(***************************************************************************)
EXTENDS SchemaConvergence

Type(base, typmod) == [base |-> base, typmod |-> typmod, at |-> "typname"]
Text == Type("text", "")
HintTypes ==
  {Text, Type("int4", ""), Type("varchar", "64"), Type("varchar", "100"), Type("numeric", "12,4")}

(* The casts that PostgreSQL makes when it assigns.                        *)
AssignmentCasts ==
  ({"int4", "numeric", "varchar"} \X {"text"}) \cup ({"int4", "numeric", "text"} \X {"varchar"})
    \cup {<<"int4", "numeric">>, <<"numeric", "int4">>}

Plain(n) == [name |-> n, type |-> Text, nullable |-> TRUE, index |-> "none", rule |-> "none"]
TwoColumns == <<Plain(1), [Plain(2) EXCEPT !.index = "btree"]>>

Declarations ==
  {Plain(1)}
    \cup {[Plain(1) EXCEPT !.type = Type("varchar", n)] : n \in {"64", "100"}}
    \cup {[Plain(2) EXCEPT !.index = x] : x \in {"btree", "hash"}}
    \cup {[Plain(2) EXCEPT !.type = Type("int4", ""), !.nullable = FALSE],
          [Plain(2) EXCEPT !.type = Type("numeric", "12,4"), !.index = "unique"]}
    \cup {[Plain(3) EXCEPT !.rule = "restrict"],
          [Plain(3) EXCEPT !.rule = "cascade", !.index = "btree", !.nullable = FALSE],
          [Plain(4) EXCEPT !.index = "partial"]}
=============================================================================
