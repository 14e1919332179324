--------------------------- MODULE MCDalLifecycle ---------------------------
(***************************************************************************)
(* DalLifecycle with two configurations of different databases.            *)
(***************************************************************************)
EXTENDS DalLifecycle

MCConfigs ==
  {[url |-> "a", primary |-> "s", schemas |-> {"s"}, sharedTables |-> {}],
   [url |-> "b", primary |-> "t", schemas |-> {"t"}, sharedTables |-> {"rates"}]}

(* A platform table, once in the first schema of whoever asks and once in  *)
(* that of a, and a table that b shares in a schema that nobody declares.  *)
MCEntities ==
  {[schema |-> "", table |-> "translations"],
   [schema |-> "s", table |-> "translations"],
   [schema |-> "x", table |-> "rates"]}
=============================================================================
