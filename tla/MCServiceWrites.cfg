\* Two callers and two rows, up to two writes of every kind, in and out of transactions.
SPECIFICATION Spec
CONSTANTS
  Callers = {a, b}
  Keys = {k, l}
  Ops = {"create", "update", "delete", "restore", "purge", "duplicate", "bulkDelete", "bulkRestore"}
  MaxVer = 2
  MaxWrites = 2
  Faults = TRUE
SYMMETRY Symmetry
INVARIANTS
  HooksFollowCommits
  HistoriesAreUnbroken
  NoCallIsStuck
PROPERTY DuplicatesAreCounted
CHECK_DEADLOCK FALSE
