\* Two keys, two buffered operations of every kind, one more writer.
SPECIFICATION Spec
CONSTANTS
  Keys = {k, l}
  Kinds = {"add", "update", "delete", "restore", "hardDelete", "find"}
  MaxOps = 2
  MaxVer = 1
  MaxId = 5
  Exact = 4
  Faults = TRUE
SYMMETRY Symmetry
INVARIANTS
  HandlesSettle
  HandlesTellTheTruth
  AbortsAreDeserved
PROPERTY CommitIsSerial
CHECK_DEADLOCK FALSE
