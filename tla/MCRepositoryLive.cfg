\* Liveness: no symmetry, two rows changed up to twice, one writer probes two fields.
SPECIFICATION FairSpec
CONSTANTS
  Rows = {r1, r2}
  Writers = {w1, w2}
  Kinds = {"update", "hardDelete"}
  Versioned = TRUE
  Unstamped = {}
  Auditors = {}
  Repeats = TRUE
  Lossy = TRUE
  Reusable = {}
  Paired = {w2}
  MaxGen <- RowBounds
  Often = {}
  Bound = 2
PROPERTY OperationsEnd
