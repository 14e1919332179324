\* The audit trail of one row under every kind of operation; both writers audit.
SPECIFICATION Spec
CONSTANTS
  Rows = {r1}
  Writers = {w1, w2}
  Kinds = {"update", "delete", "restore", "hardDelete"}
  Versioned = TRUE
  Unstamped = {}
  Auditors = {w1, w2}
  Repeats = FALSE
  Lossy = TRUE
  Reusable = {}
  Paired = {}
  MaxGen <- RowBounds
  Often = {r1}
  Bound = 3
SYMMETRY Symmetry
INVARIANTS
  AuditInv
  AuditIsFaithful
