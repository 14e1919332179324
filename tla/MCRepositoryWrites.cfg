\* Two writers, of whom one gives the id too; r1, which may be inserted again, changes
\* up to four times, r2 twice.
SPECIFICATION Spec
CONSTANTS
  Rows = {r1, r2}
  Writers = {w1, w2}
  Kinds = {"update", "hardDelete"}
  Versioned = TRUE
  Unstamped = {}
  Auditors = {}
  Repeats = FALSE
  Lossy = TRUE
  Reusable = {r1}
  Paired = {w2}
  MaxGen <- RowBounds
  Often = {r1}
  Bound = 4
INVARIANTS
  WriteInv
  ErrorsAreDeserved
  SuccessIsComplete
PROPERTIES
  ImplementsStore
  NoLostUpdate
