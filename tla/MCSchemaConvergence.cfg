\* A table of two columns, edited up to three times; patches may pile up.
SPECIFICATION Spec
CONSTANTS
  Names = {1, 2, 3, 4}
  Types <- HintTypes
  Casts <- AssignmentCasts
  Rules = {"none", "restrict", "cascade"}
  Columns <- Declarations
  Born <- TwoColumns
  MaxEdits = 3
  MaxColumns = 3
  MaxPending = 2
INVARIANTS
  CleanMeansIntended
  ShippedEntitiesArrive
  FailuresHaveReasons
PROPERTY NothingIsDropped
CHECK_DEADLOCK FALSE
