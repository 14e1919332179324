\* Two writers of every kind, two unique groups, one of which the statement can name;
\* conflictKeys and matchBy name either of them or both.
SPECIFICATION Spec
CONSTANTS
  Writers = {v, w}
  Groups = {"code", "slug"}
  Bindable = {"code"}
  KeySets = {{"code"}, {"slug"}}
  Null = "null"
  Batches <- MCBatches
  Items <- MCItems
  Kinds = {"add", "ignore", "addMany", "update"}
  MaxVer = 1
SYMMETRY Symmetry
PROPERTIES
  MissesAreDeserved
  ConflictsAreDeserved
  RawErrorsHaveAReason
