\* Two runners and an administrator who interferes at any moment.
SPECIFICATION FairSpec
CONSTANTS
  Runners = {a, b}
  NoRunner = NoRunner
  N = 3
  Segments = 2
  Racing = TRUE
  Releases <- SomeReleases
  Review <- ReviewPatches
  Cleared <- ClearedPatches
  Mixed <- MixedPatches
INVARIANTS
  RegistryTellsTruth
  CompleteMeansSettled
PROPERTIES
  ImplementsLedger
  OrderIsKept
  SettledStays
  RunsEnd
