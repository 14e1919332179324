\* Three users, two databases, up to two Dals of one connection each.
SPECIFICATION FairDalSpec
CONSTANTS
  Users = {u, v, w}
  Configs <- MCConfigs
  Entities <- MCEntities
  PoolSize = 1
  MaxDals = 2
INVARIANTS
  DalsAreAccountedFor
  ClosedIsDrained
  OperationsStayInDomain
PROPERTY ResetsEnd
CHECK_DEADLOCK FALSE
