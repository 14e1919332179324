\* Four tables, one row with a child, two deliveries of the job.
SPECIFICATION FairSpec
CONSTANTS
  Executors = {x, y}
  Ids = {i}
  Tables = 4
  Registered <- MCRegistered
  Conf <- MCConf
  Meta <- MCMeta
  Width = 2
  MaxNow = 5
  MaxFails = 1
PROPERTIES
  OnlyExpiredGo
  OrphansAreLate
  RetentionCatchesUp
