CONSTANTS
  INTERVAL = 4
  SLEEP = 2
  WAIT = 1
  MOD = 11
SPECIFICATION FairSpec
INVARIANTS
  TypeOK
  SyncDue
  GoodIsTrue
PROPERTIES
  QualityFollows
