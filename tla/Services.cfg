CONSTANTS
  MaxEvents = 3
  LastTime = 2
  DAY = 2
  ZONE = 1
  LoggerTimes = {0}
  Typed <- SomeTimes
  Milli <- Millis
  c1 = c1
  c2 = c2
  Clients <- TwoClients
  Nobody = Nobody
  SIZE = 4
  MAX = 3
  MaxLeafs = 4
  Items <- TwoItems
SPECIFICATION FairSpec
INVARIANTS
  TypeOK
  EventKept
  UploadExact
  OwnLeaf
PROPERTIES
  
  
  Collected
  ServedAgain
CHECK_DEADLOCK FALSE
