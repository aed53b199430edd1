CONSTANTS
  Nobody = Nobody
  t1 = t1
  t2 = t2
  Threads <- TwoThreads
  MaxFds = 3
  Faults <- AnyFault
SPECIFICATION FairSpec
INVARIANTS
  TypeOK
  OneConsumer
  NothingLeaks
PROPERTIES
  ConsumerKept
  SessionsFollow
CHECK_DEADLOCK FALSE
