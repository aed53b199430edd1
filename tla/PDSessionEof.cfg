CONSTANTS
  Nobody = Nobody
  t1 = t1
  t2 = t2
  Threads <- TwoThreads
  MaxFds = 3
  Faults <- Eof
SPECIFICATION FairSpec
PROPERTIES
  SeamlessReconnect
CHECK_DEADLOCK FALSE
