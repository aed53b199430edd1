CONSTANTS
  PACKETS = 4
  SEQ_LAST = 2
  RES_WAIT = 2
  SEQ_WAIT = 2
  RETRY_TX = 2
  BUS_MAX = 2
  Updates = 2
SPECIFICATION FairSpec
PROPERTIES
  SuspensionEnds
CHECK_DEADLOCK FALSE
