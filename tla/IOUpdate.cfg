CONSTANTS
  PACKETS = 4
  SEQ_LAST = 2
  RES_WAIT = 2
  SEQ_WAIT = 2
  RETRY_TX = 3
  BUS_MAX = 3
  Updates = 3
SPECIFICATION FairSpec
INVARIANTS
  TypeOK
PROPERTIES
  Implements
  EveryPacketTried
  UpdateEnds
CHECK_DEADLOCK FALSE
