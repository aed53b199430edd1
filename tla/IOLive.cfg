CONSTANTS
  ERR_LIMIT = 3
  WAIT_LIMIT = 5
  U8_MOD = 6
  RX_MAX = 1
SPECIFICATION FairSpec
INVARIANTS
  TypeOK
PROPERTIES
  AlarmNeedsMisses
  SetUpNeedsAnswer
  AlarmFollows
