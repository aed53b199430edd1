CONSTANTS
  QUEUE_SIZE_THR = 2
  MaxPackets = 6
SPECIFICATION Spec
INVARIANTS
  CopyIsPopped
CHECK_DEADLOCK FALSE
