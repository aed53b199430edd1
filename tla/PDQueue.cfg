CONSTANTS
  QUEUE_SIZE_THR = 2
  MaxPackets = 7
SPECIFICATION FairSpec
INVARIANTS
  TypeOK
  QueueIntact
  SizeCounts
PROPERTIES
  SizeFloor
  PopsInOrder
  Drained
CHECK_DEADLOCK FALSE
