CONSTANTS
  a1 = a1
  a2 = a2
  Values <- TwoValues
  Commands <- SomeCommands
  FACTORY = FACTORY
  NoValue = NoValue
  MaxSaves = 2
  MaxPower = 0
  Faults <- NoFault
SPECIFICATION Spec
INVARIANTS
  ReadBack
CHECK_DEADLOCK FALSE
