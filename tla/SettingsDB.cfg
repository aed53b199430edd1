CONSTANTS
  a1 = a1
  a2 = a2
  Values <- TwoValues
  Commands <- SomeCommands
  FACTORY = FACTORY
  NoValue = NoValue
  MaxSaves = 2
  MaxPower = 2
  Faults <- AnyFault
SPECIFICATION Spec
INVARIANTS
  TypeOK
  ReportedIsDurable
  CopiesAgree
  CompleteOnceRunning
CHECK_DEADLOCK FALSE
