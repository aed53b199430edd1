CONSTANTS
  MaxCommands = 2
  MaxRestarts = 1
  WAIT = 1
SPECIFICATION FairSpec
INVARIANTS
  TypeOK
  NoTornCommand
  DoneIsMine
  BootChecked
PROPERTIES
  CommandsEnd
CHECK_DEADLOCK FALSE
