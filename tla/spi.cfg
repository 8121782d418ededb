CONSTANTS
  Boards <- MCBoards
  Dividers <- MCDividers
  MaxFaults = 1
SPECIFICATION Spec
CHECK_DEADLOCK FALSE
INVARIANTS InStep RightSlave Clocked
PROPERTIES Synced
