SPECIFICATION FairSpec
CONSTANTS
  Threads = {t1, t2}
  Firmware = {"402", "a"}
  Commands <- MCCommands
  MAX_NS = 2
  NSRange = 4
  FifoSize = 2
  MaxCommands = 4
  MaxSem = 2
INVARIANTS NoLostWakeup WholeDatagrams
PROPERTIES Obeyed
CHECK_DEADLOCK FALSE
