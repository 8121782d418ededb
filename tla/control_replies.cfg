CONSTANTS
  Threads = {t1}
  Commands <- AllCommands
  Faults = {"spi"}
SPECIFICATION Spec
INVARIANTS TriggerApplied ReplyFits
PROPERTIES ImplementsService
CHECK_DEADLOCK FALSE
