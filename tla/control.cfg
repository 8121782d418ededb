CONSTANTS
  Threads = {t1, t2}
  Commands <- EnableCommands
  Faults = {"bind", "send", "spi"}
SPECIFICATION FairSpec
INVARIANTS Rendezvous AcquiresAsConfigured
PROPERTIES LoadedUnderReset ImplementsService Answered
CHECK_DEADLOCK FALSE
