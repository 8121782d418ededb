CONSTANTS
  Threads = {t1, t2}
  Commands <- ExitCommands
  Faults = {}
SPECIFICATION Spec
INVARIANT GoneAnswersExit
