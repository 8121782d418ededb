SPECIFICATION Spec
CONSTANTS
  Wants <- MCWants
  OtherWants <- MCOtherWants
  Indices = {3}
  MaxRuns = 2
  MaxOthers = 1
  MaxStops = 2
  MaxSocket = 1
  MaxIndex = 3
INVARIANTS LockNamesOpen NoLeftovers StreamsToMe
PROPERTIES ImplementsService
CHECK_DEADLOCK FALSE
