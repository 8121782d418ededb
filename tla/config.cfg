\* The configuration server, with power cuts.
SPECIFICATION Spec
CONSTANTS
  c1 = c1
  c2 = c2
  main = main
  Conns = {c1, c2}
  Users <- MCUsers
  LastPage = 2
  EEPages = 4
  MaxValue = 2
  MaxValid = 1
  MaxCuts = 1
  InTurn = TRUE
  Requests <- MCRequests
INVARIANTS OnlySubmitted
PROPERTIES Durable Served
CHECK_DEADLOCK FALSE
