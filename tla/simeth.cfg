SPECIFICATION FairSim
CONSTANTS
  Programs = {"simeth", "simeth_2"}
  Clients = {c1, c2}
  SCAN_LENGTH = 1
  n_scans = 1
  MAX_NS = 2
  FifoSize = 4
  MaxSem = 3
  MaxSocket = 1
INVARIANTS WholeDatagrams NoLag
PROPERTIES Finishes
CHECK_DEADLOCK FALSE
