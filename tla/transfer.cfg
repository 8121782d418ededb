CONSTANTS
  SSP_MAX_SCAN_LENGTH = 5
  SSP_MAX_FRAG_LENGTH = 2
  SNModulus = 8
  Lengths = {3, 4, 5}
  Loggers = {"ssp_log", "ssp_raw_log"}
  MaxScans = 4
  NetFaults = {"lose", "swap", "dup"}
  MaxFaults = 4
SPECIFICATION Spec
INVARIANTS TypeOK WholeScans DamageBounded
PROPERTIES ImplementsLog
CHECK_DEADLOCK FALSE
