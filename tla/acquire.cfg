CONSTANTS
  SSP_MAX_SCAN_LENGTH = 4
  Lengths = {3, 4}
  Depth = 6
  MaxScans = 4
  MaxRuns = 2
SPECIFICATION FairSpec
INVARIANTS NoUnderflow
PROPERTIES ImplementsLog EveryScanSent
CHECK_DEADLOCK FALSE
