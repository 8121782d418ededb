\* The subbus server and its watchdog.
SPECIFICATION Spec
CONSTANTS
  TwoSec = 2
  TwoMin = 3
  b1 = b1
  b2 = b2
  b3 = b3
  Boards <- MCBoards
  Present = {b1, b2}
  RecvBufSize = 4
  RcvTimeout = 2
  AddrMod = 4
  MaxCount = 2
  MaxRanges = 2
  Hosts <- MCHosts
INVARIANTS CommandsWatched OwnersKnown MultiBounded
PROPERTIES NoSilentRestart Noticed
