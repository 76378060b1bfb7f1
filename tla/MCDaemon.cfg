SPECIFICATION PartsSpec
CONSTANTS
  s1 = s1
  s2 = s2
  s3 = s3
  Sessions <- Three
  Setups <- OneAfterTheOther
  Clients = {c1, c2}
  Intfs = {"usb", "uart", "other"}
  MaxCalls = 2
  MaxFaults = 2
  RingSize = 3
  BatchSize = 2
  LineMax = 2
  MaxLines = 3
  MaxShort = 1
CHECK_DEADLOCK FALSE
INVARIANTS
  NodesSafe
  OpenMeansOpen
  DaemonSafe
PROPERTIES
  ClosesOnlyItsOwn
  DaemonGoesOn
