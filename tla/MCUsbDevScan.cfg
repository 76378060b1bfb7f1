SPECIFICATION FairSpec
CONSTANTS
  TxSize = 2
  RxSize = 2
  MaxPlugs = 1
  MaxReplies = 1
  Modes = {"scan"}
  Stale = FALSE
CHECK_DEADLOCK FALSE
PROPERTY KeepsScanning
