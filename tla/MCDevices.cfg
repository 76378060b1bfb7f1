SPECIFICATION PartsSpec
CONSTANTS
  TxSize = 2
  RxSize = 2
  MaxPlugs = 2
  MaxReplies = 1
  Modes = {"scan", "host"}
  Stale = FALSE
  Names = {a, b}
  MaxAdds = 2
  MaxTurns = 2
  ClockSteps = FALSE
CHECK_DEADLOCK FALSE
INVARIANTS
  TearDownSafe
  ListedIsReady
  UartSafe
PROPERTIES
  DevicesGoOn
