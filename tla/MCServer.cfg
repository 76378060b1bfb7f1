SPECIFICATION PartsSpec
CONSTANTS
  c1 = c1
  c2 = c2
  Conns = {c1, c2}
  May <- MCMay
  MaxDevs = 2
  MaxCalls = 2
  Buf = 1
  Clients = {k1, k2}
  SendMax = 2
  SendCap = 2
  MaxTyped = 2
CHECK_DEADLOCK FALSE
INVARIANTS
  SubscribersServed
  AnswersAreTrue
  CmdLineSafe
PROPERTIES
  ServerGoesOn
