SPECIFICATION PartsSpec
CONSTANTS
  s1 = s1
  s2 = s2
  Sessions = {s1, s2}
  Kinds <- MCKinds
  MaxIoctls = 1
  MaxHangUps = 1
  Late = FALSE
  Callers = {t1, t2}
  QueryOpts = {query}
  UserOpts = {echo, enc}
  MaxCalls = 3
CHECK_DEADLOCK FALSE
INVARIANT SessionsSafe
PROPERTIES
  SessionsEnd
  SocketIoctls
