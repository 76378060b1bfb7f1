SPECIFICATION FairSpec
CONSTANTS
  Byte <- MCByte
  Chunks <- MCChunks
  BufSize = 4
  MaxPayload = 2
  Limits <- MCLimits
  DevCap = 3
  Links <- MCLinks
  MaxStream = 7
  MaxWrites = 2
  MaxFlight = 3
INVARIANTS
  StreamIntegrity
  AckInWindow
  CompletedExactly
PROPERTIES
  EveryByteAcked
  IsByteStream
