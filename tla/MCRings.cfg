SPECIFICATION PartsSpec
CONSTANTS
  Size <- MCSize
  Chunks <- MCChunks
  Limits <- MCLimits
  Counts <- MCCounts
  LineSize = 13
  MaxPayload = 3
  Mod = 6
  Frames = 3
  Noise = {1, 3, 5}
  HeadByte = 3
  TailByte = 4
  Modulus = 5
  BufSz = 14
  Spare = 3
  MaxPacks = 3
CHECK_DEADLOCK FALSE
INVARIANTS
  TypeOK
  FramesSafe
  PacksArrive
PROPERTIES
  IsFifo
  LoopEnds
