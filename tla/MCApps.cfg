SPECIFICATION PartsSpec
CONSTANTS
 MaxConns = 8
 MaxFails = 2
 MaxTurns = 4
 Cap = 2
 Packets <- MCPackets
 MaxFrames = 4
 MaxLosses = 1
 Images <- MCImages
 Roms = {0, 4}
 Chunk = 2
 Block = 3
 GptOffset = 10
 MaxThreads = 2
 RetryTimes = 1
 MaxFaults = 3
 MaxRuns = 2
CHECK_DEADLOCK FALSE
INVARIANTS TunnelSafe TunnelFrames UpgradeSafe
PROPERTY AppsGoOn
