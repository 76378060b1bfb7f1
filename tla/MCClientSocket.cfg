SPECIFICATION FairSpec
CONSTANTS
  Writers <- TwoWriters
  Readers <- TwoReaders
  Queriers <- OneQuerier
  BufLen = 2
  WriteLen = 3
  MaxSnd = 2
  ReadLen = 1
  MaxRecv = 3
  MaxSeq = 3
  Setups <- AllKinds
CHECK_DEADLOCK FALSE
INVARIANTS
  SessionSafe
  NoReaderAsleepOnData
  OwnResults
PROPERTIES
  SessionAndCallsEnd
