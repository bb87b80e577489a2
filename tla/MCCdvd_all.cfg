SPECIFICATION CdFairSpec
CONSTANTS
  NClients = 2
  Latency = 2
  Retry = 2
  SyscallTicks = 3
  MaxHold = 0
  MaxTick = 1
  PerSector = 2
  SeekTime = 3
  MaxSectors = 2
  Asks = {3}
  Rings <- MCRings
INVARIANTS
  OneCompletion RightReason
PROPERTIES
  PollTruthful IsSectorRing StreamFlows CallsAndBootsEnd
