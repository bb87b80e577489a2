SPECIFICATION FairSpec
CONSTANTS
  NIntc = 1
  NDmac = 1
  NSlots = 1
  NAlarms = 1
  MaxPasses = 2
  MaxTime = 1
  MaxTick = 1
  MaxOps = 1
INVARIANTS
  TypeOK NoLostInterrupt PromptDelivery PollerSeesEvent AlarmsKept
PROPERTIES
  NothingStarves
