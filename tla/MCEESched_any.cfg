SPECIFICATION FairSpec
CONSTANTS
  NThreads = 2
  NSemas = 1
  MaxPrio = 1
  MaxCount = 1
  MaxWakeups = 1
  Quirks = {"storm", "iSuspendRunning", "iFromThread"}
INVARIANTS
  TypeOK
  ReadyExact
  WaitersExact
  NoLostWakeup
  CoroutineExact
PROPERTIES
  PendingIsServed
CHECK_DEADLOCK FALSE
