SPECIFICATION StaysSpec
CONSTANTS
  NThreads = 3
  NSemas = 1
  MaxPrio = 1
  MaxCount = 1
  MaxWakeups = 0
  Quirks = {}
INVARIANTS
  NoPriorityInversion
PROPERTIES
  FifoWithinPriority
  OneSignalOneWakeup
CHECK_DEADLOCK FALSE
