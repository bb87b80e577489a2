SPECIFICATION Spec
CONSTANTS
  NThreads = 3
  NSemas = 0
  MaxPrio = 1
  MaxCount = 1
  MaxWakeups = 0
  Quirks = {"storm"}
INVARIANTS
  NoYieldOutsideCoroutine
CHECK_DEADLOCK FALSE
