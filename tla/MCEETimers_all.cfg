SPECIFICATION Spec
CONSTANTS
  Width = 3
  Modes <- MCModes
  Prescale <- MCPrescale
  Hblanks <- MCHblanks
  BootHblank = 3
  MaxAge = 6
INVARIANTS
  MemoFresh
PROPERTIES
  IsUpCounter
