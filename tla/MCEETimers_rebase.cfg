SPECIFICATION Spec
CONSTANTS
  Width = 3
  Modes <- MCModes
  Prescale <- MCPrescale
  Hblanks <- MCHblanks
  BootHblank = 3
  MaxAge = 7
PROPERTIES
  RebaseKeepsCount
