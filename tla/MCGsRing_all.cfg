SPECIFICATION FairSpec
CONSTANTS
  Cap = 2
  Sizes = {1, 2}
  MaxOps = 2
  Timeouts = TRUE
  Worries = {"window", "repeat", "inner", "late"}
INVARIANTS
  TypeOK InItsTurn NoLostWakeup
PROPERTIES
  IsCallQueue WaitsEnd
