SPECIFICATION Spec
CONSTANTS
  Cap = 4
  Sizes = {1, 2}
  MaxOps = 3
  Timeouts = FALSE
  Worries = {}
INVARIANTS
  FitsEmptyRing
