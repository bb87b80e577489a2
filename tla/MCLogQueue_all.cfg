SPECIFICATION FairSpec
CONSTANTS
  Thread = {"ee", "dog"}
  Dog = "dog"
  Slots = 3
  Endings = {"exit", "fatal", "fault", "interrupt"}
  Leavers = {"ee", "dog"}
  MaxLines = 1
INVARIANTS
  TypeOK
  Accounted
PROPERTIES
  NothingHangs
CHECK_DEADLOCK FALSE
