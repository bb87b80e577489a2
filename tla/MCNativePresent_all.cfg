SPECIFICATION FairSpec
CONSTANTS
  kFrames = 2
  Images = {i1, i2}
  Sizes = {small, large}
  Start = small
  None = None
  Repeats = TRUE
  MaxEvents = 2
INVARIANTS
  TypeOK NothingInUseIsTouched ShotIsRecent
PROPERTIES
  SizeFollowsWindow
