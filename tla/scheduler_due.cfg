CONSTANTS
  dawn = dawn  dusk = dusk
  Scenes = {dawn, dusk}
  MaxTime = 5
  Grace = 2
  Floor = 1
  MaxSleep = 3
  MaxDisturbances = 2
  MaySuspend = TRUE
  ReadsMayFail = TRUE
  WritesMayFail = TRUE
  Plans <- SomePlans
SPECIFICATION Spec
SYMMETRY SceneSymmetry
INVARIANTS
  TypeOK
  AtMostOnce
PROPERTIES
  MissedIsCaughtUpUnlessReload
CHECK_DEADLOCK FALSE
