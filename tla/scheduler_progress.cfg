CONSTANTS
  dawn = dawn  dusk = dusk
  Scenes = {dawn, dusk}
  MaxTime = 5
  Grace = 2
  Floor = 1
  MaxSleep = 3
  MaxDisturbances = 2
  MaySuspend = FALSE
  ReadsMayFail = FALSE
  WritesMayFail = FALSE
  Plans <- TwoPlans
SPECIFICATION FairSpec
PROPERTIES
  DueIsProcessed
CHECK_DEADLOCK FALSE
