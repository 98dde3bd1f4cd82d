CONSTANTS
  a = a  b = b  c = c  d = d  z = z  lamp = lamp
  NoLaunch = NoLaunch
  Launches = {a, b, z}
  Scheduled = {z}
  Scenes <- OneScene
  Target <- AllOnLamp
  Outcome = {"success", "failed"}
  ShutdownMayTimeOut = TRUE
  MaxBoots = 2
SPECIFICATION FairSpec
INVARIANTS
  TypeOK
  EntryIsLive
  LastOrderWinsUnlessRaced
  RunningIsBackedUnlessRaced
  IssueOfLatestUnlessRaced
  StopWaits
PROPERTIES
  StopReturns
  LaunchEnds
CHECK_DEADLOCK FALSE
