CONSTANTS
  a = a  b = b  c = c  d = d  z = z  lamp = lamp
  NoLaunch = NoLaunch
  Launches = {a, b, c, d}
  Scheduled = {}
  Scenes <- OneScene
  Target <- AllOnLamp
  Outcome = {"success", "failed"}
  ShutdownMayTimeOut = FALSE
  MaxBoots = 1
SPECIFICATION Spec
INVARIANT LastOrderWins
CHECK_DEADLOCK FALSE
