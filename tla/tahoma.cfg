CONSTANTS
  Part = {"closure", "moving"}
  MaxListeners = 2
  MaxChanges = 2
  MaxFaults = 2
  MaxBoots = 1
SPECIFICATION Spec
INVARIANTS
  QuietIsAccurate
  NoListenerLeaks
PROPERTY ListenerIsRestored
CHECK_DEADLOCK FALSE
