CONSTANTS
  Part = {"on", "dimming"}
  MaxChanges = 3
  MaxFaults = 2
SPECIFICATION Spec
INVARIANTS
  QuietIsAccurate
PROPERTY CatchesUp
