CONSTANTS
  Module = {"kitchen", "garden"}
  MaxSwitches = 2
  MaxFaults = 2
SPECIFICATION Spec
INVARIANTS
  ReachableAnswered
PROPERTIES
  CatchesUp
  RowsMirror
