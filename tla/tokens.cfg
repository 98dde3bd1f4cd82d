CONSTANTS
  MaxExchanges = 2
  MaxExpiries = 2
  MaxReadings = 2
  MaxFaults = 2
SPECIFICATION Spec
INVARIANTS
  AccessIsKept
PROPERTIES
  UsedIsStored
  EndsHealthy
