CONSTANTS
  Rooms = {"bath", "kitchen"}
  FirstRooms = {"bath"}
  Specs <- TwoSpecs
  MaxRequests = 2
  MaxEvents = 3
SPECIFICATION TabsSpec
INVARIANTS
  PositionsAreDistinct
  KnownCopyIsTrue
PROPERTIES
  OrderIsKept
CHECK_DEADLOCK FALSE
