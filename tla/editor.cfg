CONSTANTS
  Homes <- SomeHomes
  FirstSteps <- OneAction
  Names <- SomeNames
  Bare <- WithoutSpaces
  Commands = {"off", "setBrightness", "setColor"}
  Targets <- SomeTargets
  Amounts = {40}
  Schedules <- SomeSchedules
  HasCoordinates = TRUE
  MaxSteps = 2
  MaxCalls = 2
  MaxMoves = 3
SPECIFICATION Spec
INVARIANTS
  PreviewTellsTargets
  RelaysAreAnnounced
PROPERTIES
  RecordedIsKnown
  ClosedIsRecorded
CHECK_DEADLOCK FALSE
