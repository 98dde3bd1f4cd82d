CONSTANTS
  None = None
  Days <- AllDays
  Queried <- QueriedDays
  Midnight <- Midnights
  Elapsed <- Clock
  Weekday <- Weekdays
  Sunrise <- Rises
  Sunset <- Sets
  Polar <- PolarDays
  Schedules <- SomeSchedules
SPECIFICATION WalkSpec
INVARIANTS
  NextIsFirstWithinDays
  LastIsLastUnlessCarriedBack
PROPERTIES
  WalkLeavesNothingOut
CHECK_DEADLOCK FALSE
