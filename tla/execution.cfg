CONSTANTS
  lamp = lamp  shutter = shutter  heater = heater
  Devices = {lamp, shutter, heater}
  Refusing = {heater}
  Slow = {shutter}
  Program <- Evening
SPECIFICATION FairSpec
INVARIANTS
  CountsAddUp
  SuccessIsComplete
  HistoryIsComplete
PROPERTIES
  Terminates
  SilentOnceDone
  StepsInOrder
CHECK_DEADLOCK FALSE
