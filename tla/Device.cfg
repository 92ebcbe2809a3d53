CONSTANTS
  NumWaypoints = 1
  Positions <- MCPositions
  Distance <- MCDistance
  NaN = NaN
  Unset = Unset
  MaxDistance = 1000
  Accuracy = 100
  Timestamps = {0, 1}
  FlashMayFail = FALSE
  SleepDistance = 150
  ServiceResets = 3
  MaxResets = 5
SPECIFICATION DeviceSpec
INVARIANT ServiceIffQuickResets
PROPERTY TrackerComesBack
