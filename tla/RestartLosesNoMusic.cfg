CONSTANTS
  NumWaypoints = 2
  Positions <- MCPositions
  Distance <- MCDistance
  NaN = NaN
  Unset = Unset
  MaxDistance = 1000
  Accuracy = 100
  Timestamps = {0, 1}
  FlashMayFail = TRUE
  SleepDistance = 150
SPECIFICATION Spec
INVARIANT RestartLosesNoMusic
