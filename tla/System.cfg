CONSTANTS
  NumWaypoints = 1
  Positions <- MCPositions
  Distance <- MCDistance
  NaN = NaN
  Unset = Unset
  MaxDistance = 1000
  Accuracy = 100
  Timestamps = {0, 1}
  FlashMayFail = FALSE
  SleepDistance = 150
  Enabled = {"GSM", "GPS"}
  FastFix = TRUE
  ClockModulus = 2
  FastFixAge = 1
  MaxClock = 1
  ClockMayFail = FALSE
SPECIFICATION SystemSpec
INVARIANT DriverCalledRight
PROPERTIES ToldIsSaved HeardAgain MusicStarts
