CONSTANTS
  NumWaypoints = 3
  Positions <- MCPositions
  Distance <- MCDistance
  NaN = NaN
  Unset = Unset
  MaxDistance = 1000
  Accuracy = 100
  Timestamps = {0, 1, 2}
  FlashMayFail = TRUE
SPECIFICATION Spec
INVARIANTS TypeOK NeverSkip QuiescentIsDurable AtMostOneBehind
PROPERTY ImplementsProgress
