CONSTANTS
  FastFix = TRUE
  ClockModulus = 16
  FastFixAge = 4
  MaxClock = 6
  ClockMayFail = FALSE
SPECIFICATION Spec
PROPERTY FastFixOnlyWhenOld
