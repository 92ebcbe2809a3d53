CONSTANTS
  FastFix = TRUE
  ClockModulus = 4
  FastFixAge = 2
  MaxClock = 2
  ClockMayFail = TRUE
SPECIFICATION Spec
INVARIANTS TypeOK LockMatchesCode KeepaliveExists NothingWithoutGsm
PROPERTIES ImplementsISim PowerOffIsFinal KeepaliveServed CallReturns
