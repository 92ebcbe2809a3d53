CONSTANTS
  ServiceResets = 3
  MaxResets = 5
  MaxWaypoints = 3
  FitsDocument = 2
  SleepTimes = {0, 114, 295, 313, 2147, 2148}
  Factor = 15625
  LongModulus = 67108864
  KeepAliveModulus = 512
SPECIFICATION ConfigSpec
INVARIANT SleepsAsConfigured
