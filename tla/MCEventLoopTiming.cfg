SPECIFICATION TimingSpec
CONSTANTS
  NaN = NaN
  Delays = {1, 3}
  MaxTimers = 2
  MaxPromises = 1
  Uint32Mod = 6
  MaxSafeInteger = 11
  MaxStep = 1
INVARIANT LatenessBound
PROPERTY NeverEarly
CHECK_DEADLOCK FALSE
