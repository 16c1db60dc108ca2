SPECIFICATION FairSpec
CONSTANTS
  NaN = NaN
  Delays <- MCDelays
  MaxTimers = 2
  MaxPromises = 1
  Uint32Mod = 4
  MaxSafeInteger = 7
INVARIANT TypeOK
INVARIANT SleepNeverDies
PROPERTY ImplementsFetchOps
PROPERTY TimersServed
