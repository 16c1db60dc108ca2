SPECIFICATION HSpec
CONSTANTS
  NaN = NaN
  Delays <- MCDelays
  MaxTimers = 2
INVARIANT TypeOK
PROPERTY ClearedNeverCalled
PROPERTY TimeoutReturnsOnce
PROPERTY IntervalSpacing
PROPERTY ImplementsTimerContract
PROPERTY OneCallPerPass
