SPECIFICATION FairSpec
CONSTANT MaxPromises = 3
INVARIANT TypeOK
INVARIANT TableMatchesOps
INVARIANT ReadyIsQueued
INVARIANT WakeReachesLoop
PROPERTY ImplementsContract
PROPERTY RequestsStarted
PROPERTY BodiesDelivered
CHECK_DEADLOCK FALSE
