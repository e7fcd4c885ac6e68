\* A fail-over and back, four events, one crash.
SPECIFICATION FairSpec
CONSTANTS
    Epochs = {1, 2}
    MaxLen = 3
    MaxEvents = 4
    MaxTime = 1
    MaxCrashes = 1
    MaxSwitches = 2
    Tolerance = 0
    BreakerLimit = 2
INVARIANT ProjectionMatchesCheckpoint
PROPERTIES AppliedOnce NoMaterialRollback  CatchesUp
CHECK_DEADLOCK FALSE
