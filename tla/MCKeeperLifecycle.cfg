\* One chain and two duels, or two chains and one, a crash, a failure, a stream that goes back.
SPECIFICATION FairSpec
CONSTANTS
    bsc = bsc
    base = base
    Deployments = {{bsc}, {bsc, base}}
    MaxJobs = 2
    Cycles = 2
    MaxCrashes = 1
    MaxFailures = 1
    MaxRewinds = 1
    DeferFinalize = FALSE
    HasFinalizer = TRUE
INVARIANTS LockedOnceInOrder BettingClosedAfterLock
 
