SPECIFICATION FairSpec
CONSTANTS
    d1 = d1
    d2 = d2
    str = str
    inv = inv
    call = call
    rw = rw
    third = third
    Dexes <- MCDexes
    CacheFlags <- MCCacheFlags
    CrossFlags <- MCCrossFlags
    BadInit <- MCBadInit
    BadCross <- MCBadCross
    BadAggregate <- MCBadAggregate
    Requests <- MCRequests
    MaxRuns = 4
CHECK_DEADLOCK FALSE
INVARIANTS
    ClaimsSettled
PROPERTIES
    WarmUpPromise
    EveryRunEnds
