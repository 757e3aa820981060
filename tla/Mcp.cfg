SPECIFICATION MCSpec
CONSTANTS
    t1 = t1
    t2 = t2
    p1 = p1
    p2 = p2
    p3 = p3
    Threads <- TwoThreads
    Paths <- ThreePaths
    NoPath = NoPath
    Contents <- ThreeShapes
    DK_CACHE_MAX = 2
    MaxCalls = 4
    MaxWrites = 1
CHECK_DEADLOCK FALSE
INVARIANTS
    AnswersSound
PROPERTIES
    SerialLru
