SPECIFICATION MCSpec
CONSTANTS
    u1 = u1
    u2 = u2
    u3 = u3
    d1 = d1
    d2 = d2
    a1 = a1
    Uploads <- MCUploads
    Deletes <- MCDeletes
    Analyses <- MCAnalyses
    Bogus = Bogus
    NoOne = NoOne
    Contents <- TwoShapes
    SESSION_CACHE_MAX = 1
    MAX_TURNS = 2
    MaxBlocks = 1
CHECK_DEADLOCK FALSE
INVARIANTS
    SessionsOwned
PROPERTIES
    EveryRequestEnds
