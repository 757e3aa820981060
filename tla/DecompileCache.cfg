SPECIFICATION Spec
CONSTANTS
    t1 = t1
    t2 = t2
    ka = ka
    kb = kb
    kc = kc
    kd = kd
    n1 = n1
    n2 = n2
    n3 = n3
    n4 = n4
    Threads <- MCThreads
    Nodes <- MCNodes
    Classes <- MCClasses
    Keys = {ka, kb, kc, kd}
    Located = {ka, kb, kc}
    Malformed = {ka, kc}
    Capacities = {0, 1, 2}
    DefaultCapacity = 2
    MaxFailures = 1
SYMMETRY MCSymmetry
CHECK_DEADLOCK FALSE
INVARIANTS
    IndexSound
    CacheIsLru
    AnswersMatch
