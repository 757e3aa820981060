SPECIFICATION MCSpec
CONSTANTS
    q1 = q1
    q2 = q2
    q3 = q3
    str = str
    call = call
    NoCaller = NoCaller
    Callers <- MCCallers
    Flags <- MCFlags
    Broken = {call}
    Needs <- MCNeeds
    Limits = {0, 1, 2}
    MaxCalls = 3
    MaxChanges = 2
    MaxShortages = 1
CHECK_DEADLOCK FALSE
INVARIANTS
    WarmUpAlone
    ReadyWhenActive
    QueueIsLive
PROPERTIES
    NoOvertaking
    EveryQueryReturns
