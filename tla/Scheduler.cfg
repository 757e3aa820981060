SPECIFICATION MCSpec
CONSTANTS
    NumQueries = 3
    WorkerCount = 3
    MaxTasks = 2
    Failing = {1}
    Hurried = {1}
CHECK_DEADLOCK FALSE
INVARIANTS
    SlotsExact
PROPERTIES
    ServedInOrder
    EveryTaskRuns
