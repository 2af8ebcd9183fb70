SPECIFICATION ExecutorFairSpec
CONSTANTS
    TaskList <- MCTaskList
    Capacity = 2
    MayDie = {"t2"}
    NotifierFails = TRUE
INVARIANTS
    ResultsAwaited
    OrphanedOnlyByError
PROPERTIES
    ReportsImplemented
    RunEnds
    LateTaskReported
CHECK_DEADLOCK FALSE
