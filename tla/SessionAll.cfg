SPECIFICATION Spec
CONSTANTS
    CtrlCap = 1
    SlowLimit = 1
    BatchSize = 2
    MaxRequests = 3
    MaxEvents = 1
INVARIANTS
    CloseOvertakesNothing
    NoLeakWithoutOrphan
PROPERTIES
    TasksEnd
CHECK_DEADLOCK FALSE
