SPECIFICATION Spec
CONSTANTS
    Conns = {c1, c2}
    Responsive = {c1}
    Topics = {t1}
    PoolSizes = {1, 2}
    Policy <- MCMixed
    BusCap = 1
    DispatchCap = 1
    WorkerCap = 1
    QueueCap = 1
    MaxEvents = 3
INVARIANTS
    EveryMatchOnce
PROPERTIES
    ImplementsFifo
    SlowDoesNotBlock
CHECK_DEADLOCK FALSE
