SPECIFICATION ProducersSpec
CONSTANTS
    Databases = {d1}
    Adapters = {"postgresql", "mongodb", "mysql"}
    ChanCap = 1
    Ops <- MCOps
    Foreign = {2}
    MaxOutages = 2
INVARIANTS
    ChangesAccounted
PROPERTIES
    DeadIsReported
    PostgresReattaches
    StopIsFinal
CHECK_DEADLOCK FALSE
