SPECIFICATION Spec
CONSTANTS
    Subs = {s1, s2}
    ChanCap = 1
    EventCap = 1
    SeenLimit = 1
    Evicted = 1
    MaxEvents = 2
    MaxOps = 3
    MaxBreaks = 1
INVARIANTS
    SubsAgree
    HandedOverOnce
PROPERTIES
    Reconverges
CHECK_DEADLOCK FALSE
