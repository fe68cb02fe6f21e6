SPECIFICATION Spec
CONSTANTS
    a = a
    b = b
    n1 = n1
    n2 = n2
    Conns = {a, b}
    Nodes = {n1, n2}
    Topics = {t1}
    Placements <- TogetherOrApart
    Id <- Counted
    Ttl = 2
    MaxFaults = 1
INVARIANTS
    LocalSetExact
    FinalSetPublished
    
PROPERTIES
    QuietTopicEmpties
CHECK_DEADLOCK FALSE
