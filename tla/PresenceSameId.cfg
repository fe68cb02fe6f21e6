SPECIFICATION Spec
CONSTANTS
    a = a
    b = b
    n1 = n1
    n2 = n2
    Conns = {a, b}
    Nodes = {n1, n2}
    Topics = {t1}
    Placements <- OnlyApart
    Id <- Counted
    Ttl = 100
    MaxFaults = 0
INVARIANT JoinedIsListed
CHECK_DEADLOCK FALSE
