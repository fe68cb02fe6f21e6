SPECIFICATION MCSpec
CONSTANTS
    Configs <- MCConfigs
    Tokens <- MCTokens
    Texts <- MCTexts
    Topics <- MCTopics
    Origins = {"o1", "o2", "none"}
    NoOrigin = "none"
    MaxTime = 1
    MaxSubs = 2
    MaxEvents = 2
    MaxBatch = 2
    Fields = {"f", "g"}
    Values <- MCValues
    Operators = {"eq", "ne", "in", "gt"}
    MaxClauses = 3
    Conns = {c1, c2}
    Nodes = {n1, n2}
    Tenants = {t, u}
    Window = 2
    MaxQty = 3
    MaxClock = 4
    MaxFaults = 1
SYMMETRY MCSymmetry
INVARIANTS
    DispatchIsEvaluate
    
    IndexIsCounted
    WithinGrants
    RotationKeepsClaimsStrict
    RestAnswersHonestly
    NeverOverbilled
    ExactWhenOnTime
CHECK_DEADLOCK FALSE
