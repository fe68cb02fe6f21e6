SPECIFICATION Spec
CONSTANTS
    Conns = {c1, c2}
    SubIds = {"s1", "s2", "s3"}
    Patterns = {"a", "*"}
    Filters <- MCFilters
    Unconditional <- MCNoFilter
    Fields <- MCFields
    Plan <- MCPlan
    FieldsOf <- MCFieldsOf
    NoSub = NoSub
    MaxTotal = 4
    MaxPerConn = 2
    MaxPatterns = 2
    MaxPerPattern = 3
    MaxKeys = 9
    MaxFields = 4
    SubsOf <- MCDisjointSubs
    FreshIds = TRUE
    Events <- MCEvents
    TopicMatch <- MCTopicMatch
    KeysOfEvent <- MCEventKeys
    Satisfies <- MCSatisfies
    Exact <- MCExact
INVARIANTS
    RegisteredIsIndexed
    BitmapEqualsLinear
    NothingLeaks
    PerConnectionCap
