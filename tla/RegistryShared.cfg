SPECIFICATION MCSpec
CONSTANTS
    Conns = {c1, c2}
    SubIds = {"s1", "s2"}
    Patterns = {"a"}
    Filters <- MCFilters
    Unconditional <- MCNoFilter
    Fields <- MCFields
    Plan <- MCPlan
    FieldsOf <- MCFieldsOf
    NoSub = NoSub
    MaxTotal = 1
    MaxPerConn = 2
    MaxPatterns = 2
    MaxPerPattern = 3
    MaxKeys = 9
    MaxFields = 4
    SubsOf <- MCSharedSubs
    FreshIds = FALSE
    Events <- MCEvents
    TopicMatch <- MCTopicMatch
    KeysOfEvent <- MCEventKeys
    Satisfies <- MCSatisfies
    Exact <- MCExact
    Threads = {t1, t2}
    TripCount = 2
    Cooldown = 2
    MaxSetbacks = 1
INVARIANTS
    SlotExclusive
    OwnerAgrees
    BitmapInBounds
    OvershootBounded
    ProbeHasOwner
PROPERTIES
    Recovers
