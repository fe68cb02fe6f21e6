SPECIFICATION Spec
CONSTANTS
    Users = {u1}
    MaxCalls = 2
    Topics <- MCTopics
    Namespace = "chat"
    Channels <- MCChannels
    CmdCap = 1
    MaxSessions = 2
    MaxMsgs = 2
    MaxCuts = 1
    MaxChanges = 2
INVARIANTS
    InboundOnce
    PublishedIsAccounted
PROPERTIES
    ReapedSessionsEnd
CHECK_DEADLOCK FALSE
