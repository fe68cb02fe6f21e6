SPECIFICATION Spec
CONSTANTS
    Users = {u1}
    MaxCalls = 2
    Topics <- MCTopics
    Namespace = "chat"
    Channels <- MCChannels
    CmdCap = 1
    MaxSessions = 1
    MaxMsgs = 2
    MaxCuts = 0
    MaxChanges = 1
INVARIANTS
    UsersSpeakWhereTheyAre
CHECK_DEADLOCK FALSE
