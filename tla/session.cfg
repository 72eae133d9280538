SPECIFICATION Spec
CONSTANTS
    s1 = s1
    s2 = s2
    Sessions = {s1, s2}
    MaxActive = 2
    KeepaliveOn = TRUE
    LifetimeOn = TRUE
INVARIANT AccountsCoverSessions
INVARIANT DisconnectAtTrueEnd
INVARIANT NothingLeftBehind
PROPERTY DeadSessionEnds
PROPERTY StopEndsSessions
CHECK_DEADLOCK FALSE
