SPECIFICATION Spec
CONSTANTS
    PingInterval = 2
    IdleTimeout = 6
    RoundTrip = 2
    Stall = 1
    PeerAnswers = FALSE
    MaxTime = 14
INVARIANT IdleMeansSilent
CHECK_DEADLOCK FALSE
