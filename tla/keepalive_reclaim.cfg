SPECIFICATION Spec
CONSTANTS
    PingInterval = 2
    IdleTimeout = 6
    RoundTrip = 2
    Stall = 1
    PeerAnswers = TRUE
    MaxTime = 14
INVARIANT ReclaimedWithinIdleTimeout
CHECK_DEADLOCK FALSE
