SPECIFICATION Spec
CONSTANTS
    a1 = a1
    a2 = a2
    a3 = a3
    u1 = u1
    u2 = u2
    Requests = {a1, a2, a3, u1, u2}
    RemoteAddr <- TwoClients
    Ports = {a1, a2, a3, u1, u2}
    MaxActiveConnections = 3
    MaxConnectionsPerClient = 2
    MaxUpgradesPerClientPerMinute = 1
    Window = 3
    Second = 2
    SweepsWindows = TRUE
    LockDelay = 1
    MaxTime = 6
SYMMETRY Alike
INVARIANT SlotAccounting
INVARIANT CapsRespected
INVARIANT SlidingRateBound
INVARIANT RetryAfterHonest
INVARIANT WindowMapSwept
PROPERTY BudgetNeverReset
CHECK_DEADLOCK FALSE
