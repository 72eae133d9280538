SPECIFICATION ClientSpec
CONSTANTS
    QueueLimit = 4
    ByteLimit = 4
    ErrorCap = 2
    MessageSizes = {0, 1, 2, 5}
    ReadSizes = {1, 2}
    MaxMessages = 5
    MaxDials = 2
INVARIANT QueueBounded
PROPERTY IsByteStream
PROPERTY EverythingIsRead
PROPERTY CloseReachesReader
INVARIANT NoOrphanSocket
INVARIANT NoReleasedHandler
PROPERTY DialReturns
CHECK_DEADLOCK FALSE
