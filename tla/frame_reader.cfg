SPECIFICATION Spec
CONSTANTS
    MessageSizes = {0, 1, 3}
    ReadSizes = {1, 2}
    MaxMessages = 3
INVARIANT EndMeansClosed
PROPERTY IsByteStream
PROPERTY EverythingIsRead
PROPERTY LossEndsRead
