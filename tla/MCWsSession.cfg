\* Sessions over two connections: reconnection, replay, retry and collision.
SPECIFICATION Spec
CONSTANTS
    Conn = {c1, c2}
    None = None
    MaxSeq = 3
    MaxBoth = 3
    MaxFlight = 2
    BufferSize = 1
    MaxRetries = 1
INVARIANTS
    NothingLost
    GiveUpEarned
    OneHandlerPerSession
PROPERTIES
    Delivery
CHECK_DEADLOCK FALSE
