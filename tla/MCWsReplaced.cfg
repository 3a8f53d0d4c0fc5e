\* Three connections: the handler of the first, replaced by the second, ends
\* and takes the second out of the registry, so the third does not close it.
SPECIFICATION Spec
CONSTANTS
    Conn = {c1, c2, c3}
    None = None
    MaxSeq = 1
    MaxBoth = 2
    MaxFlight = 1
    BufferSize = 1
    MaxRetries = 1
INVARIANT OneOpenConnection
CHECK_DEADLOCK FALSE
