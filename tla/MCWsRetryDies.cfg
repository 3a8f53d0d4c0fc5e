\* An acknowledgement that arrives while the retry task awaits another resend.
SPECIFICATION Spec
CONSTANTS
    Conn = {c1, c2}
    None = None
    MaxSeq = 3
    MaxBoth = 3
    MaxFlight = 2
    BufferSize = 1
    MaxRetries = 1
INVARIANT RetryRunsUntilCancelled
CHECK_DEADLOCK FALSE
